--------------------------- MODULE HlsSupervisor ---------------------------
(***************************************************************************)
(* One camera's HLSPipeline (pipeline/ffmpeg_hls.py): the supervisor that  *)
(* launches ffmpeg, notices its exit or a stall and reconnects through     *)
(* with_retry, the segment watcher beside it, and stop(), which cancels    *)
(* both and takes the process down.                                        *)
(*                                                                         *)
(* What the watcher hands to the upload queue is in UploadQueue.  Delays   *)
(* are not measured: a timer expires at any time.                          *)
(***************************************************************************)
EXTENDS Integers

CONSTANT MaxFailures   \* recovery.rtsp_max_failures

ASSUME MaxFailuresAssumption == MaxFailures \in Nat \ {0}

VARIABLES
  phase,        \* how far stop() is
  supervisor,   \* where the supervisor task is
  watcher,      \* whether the watcher task runs
  ffmpeg,       \* the process in self._process
  stray,        \* whether an ffmpeg nobody holds any more still runs
  attempt,      \* attempt number of the current with_retry call
  fresh,        \* whether a segment on disk is not in known_segments yet
  timer,        \* whether rtsp_segment_timeout_s has passed since the last segment
  connected,    \* per_camera "connected" (and _rtsp_connected, set with it)
  streaming,    \* per_camera "streaming"
  unavailable,  \* _camera_unavailable
  inRow         \* history: failed launches since a supervised ffmpeg last produced a
                \* segment, capped at MaxFailures

health == <<connected, streaming, unavailable>>
vars   == <<phase, supervisor, watcher, ffmpeg, stray, attempt, fresh, timer,
            health, inRow>>

Flag == {"no", "yes"}

TypeOK ==
  /\ phase \in {"running", "cancel", "unwatch", "terminate", "grace", "publish", "stopped"}
  /\ supervisor \in {"launch", "watch", "drain", "backoff", "idle", "off"}
  /\ watcher \in Flag
  /\ ffmpeg \in {"none", "alive", "stopping", "dead"}
  /\ stray \in Flag
  /\ attempt \in 0..MaxFailures
  /\ fresh \in Flag
  /\ timer \in {"running", "expired"}
  /\ connected \in Flag /\ streaming \in Flag /\ unavailable \in Flag
  /\ inRow \in 0..MaxFailures

\* start() has created both tasks.
Init ==
  /\ phase = "running" /\ supervisor = "launch" /\ watcher = "yes"
  /\ ffmpeg = "none" /\ stray = "no" /\ attempt = 0
  /\ fresh = "no" /\ timer = "running"
  /\ connected = "no" /\ streaming = "no" /\ unavailable = "no"
  /\ inRow = 0

Runs(process) == process \in {"alive", "stopping"}

\* self._process = None
DropProcess ==
  /\ ffmpeg' = "none"
  /\ stray' = IF Runs(ffmpeg) THEN "yes" ELSE stray

Count(n) == IF n < MaxFailures THEN n + 1 ELSE n

-----------------------------------------------------------------------------
(* The process and the clock                                               *)

FfmpegExits ==
  /\ Runs(ffmpeg)
  /\ ffmpeg' = "dead"
  /\ UNCHANGED <<phase, supervisor, watcher, stray, attempt, fresh, timer, health, inRow>>

\* Also after SIGTERM: ffmpeg closes its last segment.
FfmpegWrites ==
  /\ Runs(ffmpeg)
  /\ fresh' = "yes"
  /\ UNCHANGED <<phase, supervisor, watcher, ffmpeg, stray, attempt, timer, health, inRow>>

TimerExpires ==
  /\ timer = "running"
  /\ timer' = "expired"
  /\ UNCHANGED <<phase, supervisor, watcher, ffmpeg, stray, attempt, fresh, health, inRow>>

-----------------------------------------------------------------------------
(* The supervisor: _supervisor_loop, with_retry, _launch_and_wait,         *)
(* _wait_exit_or_stall.  stop() cancels it as it clears _running, so it    *)
(* takes no step of its own afterwards.                                    *)

\* Mutant of OnConnected: a spawned process counts as a success of with_retry.
OnConnectedResets ==
  /\ timer' = "running" /\ connected' = "yes" /\ streaming' = "yes" /\ unavailable' = "no"
  /\ attempt' = 0

\* _on_connected, called as soon as the process has been spawned
OnConnected ==
  /\ timer' = "running" /\ connected' = "yes" /\ streaming' = "yes" /\ unavailable' = "no"
  /\ UNCHANGED attempt

Launched ==
  /\ phase = "running" /\ supervisor = "launch"
  /\ supervisor' = "watch" /\ ffmpeg' = "alive"
  /\ OnConnected
  /\ UNCHANGED <<phase, watcher, stray, fresh, inRow>>

\* Mutant of OnFailure: the flag is left to the next launch.
OnFailureSilent == UNCHANGED connected /\ streaming' = "no"

\* _on_failure
OnFailure == connected' = "no" /\ streaming' = "no"

\* A launch failed: with_retry backs off, or, at its last attempt, raises; then
\* the camera is marked and the loop rests before the next with_retry call.
RetryOrMark ==
  /\ inRow' = Count(inRow)
  /\ IF attempt = MaxFailures
       THEN supervisor' = "idle" /\ attempt' = 0 /\ unavailable' = "yes"
       ELSE supervisor' = "backoff" /\ attempt' = attempt + 1 /\ UNCHANGED unavailable

\* ffmpeg could not be spawned: no _on_failure, there was no connection.  Only
\* _mark_unavailable corrects what a late segment wrote to "streaming".
LaunchFails ==
  /\ phase = "running" /\ supervisor = "launch"
  /\ RetryOrMark
  /\ IF attempt = MaxFailures THEN connected' = "no" /\ streaming' = "no"
                              ELSE UNCHANGED <<connected, streaming>>
  /\ UNCHANGED <<phase, watcher, ffmpeg, stray, fresh, timer>>

\* communicate() returned: the process is over, by itself or after the SIGTERM.
ExitNoticed ==
  /\ phase = "running" /\ supervisor \in {"watch", "drain"} /\ ffmpeg = "dead"
  /\ DropProcess /\ OnFailure /\ RetryOrMark
  /\ UNCHANGED <<phase, watcher, fresh, timer>>

\* Mutant of StallNoticed: terminate and reconnect without awaiting the exit.
StallNoticedNoWait ==
  /\ phase = "running" /\ supervisor = "watch" /\ ffmpeg = "alive" /\ timer = "expired"
  /\ DropProcess /\ OnFailure /\ RetryOrMark
  /\ UNCHANGED <<phase, watcher, fresh, timer>>

\* No segment in time: SIGTERM, then await communicate().
StallNoticed ==
  /\ phase = "running" /\ supervisor = "watch" /\ ffmpeg = "alive" /\ timer = "expired"
  /\ supervisor' = "drain" /\ ffmpeg' = "stopping"
  /\ UNCHANGED <<phase, watcher, stray, attempt, fresh, timer, health, inRow>>

\* Mutant of Reconnect: once marked unavailable, the camera is given up.
ReconnectUnlessMarked ==
  /\ phase = "running" /\ supervisor = "backoff"
  /\ supervisor' = "launch"
  /\ UNCHANGED <<phase, watcher, ffmpeg, stray, attempt, fresh, timer, health, inRow>>

\* The backoff, or the rest after the camera was marked, is over.
Reconnect ==
  /\ phase = "running" /\ supervisor \in {"backoff", "idle"}
  /\ supervisor' = "launch"
  /\ UNCHANGED <<phase, watcher, ffmpeg, stray, attempt, fresh, timer, health, inRow>>

\* _segment_watcher: a fresh segment resets the stall timer, whatever ffmpeg does.
\* Only what a supervised ffmpeg wrote ends a row of failures.
SegmentSeen ==
  /\ watcher = "yes" /\ fresh = "yes"
  /\ fresh' = "no" /\ timer' = "running" /\ streaming' = "yes"
  /\ inRow' = IF supervisor = "watch" THEN 0 ELSE inRow
  /\ UNCHANGED <<phase, supervisor, watcher, ffmpeg, stray, attempt, connected, unavailable>>

-----------------------------------------------------------------------------
(* stop()                                                                  *)

Stop ==
  /\ phase = "running"
  /\ phase' = "cancel"
  /\ UNCHANGED <<supervisor, watcher, ffmpeg, stray, attempt, fresh, timer, health, inRow>>

\* The watcher still runs while stop() awaits the supervisor.
SupervisorCancelled ==
  /\ phase = "cancel"
  /\ phase' = "unwatch" /\ supervisor' = "off"
  /\ UNCHANGED <<watcher, ffmpeg, stray, attempt, fresh, timer, health, inRow>>

\* Mutant of WatcherCancelled: the cancelled task is not awaited.
WatcherNotAwaited ==
  /\ phase = "unwatch"
  /\ phase' = "terminate"
  /\ UNCHANGED <<supervisor, watcher, ffmpeg, stray, attempt, fresh, timer, health, inRow>>

WatcherCancelled ==
  /\ phase = "unwatch"
  /\ phase' = "terminate" /\ watcher' = "no"
  /\ UNCHANGED <<supervisor, ffmpeg, stray, attempt, fresh, timer, health, inRow>>

\* _terminate_process: nothing to do, or SIGTERM.
Terminate ==
  /\ phase = "terminate"
  /\ IF Runs(ffmpeg) THEN phase' = "grace" /\ ffmpeg' = "stopping" /\ UNCHANGED stray
                     ELSE phase' = "publish" /\ DropProcess
  /\ UNCHANGED <<supervisor, watcher, attempt, fresh, timer, health, inRow>>

\* Mutant of Kill: proc.wait() without the timeout and the SIGKILL.
KillNever ==
  /\ phase = "grace" /\ ffmpeg = "dead"
  /\ phase' = "publish" /\ DropProcess
  /\ UNCHANGED <<supervisor, watcher, attempt, fresh, timer, health, inRow>>

\* The grace period is over: SIGKILL and proc.wait().
Kill ==
  /\ phase = "grace"
  /\ phase' = "publish" /\ ffmpeg' = "none"
  /\ UNCHANGED <<supervisor, watcher, stray, attempt, fresh, timer, health, inRow>>

ExitedInGrace ==
  /\ phase = "grace" /\ ffmpeg = "dead"
  /\ phase' = "publish" /\ DropProcess
  /\ UNCHANGED <<supervisor, watcher, attempt, fresh, timer, health, inRow>>

Publish ==
  /\ phase = "publish"
  /\ phase' = "stopped" /\ connected' = "no" /\ streaming' = "no"
  /\ UNCHANGED <<supervisor, watcher, ffmpeg, stray, attempt, fresh, timer,
                 unavailable, inRow>>

-----------------------------------------------------------------------------
Supervise == Launched \/ LaunchFails \/ ExitNoticed \/ StallNoticed \/ Reconnect

StopStep ==
  SupervisorCancelled \/ WatcherCancelled \/ Terminate \/ Kill \/ ExitedInGrace \/ Publish

Next ==
  \/ FfmpegExits \/ FfmpegWrites \/ TimerExpires
  \/ Supervise \/ SegmentSeen
  \/ Stop \/ StopStep

\* The supervisor and stop() run to their ends.  That ffmpeg exits after the
\* SIGTERM of a stall is not assumed.
Fairness == WF_vars(Supervise) /\ WF_vars(StopStep)

Spec == Init /\ [][Next]_vars /\ Fairness
-----------------------------------------------------------------------------
(* Properties                                                              *)

\* No ffmpeg outlives the pipeline's hold on it, so two of them never write one
\* camera's playlist: not across a stall, a reconnection or a stop.
NoStrayFfmpeg == stray = "no"

\* Once stop() has returned, no task and no process of the camera is left and
\* its health says so, for good: the watcher cannot write behind stop()'s back.
StoppedIsQuiet ==
  phase = "stopped" =>
    /\ supervisor = "off" /\ watcher = "no" /\ ffmpeg = "none"
    /\ connected = "no" /\ streaming = "no"

\* per_camera reports a connection exactly while the supervisor holds an ffmpeg.
HealthFollowsProcess ==
  phase = "running" => (connected = "yes" <=> supervisor \in {"watch", "drain"})

\* A supervisor that is left without an ffmpeg launches again unless it is stopped,
\* also once the camera is marked unavailable.  It does not get there while the
\* ffmpeg it sent SIGTERM to is still running.
ReconnectsAfterExit ==
  phase = "running" ~> phase # "running" \/ supervisor = "launch" \/ Runs(ffmpeg)

\* A camera that keeps failing is reported unavailable time and again, although
\* every spawn withdraws the mark.
FailingIsReported == []<>(supervisor = "backoff") => []<>(unavailable = "yes")

\* stop() returns even if ffmpeg ignores SIGTERM.
StopReturns == phase = "cancel" ~> phase = "stopped"

\* What ties the tasks, the process and the phase of stop() together.
PhaseInv ==
  /\ phase \notin {"running", "cancel"} <=> supervisor = "off"
  /\ phase \in {"running", "cancel", "unwatch"} <=> watcher = "yes"
  /\ phase = "grace" => ffmpeg \in {"stopping", "dead"}
  /\ phase \in {"publish", "stopped"} => ffmpeg = "none"
  /\ supervisor \in {"launch", "backoff", "idle"} => ffmpeg = "none"
  /\ supervisor \in {"watch", "drain"} => ffmpeg # "none"

-----------------------------------------------------------------------------
(* What the documents say                                                  *)

\* pipeline/ffmpeg_hls.py:338-339: "KEEP retrying at a bounded rate (NFR -- never
\* give up)".  A supervisor that is not stopped always gets back to a launch or to
\* an ffmpeg that streams.
NeverGivesUp ==
  phase = "running" ~> phase # "running" \/ supervisor = "launch" \/ ffmpeg = "alive"

\* pipeline/ffmpeg_hls.py:21-23: a camera is marked after rtsp_max_failures
\* "consecutive failures": launches that failed one after another, with no segment
\* of a running ffmpeg between them.
MarkedAfterConsecutive ==
  [][unavailable = "no" /\ unavailable' = "yes" => inRow' = MaxFailures]_vars

\* docs/5-7:17: a camera that is down appears with connected and streaming false.
FallenIsNotStreaming == phase = "running" /\ connected = "no" => streaming = "no"
=============================================================================
