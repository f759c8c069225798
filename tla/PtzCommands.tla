---------------------------- MODULE PtzCommands ----------------------------
(***************************************************************************)
(* PTZ commands of one camera: rows of the cloud table ptz_commands that   *)
(* the polling loop and the realtime stream of CommandReceiver both see,   *)
(* the validation, the atomic claim, the dispatch that preempts the move   *)
(* in flight, and CommandExecutor's ONVIF call and feedback.               *)
(*                                                                         *)
(* A command is its rank in issue order.  ONVIF calls and requests to      *)
(* Supabase run in threads: cancelling a task does not stop its thread.    *)
(* with_retry's counters are left out: a retried request is either         *)
(* answered in the end, given up (SupabaseError), or ends with an exception *)
(* the client does not translate.                                          *)
(***************************************************************************)
EXTENDS Integers, FiniteSets

CONSTANTS
  Commands,   \* number of commands
  Paths,      \* delivery paths: "poll", and "realtime" where a subscriber is given
  Outages     \* TRUE: a request to Supabase may fail for good

Command == 1..Commands
NoCommand == 0

ASSUME CommandsAssumption == Commands \in Nat
ASSUME PathsAssumption == "poll" \in Paths /\ Paths \subseteq {"poll", "realtime"}
ASSUME OutagesAssumption == Outages \in BOOLEAN

VARIABLES
  service,   \* the process; "stopping" from receiver.stop() to its end
  kind,      \* command_type: a movement, ptz_stop or ptz_get_position
  cloud,     \* status of the command's row; "rejected" is failed with a reason
  stale,     \* commands older than command_max_age_s or past expires_at
  seen,      \* _seen_ids
  todo,      \* rows a path has received and not processed yet
  at,        \* where a path is inside _process_row
  hand,      \* the command a path is processing
  inflight,  \* _inflight[camera_id], with its type
  task,      \* the handler task of a command
  onvif,     \* commands whose ONVIF call is under way in a thread
  runs       \* history: how often a command was dispatched

cloudVars == <<kind, cloud, stale>>
receiver  == <<seen, todo, at, hand>>
executor  == <<inflight, task, onvif, runs>>
vars      == <<service, cloudVars, receiver, executor>>

Moves == {c \in Command : kind[c] = "move"}
Stops == {c \in Command : kind[c] = "stop"}

TypeOK ==
  /\ service \in {"up", "stopping", "down"}
  /\ kind \in [Command -> {"move", "stop", "read"}]
  /\ cloud \in [Command -> {"unissued", "pending", "processing", "completed", "failed", "rejected"}]
  /\ stale \subseteq Command
  /\ seen \subseteq Command
  /\ todo \in [Paths -> SUBSET Command]
  /\ at \in [Paths -> {"idle", "claim", "won", "taken", "reject"}]
  /\ hand \in [Paths -> Command \cup {NoCommand}]
  /\ inflight \in Command \cup {NoCommand}
  /\ task \in [Command -> {"none", "running", "completing", "failing", "over", "cancelled"}]
  /\ onvif \subseteq Command
  /\ runs \in [Command -> Nat]

Init ==
  /\ service = "up"
  /\ kind \in [Command -> {"move", "stop", "read"}]
  /\ cloud = [c \in Command |-> "unissued"] /\ stale = {}
  /\ seen = {} /\ todo = [p \in Paths |-> {}]
  /\ at = [p \in Paths |-> "idle"] /\ hand = [p \in Paths |-> NoCommand]
  /\ inflight = NoCommand
  /\ task = [c \in Command |-> "none"] /\ onvif = {}
  /\ runs = [c \in Command |-> 0]

-----------------------------------------------------------------------------
(* Outside                                                                 *)

\* The cloud inserts the next command; a connected stream delivers the row.
Issue(c) ==
  /\ cloud[c] = "unissued" /\ \A d \in 1..(c - 1) : cloud[d] # "unissued"
  /\ cloud' = [cloud EXCEPT ![c] = "pending"]
  /\ todo' = [p \in Paths |-> IF p = "realtime" /\ service = "up" THEN todo[p] \cup {c} ELSE todo[p]]
  /\ UNCHANGED <<service, kind, stale, seen, at, hand, executor>>

Expire(c) ==
  /\ cloud[c] # "unissued" /\ c \notin stale
  /\ stale' = stale \cup {c}
  /\ UNCHANGED <<service, kind, cloud, receiver, executor>>

\* The WebSocket dropped: what it had not delivered is left to the polling.
RealtimeDrops ==
  /\ "realtime" \in Paths
  /\ todo' = [todo EXCEPT !["realtime"] = {}]
  /\ UNCHANGED <<service, cloudVars, seen, at, hand, executor>>

Live(c) == task[c] \in {"running", "completing", "failing"}

\* stop() cancels the two loops, the task in _inflight and the position queries.
\* ONVIF threads go on, and so does a stop that a later command replaced.
Stop ==
  /\ service = "up"
  /\ service' = "stopping"
  /\ todo' = [p \in Paths |-> {}]
  /\ at' = [p \in Paths |-> "idle"] /\ hand' = [p \in Paths |-> NoCommand]
  /\ task' = [c \in Command |->
               IF Live(c) /\ (c = inflight \/ kind[c] = "read") THEN "cancelled" ELSE task[c]]
  /\ inflight' = NoCommand
  /\ UNCHANGED <<cloudVars, seen, onvif, runs>>

\* Mutant of GoDown: what was being executed is put back for the next process.
GoDownRequeues ==
  /\ service # "down"
  /\ service' = "down"
  /\ seen' = {} /\ todo' = [p \in Paths |-> {}]
  /\ at' = [p \in Paths |-> "idle"] /\ hand' = [p \in Paths |-> NoCommand]
  /\ inflight' = NoCommand /\ onvif' = {}
  /\ task' = [c \in Command |-> IF Live(c) THEN "cancelled" ELSE task[c]]
  /\ cloud' = [c \in Command |-> IF Live(c) THEN "pending" ELSE cloud[c]]
  /\ UNCHANGED <<kind, stale, runs>>

\* The process ends or dies, and its memory with it.
GoDown ==
  /\ service # "down"
  /\ service' = "down"
  /\ seen' = {} /\ todo' = [p \in Paths |-> {}]
  /\ at' = [p \in Paths |-> "idle"] /\ hand' = [p \in Paths |-> NoCommand]
  /\ inflight' = NoCommand /\ onvif' = {}
  /\ task' = [c \in Command |-> IF Live(c) THEN "cancelled" ELSE task[c]]
  /\ UNCHANGED <<cloudVars, runs>>

ComeUp ==
  /\ service = "down"
  /\ service' = "up"
  /\ UNCHANGED <<cloudVars, receiver, executor>>

-----------------------------------------------------------------------------
(* The receiver: _poll_once, _realtime_loop, _process_row                  *)

\* Mutant of Sweep: polling stands aside where there is a stream.
SweepWithoutStream ==
  /\ service = "up" /\ at["poll"] = "idle" /\ todo["poll"] = {} /\ Paths = {"poll"}
  /\ todo' = [todo EXCEPT !["poll"] = {c \in Command : cloud[c] = "pending"}]
  /\ UNCHANGED <<service, cloudVars, seen, at, hand, executor>>

\* _fetch_pending was answered; the loop processes its rows before it fetches
\* again.  A request given up yields [] and an exception goes to the loop: no step.
Sweep ==
  /\ service = "up" /\ at["poll"] = "idle" /\ todo["poll"] = {}
  /\ todo' = [todo EXCEPT !["poll"] = {c \in Command : cloud[c] = "pending"}]
  /\ UNCHANGED <<service, cloudVars, seen, at, hand, executor>>

\* rows.sort: a sweep puts the stops first; a stream keeps the issue order.
Before(p, c, d) ==
  IF p = "poll" /\ (c \in Stops <=> d \notin Stops) THEN c \in Stops ELSE c < d

\* The path is free and c is its next row.
NextRow(p, c) ==
  /\ service = "up" /\ at[p] = "idle"
  /\ c \in todo[p] /\ \A d \in todo[p] \ {c} : Before(p, c, d)
  /\ todo' = [todo EXCEPT ![p] = @ \ {c}]

\* Path p goes to that point of _process_row with command c in hand.
PathTo(p, step, c) == at' = [at EXCEPT ![p] = step] /\ hand' = [hand EXCEPT ![p] = c]

SkipSeen(p, c) ==
  /\ NextRow(p, c) /\ c \in seen
  /\ UNCHANGED <<service, cloudVars, seen, at, hand, executor>>

\* The validator passes a fresh command; a move may also exceed the rate limit.
Accept(p, c) ==
  /\ NextRow(p, c) /\ c \notin seen /\ c \notin stale
  /\ PathTo(p, "claim", c)
  /\ UNCHANGED <<service, cloudVars, seen, executor>>

Reject(p, c) ==
  /\ NextRow(p, c) /\ c \notin seen /\ (c \in stale \/ c \in Moves)
  /\ seen' = seen \cup {c}
  /\ PathTo(p, "reject", c)
  /\ UNCHANGED <<service, cloudVars, executor>>

\* Mutant of RejectLands: the update is by id only.
RejectLandsAnyway(p) ==
  /\ at[p] = "reject"
  /\ cloud' = [cloud EXCEPT ![hand[p]] = "rejected"]
  /\ PathTo(p, "idle", NoCommand)
  /\ UNCHANGED <<service, kind, stale, seen, todo, executor>>

\* UPDATE ... SET status='failed' WHERE id=? AND status='pending'
RejectLands(p) ==
  /\ at[p] = "reject"
  /\ cloud' = [cloud EXCEPT ![hand[p]] = IF @ = "pending" THEN "rejected" ELSE @]
  /\ PathTo(p, "idle", NoCommand)
  /\ UNCHANGED <<service, kind, stale, seen, todo, executor>>

\* Mutant of ClaimLands: a select, then an update without the status condition.
ClaimLandsAnyway(p) ==
  /\ at[p] = "claim"
  /\ cloud' = [cloud EXCEPT ![hand[p]] = "processing"]
  /\ at' = [at EXCEPT ![p] = "won"]
  /\ UNCHANGED <<service, kind, stale, seen, todo, hand, executor>>

\* UPDATE ... SET status='processing' WHERE id=? AND status='pending'
ClaimLands(p) ==
  /\ at[p] = "claim"
  /\ IF cloud[hand[p]] = "pending"
       THEN cloud' = [cloud EXCEPT ![hand[p]] = "processing"] /\ at' = [at EXCEPT ![p] = "won"]
       ELSE at' = [at EXCEPT ![p] = "taken"] /\ UNCHANGED cloud
  /\ UNCHANGED <<service, kind, stale, seen, todo, hand, executor>>

\* The answer to the update was lost: with_retry sends it again.
ClaimAnswerLost(p) ==
  /\ at[p] = "won"
  /\ at' = [at EXCEPT ![p] = "claim"]
  /\ UNCHANGED <<service, cloudVars, seen, todo, hand, executor>>

\* No row came back: somebody else took the command.
ClaimTaken(p) ==
  /\ at[p] = "taken"
  /\ seen' = seen \cup {hand[p]}
  /\ PathTo(p, "idle", NoCommand)
  /\ UNCHANGED <<service, cloudVars, todo, executor>>

\* SupabaseError out of the claim or the rejection: the command counts as seen.
GiveUp(p) ==
  /\ Outages /\ at[p] \in {"claim", "won", "reject"}
  /\ seen' = seen \cup {hand[p]}
  /\ PathTo(p, "idle", NoCommand)
  /\ UNCHANGED <<service, cloudVars, todo, executor>>

\* An exception that the client does not translate, out of the claim or the
\* rejection: the loop abandons the sweep, or the stream, with its other rows.
PathRaises(p) ==
  /\ Outages /\ at[p] # "idle"
  /\ todo' = [todo EXCEPT ![p] = {}]
  /\ PathTo(p, "idle", NoCommand)
  /\ UNCHANGED <<service, cloudVars, seen, executor>>

-----------------------------------------------------------------------------
(* Dispatch and execution                                                  *)

\* Mutants of Preempted: any command is preempted; a stop does not preempt.
PreemptedAny(c)    == {d \in {inflight} \cap Command : Live(d)}
PreemptedByMove(c) == {d \in {inflight} \cap Command : Live(d) /\ d \notin Stops /\ c \notin Stops}

\* The task _dispatch cancels for command c.
Preempted(c) == {d \in {inflight} \cap Command : Live(d) /\ d \notin Stops}

\* _dispatch, in the step that got the claimed row.
ClaimWon(p) ==
  LET c == hand[p] IN
  /\ at[p] = "won"
  /\ seen' = seen \cup {c}
  /\ PathTo(p, "idle", NoCommand)
  /\ runs' = [runs EXCEPT ![c] = @ + 1]
  /\ IF kind[c] = "read"
       THEN /\ task' = [task EXCEPT ![c] = "running"]
            /\ UNCHANGED inflight
       ELSE /\ task' = [d \in Command |-> IF d = c THEN "running"
                                          ELSE IF d \in Preempted(c) THEN "cancelled" ELSE task[d]]
            /\ inflight' = c
  /\ UNCHANGED <<service, cloudVars, todo, onvif>>

\* asyncio.to_thread: the first attempt of the ONVIF call, or another one.
CallStarts(c) ==
  /\ task[c] = "running" /\ c \notin onvif
  /\ onvif' = onvif \cup {c}
  /\ UNCHANGED <<service, cloudVars, receiver, inflight, task, runs>>

\* The camera answers the thread, whether or not the task still waits for it.
CallReturns(c) ==
  /\ c \in onvif
  /\ onvif' = onvif \ {c}
  /\ task' = [task EXCEPT ![c] = IF @ = "running" THEN "completing" ELSE @]
  /\ UNCHANGED <<service, cloudVars, receiver, inflight, runs>>

\* The call is over and the task goes on to another: a connection error that
\* with_retry retries, or the position query after the movement.
NextCall(c) ==
  /\ c \in onvif
  /\ onvif' = onvif \ {c}
  /\ UNCHANGED <<service, cloudVars, receiver, inflight, task, runs>>

\* No controller, a PTZError, or any other exception.
ExecutionFails(c) ==
  /\ task[c] = "running"
  /\ task' = [task EXCEPT ![c] = "failing"]
  /\ onvif' = onvif \ {c}
  /\ UNCHANGED <<service, cloudVars, receiver, inflight, runs>>

\* _finalize: the update by id with the outcome.
FeedbackLands(c) ==
  /\ task[c] \in {"completing", "failing"}
  /\ cloud' = [cloud EXCEPT ![c] = IF task[c] = "completing" THEN "completed" ELSE "failed"]
  /\ task' = [task EXCEPT ![c] = "over"]
  /\ UNCHANGED <<service, kind, stale, receiver, inflight, onvif, runs>>

\* The update failed for good: _pending_feedback keeps it, and nothing flushes it.
FeedbackBuffered(c) ==
  /\ Outages /\ task[c] \in {"completing", "failing"}
  /\ task' = [task EXCEPT ![c] = "over"]
  /\ UNCHANGED <<service, cloudVars, receiver, inflight, onvif, runs>>

\* An exception that the client does not translate, out of the update with
\* "completed", which may have landed: execute() catches it and goes on to write
\* "failed".  Out of that update it ends the task, as if nothing were buffered.
FeedbackRaises(c) ==
  /\ Outages /\ task[c] = "completing"
  /\ cloud' \in {cloud, [cloud EXCEPT ![c] = "completed"]}
  /\ task' = [task EXCEPT ![c] = "failing"]
  /\ UNCHANGED <<service, kind, stale, receiver, inflight, onvif, runs>>

-----------------------------------------------------------------------------
PathStep(p) ==
  \/ \E c \in Command : SkipSeen(p, c) \/ Accept(p, c) \/ Reject(p, c)
  \/ RejectLands(p) \/ ClaimLands(p) \/ ClaimTaken(p) \/ ClaimWon(p) \/ GiveUp(p)

Answer(c) == CallReturns(c) \/ ExecutionFails(c)

Feedback(c) == FeedbackLands(c) \/ FeedbackBuffered(c) \/ FeedbackRaises(c)

Outside == Stop \/ GoDown \/ ComeUp \/ RealtimeDrops \/ \E c \in Command : Issue(c) \/ Expire(c)

Next ==
  \/ Outside \/ Sweep
  \/ \E p \in Paths : PathStep(p) \/ ClaimAnswerLost(p) \/ PathRaises(p)
  \/ \E c \in Command : CallStarts(c) \/ Answer(c) \/ NextCall(c) \/ Feedback(c)

\* Requests and ONVIF calls time out and their retries are bounded.  That the
\* cloud answers the sweep is no part of it.
Fairness ==
  /\ \A p \in Paths : WF_vars(PathStep(p))
  /\ \A c \in Command : WF_vars(Answer(c) /\ task[c] = "running") /\ WF_vars(Feedback(c))

Spec == Init /\ [][Next]_vars /\ Fairness
-----------------------------------------------------------------------------
(* Properties                                                              *)

\* A command is dispatched at most once, although two paths see its row, the
\* answer to a claim may be lost, and a restart forgets _seen_ids.
DispatchedOnce == \A c \in Command : runs[c] <= 1

\* A row closed as rejected was never dispatched: validation by one path races
\* the claim of the other.
RejectedNeverRuns == \A c \in Command : cloud[c] = "rejected" => runs[c] = 0

\* A move that is still executing is the one _inflight knows: a later move or
\* stop has cancelled every earlier move, and a position query hides none.
LiveMoveIsKnown == \A c \in Moves : Live(c) => inflight = c

\* No later command preempts a stop, whatever came in between: only its own end
\* or the service's takes a dispatched stop from its task.
StopIsNotPreempted ==
  [][\A c \in Stops : Live(c) => Live(c)' \/ task'[c] = "over" \/ service' # service]_vars

\* What the environment owes for a liveness claim about the cloud's rows: a sweep
\* that has rows to fetch is answered in the end, and untranslated errors end.
AnswersReturn == WF_vars(Sweep) /\ <>[][\A p \in Paths : ~PathRaises(p)]_vars

\* A pending command is claimed or closed as long as the service is up, whatever
\* streams broke and sweeps were abandoned before; only a claim or a rejection
\* given up in an outage leaves it, marked as seen.
PendingIsHandled ==
  AnswersReturn => \A c \in Command :
    cloud[c] = "pending" ~> cloud[c] # "pending" \/ service # "up" \/ (Outages /\ c \in seen)

\* The inductive invariant: a path that has won a claim is alone with a row in
\* processing that nobody has dispatched, and only dispatched commands have tasks.
ClaimInv ==
  /\ \A p \in Paths : at[p] # "idle" => hand[p] \in Command
  /\ \A p \in Paths : at[p] = "won" => cloud[hand[p]] = "processing" /\ runs[hand[p]] = 0
  /\ \A p, q \in Paths : at[p] = "won" /\ at[q] = "won" /\ hand[p] = hand[q] => p = q

RunInv ==
  /\ \A c \in Command : runs[c] > 0 => cloud[c] \notin {"unissued", "pending", "rejected"}
  /\ \A c \in Command : task[c] # "none" => runs[c] > 0

\* The outcome of a task finds the row as its claim left it, or as the task's own
\* first outcome did.
OutcomeInv ==
  \A c \in Command :
    Live(c) => cloud[c] = "processing" \/ (task[c] = "failing" /\ cloud[c] = "completed")

IInv == TypeOK /\ ClaimInv /\ RunInv /\ OutcomeInv /\ DispatchedOnce /\ LiveMoveIsKnown

-----------------------------------------------------------------------------
\* The refinement mapping: paths, tasks, threads, the process and its memory are
\* invisible to the life cycle of a command.
Lifecycle == INSTANCE CommandLifecycle WITH status <- cloud, starts <- runs

\* Over two paths, lost answers, preemption and restarts every command keeps the
\* life cycle of CommandLifecycle: the updates of _finalize and of a rejection
\* never meet a row that somebody else has moved on; the only outcome that is
\* written over is the task's own.
ImplementsLifecycle == Lifecycle!Spec

-----------------------------------------------------------------------------
\* camera/command_executor.py:17: "a command is never left dangling in
\* processing".  A command that is being executed leaves that status, unless the
\* service goes down.
NeverLeftProcessing ==
  \A c \in Command :
    cloud[c] = "processing" /\ Live(c) ~> cloud[c] # "processing" \/ service # "up"

\* camera/command_receiver.py:12-14: polling "always runs as a safety net [...]
\* picking up pending rows".  Once no request is given up any more and sweeps are
\* answered, no command stays pending while the service is up.
PendingIsPickedUp ==
  AnswersReturn /\ <>[][\A p \in Paths : ~GiveUp(p)]_vars => \A c \in Command :
    cloud[c] = "pending" ~> cloud[c] # "pending" \/ service # "up"

\* docs/4-3:18: feedback whose update failed is queued "para reenvio posterior (no
\* se pierde el feedback)".  Once updates are answered again, a command whose task
\* is over leaves processing, unless the service goes down.
BufferedIsSent ==
  <>[][\A c \in Command : ~FeedbackBuffered(c)]_vars => \A c \in Command :
    cloud[c] = "processing" /\ task[c] = "over" ~> cloud[c] # "processing" \/ service # "up"

\* docs/4-3:17: the row says completed if the execution was OK, failed on an
\* error.  Completed is never taken back: the command was executed.
CompletedIsKept ==
  [][\A c \in Command : cloud[c] = "completed" => cloud'[c] = "completed"]_vars
=============================================================================
