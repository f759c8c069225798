# TLA+ models of the GTI Router

The GTI Router is one Python process on a Raspberry Pi. It records cameras with
ffmpeg into local HLS segments, uploads them to S3 through a durable SQLite
queue, recycles local space, reports its health to Supabase and executes PTZ
commands that users place in a cloud table. Everything runs on one asyncio event
loop; blocking calls (SQLite, HTTP, ONVIF, file access) run in threads. Hence
the interleavings that matter are those *between awaits*, plus what threads and
subprocesses do after the task that started them was cancelled, plus what a
crash leaves on disk and in the cloud.

All paths below are relative to the repository (`src/` is its Python package).

## 1. Inventory

| Component | State | Operations | Talks to | What is hard |
|---|---|---|---|---|
| Segment index, `src/storage/db.py` | table `upload_queue` (path UNIQUE, state, attempts, last_error) | add, claim, uploaded, failed, record attempt, reset, delete, counts | queue, buffer | survives crashes; updates by id without a guard |
| Upload queue, `src/upload/queue.py` | worker task, wake event, ratio counter, round-robin indices | start (reset, orphan scan), stop (drain), enqueue, claim, process | index, S3 uploader, watchers | crash between any two steps, lost wake-ups, cancelled drain |
| S3 uploader, `src/upload/s3_client.py` | session | put, multipart, error classification | S3 | answer lost after the object was stored, unclassified errors, dangling multipart |
| Buffer manager, `src/pipeline/buffer.py` | alert flag | enforce, delete segment | index, disk | row and file go in two steps; never delete unsent video |
| Upload service, `src/upload/service.py` | pipelines, queue, buffer task | start, stop, publish metrics | all of the above | order of stop |
| HLS pipeline, `src/pipeline/ffmpeg_hls.py` | supervisor and watcher tasks, ffmpeg process, health flags, known segments | launch, reconnect, mark, watch, stop | ffmpeg, queue, `AppState` | cancellation at any await, stall, SIGTERM/SIGKILL, two writers of health |
| Retry, `src/utils/retry.py` | attempt counter | call, back off, give up | its users | what counts as an attempt |
| PTZ receiver, `src/camera/command_receiver.py` | seen ids, in-flight task per camera | sweep, stream, reject, claim, dispatch, stop | Supabase, executor | two delivery paths, lost claim answers, preemption |
| PTZ executor, `src/camera/command_executor.py` | buffered feedback | execute, feedback | ONVIF controller, Supabase | cancellation, lost feedback |
| PTZ validator, `src/camera/validator.py` | rate window | validate | receiver | staleness checked before the claim |
| ONVIF controller and PTZ service, `src/camera/ptz_control.py`, `ptz_service.py` | connection, activation task | wait for registration, activate, call in threads, stop | camera, `AppState`, receiver | activation awaits after looking at the flags; threads outlive their tasks |
| Health reporter, `src/health/reporter.py`, `degraded.py` | local backlog of reports | report, final report, start, stop | Supabase, `AppState` | backlog read before and cleared after an await, by two coroutines; one bad row refuses a batch |
| System monitor, `src/health/monitor.py` | last sample | sample, start, stop | `AppState`'s reader | - |
| Registration and shared state, `src/health/registration.py`, `state.py` | router and gateway id, connectivity flags | upsert loop, stop | Supabase, reporter, PTZ service | two writers of `supabase_connected`; a task that ends silently |
| Supabase client, `src/health/supabase_client.py` | none | insert, update, select | Supabase | which failures it translates; lost answers |
| GPS, orientation, `src/location/` | last fix, write tasks | parse, persist | Supabase | overlapping writes |
| Snapshot, `src/pipeline/snapshot.py` | none across rounds | upload a frame | Supabase | - |
| Watchdog, `src/health/watchdog.py` | task | ready, heartbeat | systemd | aborts the process |
| Local console, `src/web/` | server task | start, stop, read-only views | `AppState` | a port that is taken |
| Orchestrator, `src/main.py` | the services | startup, shutdown, signals, exit codes | all | order, contained failures, a shutdown beside running tasks |
| Sources, encoder, board, config, licensing, logging | configuration | probing, building commands, loading | - | sequential |

The correctness properties that follow from this, by component:

* **Index and queue** - nothing is called uploaded that S3 lacks; nothing unsent
  is forgotten; no upload is taken back; no row stays claimed without a
  worker; the retry budget is spent, not exceeded; every segment settles; stop
  returns.
* **Scheduler** - the backlog gets its share and no more than that under
  contention; no camera starves; the worker is never idle while rows are pending.
* **Pipeline** - at most one ffmpeg per camera and none after stop; health
  agrees with the process; reconnection never ends; the unavailable mark means
  what it says.
* **PTZ** - a command runs at most once; a rejected command never runs; at most
  one live move per camera; a stop is never preempted; no command is forgotten.
* **Upload call** - the object is whole and holds at least what the file had when
  the call began; no multipart upload is left open without a reason.
* **Buffer** - uploaded segments go oldest first; a disk that stays too full is
  relieved of what may go.
* **Cloud services and orchestrator** - the connectivity flag follows an outage
  and a recovery; PTZ comes up, and only with a gateway; a report is dropped only
  by age; what shutdown has stopped stays stopped, and shutdown ends.

The full list of hazards, each at its line and with the properties that cover
it, is the `hazards` entry of `PROJECT.json`.

## 2. Modules

| Module | Models | Proofs |
|---|---|---|
| `SegmentDelivery` | the contract: untracked, queued, delivered or given up; what the remote store has | |
| `UploadQueue`, `MCUploadQueue` | index, worker, watchers' enqueue, buffer deletion, start/stop/crash | `UploadQueueProofs` |
| `PriorityScheduler` | which pending row the worker takes | `PrioritySchedulerProofs`, on the lemmas of `CountingLemmas` |
| `HlsSupervisor` | one camera's supervisor, watcher and stop | `HlsSupervisorProofs` |
| `CommandLifecycle` | the contract of a PTZ command: taken or refused, started at most once, settled by its own executor | |
| `PtzCommands` | one camera's PTZ commands, from cloud row to feedback | `PtzCommandsProofs` |
| `UploadAttempt` | the contract of one upload call, as the queue relies on it | |
| `MultipartUpload` | one `upload_segment` call, request by request | `MultipartUploadProofs` |
| `BufferWatermarks` | rounds of `enforce()` over a disk and an index that change | `BufferWatermarksProofs` |
| `AppState` | the fields the cloud-facing services share, and Supabase's reachability | |
| `DeviceRegistration`, `HealthReports`, `PtzService` | the registration task, the reporter with its backlog, PTZ activation; components of the next one | |
| `RouterApp` | composes them with `main.py`'s startup, signals and shutdown | `RouterAppProofs` |

An operator whose comment begins with "Mutant of" is a wrong variant of the
definition below it, the way a plausible bug would make it. No behaviour uses
it; substituted for the definition, it must break the property listed with it
under `mutants` in `PROJECT.json`, which shows that the property depends on that
piece of the code.

### UploadQueue

Each action is what one task does between two awaits. `pc` is the worker's place
in `_worker_loop`, `_claim_next` and `_process_item`; `item`, `tries` and
`reason` are its locals. `row`, `attempts` and `lastError` are columns of the
index and survive a crash, like `disk` and `s3`. `watch` and `wake` are memory:
a crash resets them. `victim` is the segment that `_delete_segment` has removed
from the index and not yet from the disk.

* An upload attempt is three steps: the file is read (`ReadFile`: possibly while
  ffmpeg still writes it), S3 stores the object (`S3Stores`), the answer arrives
  (`AnswerOk`, `AnswerTransient`, ...). A transient answer may come before or
  after S3 stored the object; a crash may separate any two.
* `Record` is `record_attempt` followed by `with_retry`'s decision; `tries` is
  the attempt number inside `with_retry`, `attempts` the durable column. They
  differ after a restart, and that is what the budget properties are about.
* `Stop` merges the stop of the producers, the cancellation of the buffer task
  and `UploadQueue.stop()`'s first step: between them no state modelled here is
  touched that a step before or after could not touch as well.
* A thread that is executing an SQL statement when its task is cancelled
  finishes it; that is the order "statement, then cancel", which the model has.
  A PUT that reaches S3 after the process has died is not modelled.
* `SelectItem` picks any pending row; `PriorityScheduler` says which one.
* `LeavesPlaylist` is ffmpeg's own deletion of segments: the command line asks
  for it (`-hls_flags delete_segments`), and any closed segment may be removed,
  since the list size is not modelled. The reuse of a path by a restarted ffmpeg
  is not modelled: a segment stands for its path.
* The generic `S3UploadError` handler of `_process_item` cannot be reached: the
  uploader raises only its two subclasses.

### PriorityScheduler

Rows are counted per class and camera. `_claim_next` computes the cutoff once,
so a claim is one step. `rtServed` is kept only up to `Ratio`, which is all it
is compared with, and `rrIndex` modulo `Turns`, any common multiple of the
lengths a list of cameras may have: both are exact, not bounds. That wrapping
never changes the camera the index points at is the lemma `WrappingIsExact`.
`streak` and `since` are history variables of the properties.

### HlsSupervisor

`supervisor` is the place of the supervisor task, `ffmpeg` the process behind
`self._process`, `stray` a process that runs although nothing refers to it any
more. `phase` follows `stop()` through its awaits. Time is not measured: the
stall timer may expire at any moment. The cancellation by `stop()` takes effect
before any other step of the supervisor, as asyncio delivers it at the await the
task is suspended in; a cancelled `create_subprocess_exec` leaves no child
behind, which is asyncio's contract. Reconnection counters feed the log only
and are left out. `attempt` is `with_retry`'s counter; `inRow` is a history
variable, the failed launches since a running ffmpeg last produced a segment.

### PtzCommands

A command is its rank in issue order and its type is chosen in the initial
state. `cloud` is the status column; `rejected` stands for `failed` with a
reason, written by the conditional update of `_reject`. Each delivery path
(`poll`, and `realtime` if a subscriber is given) is a process that takes the
rows it received one at a time through `_process_row`; between the update and
its answer the row may change, and the answer may be lost, which `with_retry`
turns into a second update. `onvif` holds the calls running in threads, which
outlive a cancelled task. The application wires no realtime subscriber today
(`src/main.py` builds `PTZService(client, state)`), so that path is the
receiver's documented contract; `Paths = {"poll"}` is the wired system and the
theorems hold for both. The rate limit is a possible rejection of any movement.
A feedback update whose thread ends after its task was cancelled is the order
"feedback, then cancel". Retry counters are left out: a retried request is
answered in the end or, with `Outages`, is given up or ends with an exception that
the client does not translate. The latter abandons a sweep or a stream with its
other rows (`PathRaises`), and out of the update with `completed` it makes
`execute()` go on to write `failed` (`FeedbackRaises`). `Sweep` is the fetch that
is answered; one that is not changes nothing and is no step.

`Stop` is `receiver.stop()`: it cancels what `_inflight` and the position queries
name, so a stop that a later command replaced in `_inflight` lives on until the
process ends (`GoDown`, which may also come without `Stop`).

`CommandLifecycle` is what all of this promises about one command, and
`ImplementsLifecycle` shows that it is kept: `status` is the row, `starts` counts
the dispatches; which path delivers, what is lost, what memory a restart wipes
and which task preempts which are steps that it does not see.

### MultipartUpload and UploadAttempt

One call of `upload_segment`. `pc` is the next step of the coroutine; where it
names a request (`put`, `create`, `part`, `complete`, `abort`) the request is
under way, and `request` says whether S3 has executed it. Any request may fail
before or after S3 executed it; a permanent refusal only before. `file` is
ffmpeg's: it grows and may vanish between any two steps, since the code stats it
twice and reads it part by part. `open`, `stored`, `sound` and `object` are what
S3 has. `excuse` is a history variable: why the client could not close the
upload. `UploadAttempt` is the contract that `UploadQueue` builds on - an
attempt stores one whole object or nothing, success comes after that, a
permanent failure only without it - and `ImplementsAttempt` shows that a call
keeps it. Sizes are counted in units of which `Chunk` make a part. Requests that
botocore repeats by itself are one request. A request still under way when the
worker is cancelled is executed before the cancellation or not at all.

### BufferWatermarks

Each action is a step of `enforce()` between two awaits, or something that
happens meanwhile: a segment is enqueued with the size it has by then, is
uploaded, or is removed by ffmpeg. `used` is the disk, `left` the round's own
account of it, which takes off `recorded` and not what was freed. Segments are
numbered in `created_at` order and are rows of one index. The marks are absolute
and not percentages; the order of the two is not assumed, since `schema.py`
does not enforce it. Rows that fail to upload stay `unsent`.

### RouterApp and its parts

`RouterApp` EXTENDS the three services, each of which states its own variables,
type invariant and actions over the shared `AppState`; the orchestrator conjoins
their start and stop actions with its own step and leaves the rest unchanged.

* `pc` is the place of `RouterApp.run()`; a service without a module is only a
  member of `running`. `PtzStep10` waits in `activation` when the gateway is
  already known, since `PTZService.start` activates on the caller's coroutine.
* `Terminated` is SIGTERM: before READY no handler is installed and the process
  dies; afterwards it starts `shutdown()`. `KilledInShutdown` is systemd's stop
  timeout. `Exit` ends all tasks: `asyncio.run` cancels them.
* In `HealthReports` a report is a name and whether it carries a `router_id`.
  Two callers share `report_once`: the loop and, in shutdown, the final report,
  while the loop still runs. `expired` counts the backlog's entries past the age
  cap, so time is a step (`EntryAges`). `landed`, `doubled`, `wiped` are history
  variables. Each insert may land although its answer is lost.
* A cloud that is reachable answers by the row's validity; an unreachable one
  fails each attempt. A refusal is derived from NULL router ids only; a 4xx for
  another reason (a bad key) behaves like it for the reporter and is an action of
  its own in registration.
* In `DeviceRegistration` the gateway comes from the claim, from the
  configuration, or is unknown; after a success the loop ends and never asks
  again.

## 3. Runs

| Run | Bounds | Shows |
|---|---|---|
| `queue_faults` | 2 segments, 2 starts, no retry, all outcomes, SQLite errors | `UploadedIsStored`, `AttemptsWithinBudget`, `RecycledIsStored`, `UploadedIsFinal` and the refinement `ImplementsDelivery` |
| `queue_live` | 1 segment, 3 starts, 1 retry, classified failures | `UploadingIsOwned`, `ExhaustedSpentBudget`, and with fairness `EverySegmentSettles`, `DrainEnds` |
| `queue_golden` | 1 segment | violates `UnsentIsKept` |
| `scheduler_two` | 2 cameras, ratio 3, 2 rows per class and camera | the six properties of the scheduler |
| `scheduler_three` | 3 cameras, 1 row | violates `EveryCameraServed` |
| `hls_recovery` | 2 as failure limit | the properties of the supervisor; its types are proved (`TypeCorrect`) |
| `ptz_delivery` | 2 commands of any type, 2 paths, outages | the properties of PTZ commands and the refinement `ImplementsLifecycle` |
| `ptz_dangling` | 2 commands, polling only, no outages | violates `NeverLeftProcessing` |
| `router_life` | 2 report names, 1 insert retry, 1 PTZ camera | `PtzNeedsGateway`, `BacklogIsTheLoops`, `StoppedStaysStopped`, and with fairness `OutageIsNoticed`, `RecoveryIsNoticed`, `PtzComesUp`, `ShutdownEnds` |
| `router_resume` | 2 report names, no retry, no PTZ camera | violates `ReportingResumes` |
| `buffer_rounds` | 3 segments of size 1 or 2, 1 broken round | `OldestGoesFirst`, `OverfullIsRelieved` |
| `multipart_calls` | parts of 2, files up to 7 | `DanglingHasAReason` and the refinement `ImplementsAttempt` |

Why the bounds suffice. Two segments give every interference the queue has: one
the worker holds and one that is added, recycled or pending meanwhile; a third
would wait like the second. Two starts are one restart after a crash or a stop,
which is what resets, orphans and double budgets need; retries are bounded by
the constant of the code itself. In the scheduler two cameras and two rows make
lists of length one and two and let rows move between classes; three cameras
are needed for the starvation. In the supervisor a limit of two distinguishes
the first, a middle and the last attempt. In PTZ preemption, de-duplication and
rejection each relate two commands or two paths. `queue_live` has one segment and
three starts instead: its question is what becomes of a row over crashes, drains
and lost wake-ups, which a second segment does not change (whose turn it is among
several is `scheduler_two`'s question), and two restarts let a row be left in
`uploading` by a process that had itself requeued it. `queue_faults` uses symmetry,
for safety properties only. In `RouterApp` two names besides the final report
are one report that is buffered and one that is under way, which is what the
clearing of the backlog and a poisoned batch need; names are reused once nobody
holds them, so time goes on without a bound; one insert retry separates an
attempt that is repeated from the last one. In `BufferWatermarks` three segments
give a list with an older, a current and a newer element, and the marks (alert
2, cleanup 3 with 1 used by others) make a round start, stop in the middle and
run to the end. In `MultipartUpload` files of up to 7 give one PUT, and uploads
of two full parts, of a short last part, and of a file that has grown by more
than a part between its stats. What the proofs cover holds without these bounds.

`CHECK_DEADLOCK FALSE` appears where the system may rightly stop: a stopped
process or service, or the bound on starts.

### Fairness

* `UploadQueue`: the worker's step (the loop is scheduled, a request is answered
  or times out by the client's timeouts), `start()` and `stop()` proceed, the
  watchers' callbacks run, systemd restarts a crashed process (`Restart=on-failure`)
  and not a stopped one. Nothing is assumed of ffmpeg, of the buffer or of S3's
  answers.
* `PriorityScheduler`: the worker keeps claiming and rows age. `EveryCameraServed`
  also assumes that claims are eventually no longer lost.
* `HlsSupervisor`: the supervisor and `stop()` proceed. Nothing is assumed of
  ffmpeg, neither that it exits nor that it obeys SIGTERM. Hence
  `ReconnectsAfterExit` says what the code does once ffmpeg is gone, and
  `NeverGivesUp`, which is about any stall, is violated.
* `RouterApp`: the main coroutine and the tasks go on, every call returns (the
  client has a timeout) and time passes. Nothing is assumed of signals or of the
  cloud: the liveness properties state for themselves what must stay true
  (`<>[]reachable`, the reporter's task alive). `PtzComesUp` also presumes
  that every camera answers the activation (`CamerasAnswer`): nothing retries one
  that did not, so without it PTZ may end without a receiver.
* `BufferWatermarks`: the buffer loop runs every 30 s and its calls return. Files
  may stay undeletable for ever; only a bounded number of rounds break.
* `MultipartUpload`: none, all its properties are safety properties.
* `PtzCommands`: the paths process the rows they hold, requests and ONVIF calls
  end, by an answer, by running out of retries or with an exception. That a sweep is
  answered is not assumed: `PendingIsHandled` states it as a premise
  (`AnswersReturn`: a sweep is answered in the end, untranslated errors end).
  Nothing is assumed of the stream.

### What the violated properties show

* `queue_golden` - ffmpeg deletes unsent segments by itself: the golden rule of
  `src/pipeline/buffer.py` (line 10) and the four hours of buffer do not hold.
* `scheduler_three` - the round robin over a list that changes between claims may
  skip a camera for ever.
* `ptz_dangling` - a preempted move stays in `processing` for ever.
* `router_resume` - a report buffered before registration has no `router_id`, which
  the table refuses; the batch that carries it is refused as a whole, the code
  drops the valid current report and keeps the backlog, and so on until the age
  cap. `docs/3-6-modo-degradado-sin-supabase.md:17` says that reporting resumes.

### Other statements of the documents that the code does not keep

These are stated as formulas too, at the end of their modules, each with a
configuration of its own. TLC finds every one of them violated; they are not among
the runs, which keep one such statement per question.

| Formula | Configuration | What the documents say | What the code does |
|---|---|---|---|
| `FailedResumes` | `UploadQueue_failed.cfg` | `docs/2-2-cola-de-upload-con-indice-en-sqlite.md:16` and `src/upload/service.py:129-130`: failed rows resume at the next start | `start()` resets rows in `uploading` only, so a failed one stays failed. `SegmentDelivery` follows the code: giving up is final |
| `EverySegmentSettles` | `UploadQueue_unclassified.cfg` | `s3_client.py:145`: a network error is transient | an error that `_upload` does not name leaves its row in `uploading` until the next start. `queue_live` therefore has classified failures only, and `UploadingOwned` has them as a hypothesis |
| `NeverGivesUp` | `HlsSupervisor_hang.cfg` | `ffmpeg_hls.py:338-339`: never give up | after a stall's SIGTERM the supervisor waits for ffmpeg without a limit and without SIGKILL |
| `MarkedAfterConsecutive` | `HlsSupervisor_consecutive.cfg` | `ffmpeg_hls.py:21-23`, `docs/3-4-auto-recuperacion-rtsp.md:18`: consecutive failures | `with_retry` counts all failures since it was entered, however well ffmpeg ran in between |
| `FallenIsNotStreaming` | `HlsSupervisor_streaming.cfg` | `docs/5-7-estado-operativo-individual-por-camara.md:17`: a fallen camera has `connected/streaming=false` | the watcher's late look at the last segment publishes `streaming` again |
| `PendingIsPickedUp` | `PtzCommands_forgotten.cfg` | `command_receiver.py:12-14`: polling always picks up pending rows | a claim or rejection given up in an outage marks its command as seen, and this process never looks at it again. `PendingIsHandled` excepts exactly this |
| `CompletedIsKept` | `PtzCommands_flipped.cfg` | `docs/4-3-ejecucion-y-feedback-de-comandos.md:17`: completed if OK | an untranslated error out of the update that wrote `completed` makes the executor overwrite it with `failed` (`command_executor.py:122-124`). It is the only overwriting of an outcome, as `ImplementsLifecycle` shows |
| `BufferedIsSent` | `PtzCommands_feedback.cfg` | `docs/4-3-...md:18`: buffered feedback is sent later | `flush_pending_feedback` has no caller outside the tests |
| `ResumesAfterOutage` | `RouterApp_tasks.cfg` | `registration.py:113`, `docs/3-6-modo-degradado-sin-supabase.md:17`: registration and health resume | an exception outside the classes of the Supabase client (a body cut short, a TLS error while reading) ends the registration or the reporter task for the life of the process |

The remaining divergences met while modelling:

* **Partial uploads.** The watcher reports a segment on its first listing, while
  ffmpeg writes it; what is uploaded then is treated as safe
  (`docs/2-4-buffer-local-y-gestion-de-espacio.md:40`). `ImplementsAttempt` says
  only that no less is stored than the file had when the call began.
* `src/storage/db.py:33` calls `attempts` the total of attempts made; only
  transient failures are counted.
* **No dangling uploads** (`s3_client.py:293`, `docs/2-1-...md:17`): not after a
  cancellation, a lost answer to `create_multipart_upload`, or an abort that
  fails. `DanglingHasAReason` lists exactly these.
* **Buffer.** `size_bytes` is recorded while ffmpeg writes and never updated, and
  a file ffmpeg has removed counts as freed: a round may go below the alert mark
  or stop above it, unlike `buffer.py:17-19`. `alert_active` and `backpressure`
  are read by nobody, although `buffer.py:26-27` names the Health Reporter.
* **AppState.** `state.py:12` says that the pipeline publishes `rtsp_connected`;
  nothing does, and every report says false.
* **Final report.** Its success clears a backlog that the loop, still running
  beside it, may have appended to since; hence `BacklogIsTheLoops` is about the
  time before shutdown.
* **PTZ activation** treats a camera whose network fails for a moment like one
  without PTZ and never tries it again; registration never asks again for a
  gateway after its first success.
* **Console.** A port that is taken makes uvicorn call `sys.exit` in its task:
  `SystemExit` passes every `except Exception` and ends the event loop, although
  `src/web/server.py:15-16` says that a bind error must never abort the Router.
* **Startup.** Signal handlers are installed after READY only: SIGTERM during
  startup ends the process without `shutdown()`.

## 4. Proofs

All theorems hold for every value of the constants allowed by the named
assumptions; each proof module extends the module it is about. Most are
`Spec => ...`. Two are `Spec /\ Hypothesis => ...`, where the hypothesis is a
property of steps that the code does not guarantee and without which the
conclusion is false: `UploadingOwned` and `ClosedFileStoredWhole`. They say what a
divergence of section 3 comes from.

* **`UploadQueueProofs`** - `IInv` of `UploadQueue` is inductive. Its parts:
  `WorkerInv` (a worker beyond the claim holds a row in `uploading`; a stored
  request means S3 has the object; success is recorded only after that),
  `RecycleInv` (what the buffer is about to unlink is in S3), `PhaseInv` (no
  worker before launch or after the end), `BudgetInv` (the durable counter is at
  least the attempt number). `UploadedIsStored` alone is not inductive: the
  step `MarkUploaded` needs to know that the worker got there through a stored
  request, and that S3's objects never disappear. From it follow `TypeCorrect`,
  `UploadedStored`, `ExhaustedSpent`, `RecyclesOnlyStored`, `UploadedFinal`, and
  `Refinement`: initial states map to initial states of `SegmentDelivery` and
  each step to a step or a stutter. `UploadingOwned` has the hypothesis
  `AllClassified` (no unclassified error, no SQLite error) because without it
  the property is false; it is proved from `OwnedInv`, relative to `IInv`.
  `AttemptsBounded` needs its own strengthening, `AttemptsInv`: a row that this
  process has not claimed has at most the attempts that earlier starts could
  spend, and the row the worker holds has on top what the worker has counted.

  The content of the objects is a second invariant, `ContentInv`, relative to
  `IInv`: a full object comes from a file ffmpeg has closed, and an attempt that
  read an open file is never in flight for a segment S3 has in full. It needs
  that files only move forward (`FilesMoveForward`). `StoredNeverShrinks`: a
  retry, a recovered row or a path offered twice never replaces a whole object
  by a shorter one. `OnlyFfmpegLoses` is what is left of the golden rule that
  `queue_golden` violates: a file of which S3 has nothing leaves the disk by
  ffmpeg's own deletion and in no other way. (`UnsentIsKept` itself stays false
  even without that deletion: the buffer removes a row, the path is enqueued
  again, and the buffer unlinks the file of the new row; but then S3 has the
  segment.)
* **`PrioritySchedulerProofs`** - `RatioInv` ties the code's counter to what
  happened: `streak <= rtServed = since`. It gives `BacklogPassedAtMostRatio`
  and `RealtimeKeepsItsShare` for any number of cameras and any ratio.
  `WorkFound` is about the index: `rrIndex % n` is a position of a list of `n`
  cameras, and `RankOnto` says that some camera has that position, so
  `_claim_next` never idles while rows are pending. `RoundRobinTurns`
  measures how far a camera is from the pointer: while its class's list does not
  change, every turn brings it one closer and nothing takes it away. Starvation
  (`scheduler_three`) therefore needs a list that changes between claims.
* **`CountingLemmas`** - remainders, and the ranks of the elements of a finite set
  of numbers. What would be an induction over the size of a set is done through
  the least counterexample: every non-empty set of naturals has a least element
  (`LeastElement`).
* **`HlsSupervisorProofs`** - the three safety properties are inductive together
  with `PhaseInv` (task, process and phase of stop): `NoStray`, `StopIsFinal`,
  `HealthIsTrue`.
* **`PtzCommandsProofs`** - `ClaimInv` says that a path whose update returned a
  row is alone with a row in `processing` that was never dispatched, `RunInv`
  that a dispatched command's row is neither pending nor rejected and that only
  dispatched commands have tasks. The conditional updates keep both.
  `AtMostOneDispatch`, `RejectionIsSafe`, `OneLiveMove` and `StopSurvives` hold
  for any number of commands. `CommandsKeepLifecycle`, the refinement of
  `CommandLifecycle`, needs `OutcomeInv` besides: the row of a command whose
  task is alive is in `processing`, or `completed` by that task's own first update,
  so the outcome that the task writes without a condition never overwrites
  another's. The contract has that one way back, `Revoke`.
* **`MultipartUploadProofs`** - `OpenInv` (an open upload is one that a later step
  closes or aborts), `FileInv` (both stats are lower bounds of a file that only
  grows or vanishes) and `PartsInv`/`SizeInv`/`ObjectInv` (the parts S3 has are
  the bytes up to `offset`, all of full size but perhaps the last, after which
  the loop ends) are inductive together. The refinement needs them all: that the
  completed object is contiguous follows from `offset = stored`, that it is long
  enough from `measured <= goal`. The one arithmetical lemma, `FullPartsGrow`,
  says that a full part keeps a multiple of the part size one.
  `ClosedFileStoredWhole`: if ffmpeg no longer writes to the file - it may still
  delete it under the reads - the object is exactly what the stat measured, or
  there is none (`ClosedInv`: both stats agree and the parts add up to them).
* **`BufferWatermarksProofs`** - `RoundInv`: what a round has passed is recycled
  and older than what is left of its list. `RecyclingIsInOrder` follows, since
  only `NextCandidate` recycles.
* **`RouterAppProofs`** - `GatewayInv` (registration writes the gateway once,
  before anything relies on it), `StoppedInv` (what each step of shutdown leaves
  behind) and `BacklogInv` (until shutdown the loop's batch holds the whole
  backlog, and what has landed is held nowhere) are inductive with the type
  invariant, one lemma per group of actions. `PtzNeedsTheGateway`,
  `BacklogIsKept` and `StoppedForGood` hold for any retry budgets, any set of
  report names and any number of PTZ cameras. `RefusedOnlyBeforeRegistration` is
  the other half of `router_resume`: from the moment when the Router is
  registered and holds no report composed before that (`Clean`, which is
  inductive from then on), every batch is valid until the process ends, so the
  poisoned backlog has that one source.

Only model-checked: all liveness properties (`EverySegmentSettles`, `DrainEnds`,
`BacklogServed`, `EveryCameraServed`, `ReconnectsAfterExit`, `FailingIsReported`,
`StopReturns`, `PendingIsHandled`, `OutageIsNoticed`, `RecoveryIsNoticed`,
`PtzComesUp`, `ShutdownEnds`, `OverfullIsRelieved`), which are outside the
prover's reach. Every safety property, action property and refinement that a
passing run checks is a theorem.

## 5. Not modelled

* **Location.** `RouterApp` has the start and stop of the GPS and orientation
  services, not their work. `gps.py` starts a task per position that it persists,
  and two of them may overlap in an outage, so that the older position lands last;
  the next position overwrites it. That is listed as a hazard without a property.
  NMEA parsing and heading arithmetic are conversions of text and numbers.
* **Snapshot.** Each round reads the latest frame and uploads it; nothing is kept
  from one round to the next.
* **System monitor's samples**, the retention estimate and the alert flag of the
  buffer, the metrics `UploadService` publishes and the console's views: values
  that are read for display and decide nothing.
* **Time.** Delays, jitter, poll intervals and timeouts are steps that may happen
  at any moment; `shutdown_timeout_s` against systemd's stop timeout is a kill that
  may come at any step.
* Durability of SQLite itself (WAL with `synchronous=NORMAL` may lose the last
  commits at a power loss).
* Bucket discovery, presets, capability detection, command lines, probing,
  configuration, licensing, logging: sequential code without state that outlives
  a call.

## 6. Plan

Done: all modules of section 2, and the proofs of section 4. What is left:

1. A module for `gps.py`'s overlapping writes, with the last position as its
   abstract specification.
2. That `PriorityScheduler` refines the choice that `UploadQueue` leaves open, and
   that `MultipartUpload` composed with `UploadQueue` implements it in one step.
3. An abstract specification of one camera's recording (`recording`,
   `reconnecting`, `marked`, `stopped`) that `HlsSupervisor` implements.
4. Proofs: the final report's part of `BacklogIsTheLoops` under the condition that
   the loop is idle, and `OwnedInv` with SQLite errors that are not on the failure
   path.
