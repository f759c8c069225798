------------------------------ MODULE RouterApp ------------------------------
(***************************************************************************)
(* The orchestrator of main.py and the cloud-facing services it starts and *)
(* stops: one process, from its start to its exit.  DeviceRegistration,    *)
(* HealthReports and PtzService run beside the main coroutine and share    *)
(* AppState; of the other services only whether they run is kept.  The     *)
(* upload subsystem's own start and stop are in UploadQueue.               *)
(*                                                                         *)
(* Nothing of this state is persisted: systemd's next start begins at Init *)
(***************************************************************************)
EXTENDS DeviceRegistration, HealthReports, PtzService

VARIABLES
  pc,         \* the step of startup() or shutdown() the main coroutine is at
  running,    \* the services without a model of their own that run
  exitCode    \* what the process ended with

CloudVars == <<appState, registrationVars, reportVars, ptzVars>>
mainVars  == <<pc, running, exitCode>>
vars      == <<CloudVars, mainVars>>

Service == {"monitor", "console", "upload", "location", "watchdog"}

Startup  == {"config", "registration", "monitor", "console", "sources", "upload",
             "reporter", "location", "ptz", "activation", "watchdog"}
Shutdown == {"report", "reporting", "stop_console", "stop_ptz", "stop_location",
             "stop_reporter", "stop_upload", "stop_monitor", "stop_registration",
             "stop_watchdog"}

RouterTypeOK ==
  /\ AppStateTypeOK /\ RegistrationTypeOK /\ ReportsTypeOK /\ PtzTypeOK
  /\ pc \in Startup \cup {"ready"} \cup Shutdown \cup {"exited"}
  /\ running \in SUBSET Service
  /\ exitCode \in {"none", "ok", "config", "camera", "pipeline", "killed"}

Init ==
  /\ AppStateInit /\ RegistrationInit /\ ReportsInit /\ PtzInit
  /\ pc = "config" /\ running = {} /\ exitCode = "none"

Goto(from, to) == pc = from /\ pc' = to /\ UNCHANGED exitCode

\* The process is gone, and all of its tasks with it.
Exit(code) ==
  /\ pc' = "exited" /\ exitCode' = code /\ running' = {}
  /\ registration' = "off" /\ upsertTries' = 0
  /\ loop' = "off"
  /\ batch' = [c \in Caller |-> <<>>] /\ tries' = [c \in Caller |-> 0]
  /\ backlog' = <<>> /\ expired' = 0
  /\ ptz' = "stopped" /\ probing' = 1 /\ controllers' = {}
  /\ UNCHANGED <<appState, reportHistory>>

-----------------------------------------------------------------------------
(* startup()                                                               *)

LoadConfig ==
  \/ Goto("config", "registration") /\ UNCHANGED <<CloudVars, running>>
  \/ pc = "config" /\ Exit("config")

RegistrationStep5 ==
  /\ Goto("registration", "monitor") /\ StartRegistration
  /\ UNCHANGED <<reportVars, ptzVars, running>>

\* A service that starts, or one whose failure is contained.
StartService(step, next, service, mayFail) ==
  /\ Goto(step, next)
  /\ \/ running' = running \cup {service}
     \/ mayFail /\ UNCHANGED running
  /\ UNCHANGED CloudVars

StartMonitor == StartService("monitor", "console", "monitor", FALSE)
\* The server task that start() creates raises SystemExit when its port is taken:
\* that ends the event loop, whoever would contain an Exception.
StartConsole ==
  \/ StartService("console", "sources", "console", FALSE)
  \/ pc = "console" /\ Exit("killed")

BuildSources ==
  \/ Goto("sources", "upload") /\ UNCHANGED <<CloudVars, running>>
  \/ pc = "sources" /\ Exit("camera")

StartUpload ==
  \/ StartService("upload", "reporter", "upload", FALSE)
  \/ pc = "upload" /\ Exit("pipeline")

ReporterStep9 ==
  /\ Goto("reporter", "location") /\ StartReporter
  /\ UNCHANGED <<registrationVars, ptzVars, running>>

StartLocation == StartService("location", "ptz", "location", TRUE)

\* The orchestrator waits for an activation that start() does itself.
PtzStep10 ==
  /\ pc = "ptz" /\ StartPtz
  /\ pc' = IF RegistrationOk THEN "activation" ELSE "watchdog"
  /\ UNCHANGED <<registrationVars, reportVars, running, exitCode>>

PtzActivated ==
  /\ Goto("activation", "watchdog")
  /\ ptz \in {"active", "empty", "failed"}
  /\ UNCHANGED <<CloudVars, running>>

\* READY=1 is sent here; the signal handlers are installed next.
StartWatchdog == StartService("watchdog", "ready", "watchdog", FALSE)

-----------------------------------------------------------------------------
(* Signals and shutdown()                                                  *)

\* No handler is installed before READY: SIGTERM ends the process as it is.
\* Afterwards it sets the event that run() waits for.
Terminated ==
  \/ pc \in Startup /\ Exit("killed")
  \/ Goto("ready", "report") /\ UNCHANGED <<CloudVars, running>>

\* systemd's TimeoutStopSec and SIGKILL.
KilledInShutdown == pc \in Shutdown /\ Exit("killed")

FinalReport ==
  /\ Goto("report", "reporting") /\ Begin("final", Final)
  /\ UNCHANGED <<registrationVars, ptzVars, running>>

FinalReportDone ==
  /\ Goto("reporting", "stop_console") /\ ~Busy("final")
  /\ UNCHANGED <<CloudVars, running>>

StopService(step, next, service) ==
  /\ Goto(step, next) /\ running' = running \ {service}
  /\ UNCHANGED CloudVars

StopConsole == StopService("stop_console", "stop_ptz", "console")

StopPtzStep ==
  /\ Goto("stop_ptz", "stop_location") /\ StopPtz
  /\ UNCHANGED <<registrationVars, reportVars, running>>

StopLocation == StopService("stop_location", "stop_reporter", "location")

StopReporterStep ==
  /\ Goto("stop_reporter", "stop_upload") /\ StopReporter
  /\ UNCHANGED <<registrationVars, ptzVars, running>>

StopUpload  == StopService("stop_upload", "stop_monitor", "upload")
StopMonitor == StopService("stop_monitor", "stop_registration", "monitor")

StopRegistrationStep ==
  /\ Goto("stop_registration", "stop_watchdog") /\ StopRegistration
  /\ UNCHANGED <<reportVars, ptzVars, running>>

\* The last step, and the return of run().
LeaveCleanly == pc = "stop_watchdog" /\ Exit("ok")

-----------------------------------------------------------------------------
Alive == pc # "exited"

StartupStep ==
  \/ LoadConfig \/ RegistrationStep5 \/ StartMonitor \/ StartConsole
  \/ BuildSources \/ StartUpload \/ ReporterStep9 \/ StartLocation
  \/ PtzStep10 \/ PtzActivated \/ StartWatchdog

ShutdownStep ==
  \/ FinalReport \/ FinalReportDone \/ StopConsole \/ StopPtzStep
  \/ StopLocation \/ StopReporterStep \/ StopUpload \/ StopMonitor
  \/ StopRegistrationStep \/ LeaveCleanly

RegistrationTask ==
  Alive /\ RegistrationStep
        /\ UNCHANGED <<reportVars, ptzVars, mainVars>>

PtzTask ==
  Alive /\ PtzStep
        /\ UNCHANGED <<registrationVars, reportVars, mainVars>>

Reporting(A) == Alive /\ A /\ UNCHANGED <<registrationVars, ptzVars, mainVars>>

LoopBegins   == Reporting(LoopReports)
CallReturns(c) == Reporting(Answer(c))
TimePasses   == Reporting(EntryAges)

CloudChanges ==
  /\ Alive /\ reachable' = ~reachable
  /\ UNCHANGED <<connected, identity, registrationVars, reportVars,
                 ptzVars, mainVars>>

Next ==
  \/ StartupStep \/ ShutdownStep
  \/ Terminated \/ KilledInShutdown
  \/ RegistrationTask \/ PtzTask
  \/ LoopBegins \/ (\E c \in Caller : CallReturns(c)) \/ TimePasses
  \/ CloudChanges

\* The main coroutine and the tasks run on, every call returns (the client's
\* timeout), and time passes.  Neither signals nor the cloud owe anything.
Fairness ==
  /\ WF_vars(StartupStep) /\ WF_vars(ShutdownStep)
  /\ WF_vars(RegistrationTask) /\ WF_vars(PtzTask)
  /\ WF_vars(LoopBegins) /\ \A c \in Caller : WF_vars(CallReturns(c))
  /\ WF_vars(TimePasses)

Spec == Init /\ [][Next]_vars /\ Fairness
-----------------------------------------------------------------------------
(* Properties                                                              *)

\* PTZ never comes up without the gateway that registration links, although the
\* flag it looks at has two writers and it awaits the cameras after looking.
PtzNeedsGateway == ptz \in {"connecting", "active", "empty", "failed"} => gatewayId

\* While the Router is up a success clears exactly what it sent: only the final
\* report of the shutdown can empty the backlog of a report that another call
\* put there meanwhile.  Nor is a report inserted again that is known to have
\* landed.
BacklogIsTheLoops ==
  pc \in Startup \cup {"ready"} =>
    ~wiped /\ ~doubled

\* What shutdown() has stopped stays stopped: no activation, report or upsert
\* that was waiting brings a service back, and a clean exit leaves none behind.
StoppedStaysStopped ==
  /\ pc \in {"stop_location", "stop_reporter", "stop_upload", "stop_monitor",
             "stop_registration", "stop_watchdog", "exited"} => ptz = "stopped" /\ controllers = {}
  /\ pc \in {"stop_upload", "stop_monitor", "stop_registration",
             "stop_watchdog", "exited"} =>
       loop = "off" /\ ~Busy("loop") /\ ~Busy("final")
  /\ exitCode = "ok" => running = {} /\ registration = "off"

\* AppState tells an outage: with Supabase gone for good the flag falls, as long
\* as the reporter's task is alive.
OutageIsNoticed ==
  <>[](~reachable /\ pc = "ready" /\ loop = "on") => <>[]~connected

\* And it tells the recovery, backlog of the outage or not: once the Router is
\* registered and Supabase stays reachable the flag rises for good.
RecoveryIsNoticed ==
  <>[](reachable /\ routerId /\ pc = "ready" /\ loop = "on") => <>[]connected

\* There are cameras with PTZ, and each one that activation has connected to
\* answered: nothing retries a camera that did not, so no outage of one is borne.
CamerasAnswer ==
  [](/\ PtzCameras > 0 /\ ptz # "failed"
     /\ ptz \in {"connecting", "active", "empty"} => 1..(probing - 1) \subseteq controllers)

\* PTZ comes up with a receiver, however often the reporter and the registration
\* turned the flag over before.
PtzComesUp ==
  CamerasAnswer /\ <>[](reachable /\ routerId /\ gatewayId /\ pc = "ready" /\ loop = "on") =>
    <>(ptz = "active")

\* A requested shutdown ends: the final report's retries are bounded and every
\* stop cancels what it waits for.
ShutdownEnds == pc = "report" ~> pc = "exited"

-----------------------------------------------------------------------------
(* What the documents say                                                  *)

\* health/registration.py:113: "Keep trying to register until success, a permanent
\* error, or stop"; docs/3-6-modo-degradado-sin-supabase.md:17: on reconnecting
\* registration and health resume.  With Supabase back for good, registration
\* comes to an answer and the reporter is alive to see it.
ResumesAfterOutage ==
  <>[](reachable /\ pc = "ready") => <>(registration \in {"done", "refused"} /\ loop = "on")

\* docs/3-6-modo-degradado-sin-supabase.md:17: on reconnecting the
\* backlog is drained and reporting resumes: a report that carries its router_id
\* is not dropped once Supabase answers.
ReportingResumes ==
  [][\A c \in Caller : BatchRefused(c) => ~Current(c).registered]_vars
=============================================================================
