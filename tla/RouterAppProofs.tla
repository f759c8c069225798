-------------------------- MODULE RouterAppProofs --------------------------
(***************************************************************************)
(* The orchestrator and its cloud-facing services, for any number of PTZ   *)
(* cameras, any retry budgets and any set of reports.                      *)
(***************************************************************************)
EXTENDS RouterApp, SequenceTheorems, TLAPS

USE UpsertRetriesAssumption, DeviceGatewayAssumption, NamesAssumption,
    InsertRetriesAssumption, PtzCamerasAssumption

-----------------------------------------------------------------------------
(* The invariant                                                           *)

\* Registration writes the gateway once, before anything relies on it.
GatewayInv ==
  /\ registration \in {"upsert", "wait"} => gatewayId = FALSE
  /\ pc \in {"config", "registration"} => registration = "off" /\ gatewayId = FALSE
  /\ PtzNeedsGateway

AfterPtz == {"stop_location", "stop_reporter", "stop_upload", "stop_monitor",
             "stop_registration", "stop_watchdog", "exited"}
AfterReporter == {"stop_upload", "stop_monitor", "stop_registration",
                  "stop_watchdog", "exited"}

\* What is stopped, and the final report, which only its own step waits for.
StoppedInv ==
  /\ pc \in AfterPtz => ptz = "stopped" /\ controllers = {}
  /\ pc \in AfterReporter => loop = "off" /\ batch["loop"] = <<>>
  /\ pc # "reporting" => batch["final"] = <<>>
  /\ pc \in {"stop_watchdog", "exited"} => registration = "off"
  /\ pc = "exited" => running = {}
  /\ pc # "exited" => exitCode = "none"

\* Until the shutdown a batch holds the whole backlog, and what has landed is
\* held nowhere any more.
BacklogInv ==
  pc \in Startup \cup {"ready"} =>
    /\ wiped = FALSE /\ doubled = FALSE /\ landed = {}
    /\ batch["loop"] # <<>> => NamesIn(backlog) \subseteq NamesIn(batch["loop"])

IInv == RouterTypeOK /\ GatewayInv /\ StoppedInv /\ BacklogInv
-----------------------------------------------------------------------------
(* The backlog and the batches                                             *)

LEMMA EvictedIsASuffix ==
  ASSUME ReportsTypeOK
  PROVE  Evicted(backlog) \in Seq(Report)
<1>1. expired + 1 \in 1..(Len(backlog) + 1) /\ Len(backlog) \in Nat
  BY DEF ReportsTypeOK
<1> QED
  BY <1>1, SubSeqProperties DEF ReportsTypeOK, Evicted

LEMMA AppendKeepsNames ==
  ASSUME NEW s \in Seq(Report), NEW e \in Report
  PROVE  /\ Append(s, e) \in Seq(Report) /\ Append(s, e) # <<>>
         /\ NamesIn(s) \subseteq NamesIn(Append(s, e))
<1>1. /\ Append(s, e) \in Seq(Report) /\ Len(Append(s, e)) = Len(s) + 1
      /\ \A i \in 1..Len(s) : Append(s, e)[i] = s[i]
  OBVIOUS
<1>2. Elements(s) \subseteq Elements(Append(s, e))
  BY <1>1 DEF Elements
<1> QED
  BY <1>1, <1>2 DEF NamesIn

LEMMA NamesAreNames ==
  ASSUME NEW s \in Seq(Report)
  PROVE  NamesIn(s) \subseteq Name
<1>1. Elements(s) \subseteq Report
  BY DEF Elements
<1> QED
  BY <1>1 DEF NamesIn, Report

LEMMA NothingHasNoNames == NamesIn(<<>>) = {}
  BY DEF NamesIn, Elements

\* report_once sends the whole backlog as it is when it starts.
LEMMA BeginSends ==
  ASSUME ReportsTypeOK, AppStateTypeOK, NEW c \in Caller, NEW n \in Name, Begin(c, n)
  PROVE  /\ ReportsTypeOK'
         /\ NamesIn(backlog') \subseteq NamesIn(batch'[c])
         /\ \A d \in Caller \ {c} : batch'[d] = batch[d]
<1> DEFINE report == [name |-> n, registered |-> routerId]
<1>1. Evicted(backlog) \in Seq(Report) /\ report \in Report
  BY EvictedIsASuffix DEF AppStateTypeOK, Report
<1>2. Append(Evicted(backlog), report) \in Seq(Report)
  BY <1>1, AppendKeepsNames
<1>3. /\ backlog' = Evicted(backlog) /\ expired' = 0
      /\ batch' = [batch EXCEPT ![c] = Append(Evicted(backlog), report)]
      /\ UNCHANGED <<loop, tries, landed, doubled, wiped>>
  BY DEF Begin, reportHistory
<1>4. ReportsTypeOK'
  <2> HIDE DEF report
  <2> QED
    BY <1>1, <1>2, <1>3 DEF ReportsTypeOK
<1> QED
  BY <1>1, <1>3, <1>4, AppendKeepsNames DEF ReportsTypeOK

\* What one answer may change.
LEMMA AnswerFacts ==
  ASSUME ReportsTypeOK, AppStateTypeOK, NEW c \in Caller, Answer(c)
  PROVE  /\ ReportsTypeOK' /\ AppStateTypeOK' /\ UNCHANGED <<routerId, gatewayId>>
         /\ batch[c] # <<>>
         /\ \/ batch' = batch /\ backlog' = backlog
            \/ batch' = [batch EXCEPT ![c] = <<>>]
         /\ loop' = loop \/ c = "loop"
<1>1. Evicted(backlog) \in Seq(Report) /\ NamesIn(batch[c]) \subseteq Name
  BY EvictedIsASuffix, NamesAreNames DEF ReportsTypeOK
<1>2. doubled' \in BOOLEAN
  BY DEF Answer, BatchLands, BatchRefused, AttemptFails, CallBreaks, Unanswered, Inserted,
         ReportsTypeOK, reportHistory
<1> USE DEF ReportsTypeOK, AppStateTypeOK, Finish, Busy, identity, appState
<1>3. CASE BatchLands(c)
  BY <1>1, <1>2, <1>3 DEF BatchLands
<1>4. CASE BatchRefused(c)
  BY <1>4 DEF BatchRefused, reportHistory
<1>5. CASE AttemptFails(c)
  <2>1. CASE tries[c] < InsertRetries
    BY <1>2, <1>5, <2>1 DEF AttemptFails
  <2>2. CASE ~(tries[c] < InsertRetries)
    <3>1. Len(batch[c]) \in 1..Len(batch[c])
      BY <1>5 DEF AttemptFails
    <3>2. Current(c) \in Report
      BY <3>1 DEF Current
    <3>3. Append(Evicted(backlog), Current(c)) \in Seq(Report)
      BY <1>1, <3>2
    <3>4. /\ backlog' = Append(Evicted(backlog), Current(c)) /\ expired' = 0
          /\ batch' = [batch EXCEPT ![c] = <<>>] /\ tries' = [tries EXCEPT ![c] = 0]
          /\ connected' = FALSE
          /\ UNCHANGED <<reachable, routerId, gatewayId, loop, landed, wiped>>
      BY <1>5, <2>2 DEF AttemptFails
    <3>5. 0 \in 0..Len(backlog')
      BY <3>3, <3>4
    <3>6. batch' \in [Caller -> Seq(Report)] /\ tries' \in [Caller -> 0..InsertRetries]
      BY <3>4
    <3>7. backlog' \in Seq(Report) /\ expired' \in 0..Len(backlog')
      BY <3>3, <3>4, <3>5
    <3>8. ReportsTypeOK'
      BY <1>2, <3>4, <3>6, <3>7
    <3>9. AppStateTypeOK'
      BY <3>4
    <3>10. batch[c] # <<>>
      BY <1>5 DEF AttemptFails
    <3> QED
      BY <3>4, <3>8, <3>9, <3>10
  <2> QED
    BY <2>1, <2>2
<1>6. CASE CallBreaks(c)
  BY <1>2, <1>6 DEF CallBreaks
<1> QED
  BY <1>3, <1>4, <1>5, <1>6 DEF Answer
-----------------------------------------------------------------------------
(* Every step keeps the invariant                                          *)

LEMMA Initially == Init => IInv
<1> SUFFICES ASSUME Init PROVE IInv
  OBVIOUS
<1> USE DEF Init, AppStateInit, RegistrationInit, ReportsInit, PtzInit, Startup
<1>1. AppStateTypeOK /\ RegistrationTypeOK /\ PtzTypeOK
  <2>1. AppStateTypeOK
    BY DEF AppStateTypeOK
  <2>2. RegistrationTypeOK
    BY DEF RegistrationTypeOK
  <2>3. PtzTypeOK
    BY DEF PtzTypeOK
  <2> QED
    BY <2>1, <2>2, <2>3
<1>2. ReportsTypeOK
  <2>1. backlog \in Seq(Report) /\ expired \in 0..Len(backlog) /\ landed \in SUBSET Name
    OBVIOUS
  <2>2. batch \in [Caller -> Seq(Report)] /\ tries \in [Caller -> 0..InsertRetries]
    OBVIOUS
  <2> QED
    BY <2>1, <2>2 DEF ReportsTypeOK
<1>3. RouterTypeOK
  BY <1>1, <1>2 DEF RouterTypeOK
<1> QED
  BY <1>3 DEF IInv, GatewayInv, PtzNeedsGateway, StoppedInv, AfterPtz, AfterReporter,
              BacklogInv, Caller

\* The end of the process, from wherever it comes.
LEMMA ExitIInv ==
  ASSUME IInv, NEW code \in {"ok", "config", "camera", "pipeline", "killed"}, Exit(code)
  PROVE  IInv'
<1> USE DEF IInv, Exit, appState, identity, reportHistory
<1>1. RouterTypeOK'
  <2>1. AppStateTypeOK' /\ RegistrationTypeOK'
    BY DEF RouterTypeOK, AppStateTypeOK, RegistrationTypeOK
  <2>2. ReportsTypeOK'
    BY DEF RouterTypeOK, ReportsTypeOK
  <2>3. PtzTypeOK'
    BY DEF RouterTypeOK, PtzTypeOK
  <2> QED
    BY <2>1, <2>2, <2>3 DEF RouterTypeOK
<1> QED
  BY <1>1 DEF GatewayInv, PtzNeedsGateway, StoppedInv, BacklogInv, Startup, Caller

\* A step of main() that goes on and touches no cloud-facing service.
LEMMA GotoIInv ==
  ASSUME IInv, UNCHANGED <<CloudVars, exitCode>>, running' \in SUBSET Service,
         pc' \in Startup \cup {"ready"} \cup Shutdown,
         pc # "exited", pc # "reporting" \/ batch["final"] = <<>>,
         pc' \in {"config", "registration"} => pc \in {"config", "registration"},
         pc' \in AfterPtz => pc \in AfterPtz,
         pc' \in AfterReporter => pc \in AfterReporter,
         pc' # "stop_watchdog",
         pc' \in Startup \cup {"ready"} => pc \in Startup \cup {"ready"}
  PROVE  IInv'
<1> USE DEF IInv, CloudVars, appState, identity, registrationVars, reportVars, reportState,
            reportHistory, ptzVars
<1>1. RouterTypeOK'
  <2>1. AppStateTypeOK' /\ RegistrationTypeOK'
    BY DEF RouterTypeOK, AppStateTypeOK, RegistrationTypeOK
  <2>2. ReportsTypeOK'
    BY DEF RouterTypeOK, ReportsTypeOK
  <2>3. PtzTypeOK'
    BY DEF RouterTypeOK, PtzTypeOK
  <2>4. exitCode' = exitCode
    OBVIOUS
  <2> QED
    BY <2>1, <2>2, <2>3, <2>4 DEF RouterTypeOK
<1>2. GatewayInv' /\ BacklogInv'
  BY DEF GatewayInv, PtzNeedsGateway, BacklogInv, NamesIn, Elements
<1>3. StoppedInv'
  BY DEF StoppedInv, Shutdown, Startup
<1> QED
  BY <1>1, <1>2, <1>3

LEMMA StartupIInv == IInv /\ StartupStep => IInv'
<1> SUFFICES ASSUME IInv, StartupStep PROVE IInv'
  OBVIOUS
<1> USE DEF Startup, Shutdown, AfterPtz, AfterReporter
<1>1. CASE Exit("config") \/ Exit("killed") \/ Exit("camera") \/ Exit("pipeline")
  BY <1>1, ExitIInv
<1>2. CASE (Goto("config", "registration") \/ Goto("sources", "upload"))
             /\ UNCHANGED <<CloudVars, running>>
  BY <1>2, GotoIInv DEF Goto, IInv, RouterTypeOK
<1>3. CASE RegistrationStep5
  <2> USE <1>3 DEF RegistrationStep5, StartRegistration, Goto, IInv, appState, identity,
                   reportVars, reportState, reportHistory, ptzVars
  <2>1. RouterTypeOK'
    BY DEF RouterTypeOK, AppStateTypeOK, RegistrationTypeOK, ReportsTypeOK, PtzTypeOK
  <2> QED
    BY <2>1 DEF GatewayInv, PtzNeedsGateway, StoppedInv, BacklogInv
<1>4. CASE ReporterStep9
  <2> USE <1>4 DEF ReporterStep9, StartReporter, Goto, IInv, appState, identity,
                   registrationVars, reportHistory, ptzVars
  <2>1. RouterTypeOK'
    BY DEF RouterTypeOK, AppStateTypeOK, RegistrationTypeOK, ReportsTypeOK, PtzTypeOK
  <2> QED
    BY <2>1 DEF GatewayInv, PtzNeedsGateway, StoppedInv, BacklogInv
<1>5. CASE PtzStep10
  <2> USE <1>5 DEF PtzStep10, StartPtz, RegistrationOk, PtzAvailable, IInv, appState, identity,
                   registrationVars, reportVars, reportState, reportHistory
  <2>1. RouterTypeOK'
    BY DEF RouterTypeOK, AppStateTypeOK, RegistrationTypeOK, ReportsTypeOK, PtzTypeOK
  <2> QED
    BY <2>1 DEF GatewayInv, PtzNeedsGateway, StoppedInv, BacklogInv
<1>6. CASE PtzActivated
  BY <1>6, GotoIInv DEF PtzActivated, Goto, IInv, RouterTypeOK
<1> USE GotoIInv DEF Service, StartService, Goto, IInv, RouterTypeOK
<1>7. CASE StartMonitor
  BY <1>7 DEF StartMonitor
<1>8. CASE StartConsole
  BY <1>1, <1>8 DEF StartConsole
<1>9. CASE StartUpload
  BY <1>1, <1>9 DEF StartUpload
<1>10. CASE StartLocation
  BY <1>10 DEF StartLocation
<1>11. CASE StartWatchdog
  BY <1>11 DEF StartWatchdog
<1> QED
  BY <1>1, <1>2, <1>3, <1>4, <1>5, <1>6, <1>7, <1>8, <1>9, <1>10, <1>11
     DEF StartupStep, LoadConfig, BuildSources

LEMMA ShutdownIInv == IInv /\ (ShutdownStep \/ Terminated \/ KilledInShutdown) => IInv'
<1> SUFFICES ASSUME IInv, ShutdownStep \/ Terminated \/ KilledInShutdown PROVE IInv'
  OBVIOUS
<1> USE DEF Startup, Shutdown, AfterPtz, AfterReporter
<1>1. CASE Exit("ok") \/ Exit("killed")
  BY <1>1, ExitIInv
<1>2. CASE Goto("ready", "report") /\ UNCHANGED <<CloudVars, running>>
  BY <1>2, GotoIInv DEF Goto, IInv, RouterTypeOK
<1>3. CASE FinalReport
  <2>1. /\ ReportsTypeOK' /\ batch'["loop"] = batch["loop"]
        /\ pc' = "reporting"
    BY <1>3, BeginSends DEF FinalReport, Goto, IInv, RouterTypeOK, Caller, Name
  <2>2. UNCHANGED <<reachable, connected, routerId, gatewayId, registration, upsertTries, ptz,
                    probing, controllers, loop, running, exitCode>>
    BY <1>3 DEF FinalReport, Goto, Begin, appState, identity, registrationVars, ptzVars
  <2> QED
    BY <1>3, <2>1, <2>2 DEF FinalReport, Goto, IInv, RouterTypeOK, AppStateTypeOK, RegistrationTypeOK,
                      PtzTypeOK, GatewayInv, PtzNeedsGateway, StoppedInv, BacklogInv
<1>4. CASE FinalReportDone
  BY <1>4, GotoIInv DEF FinalReportDone, Goto, Busy, IInv, RouterTypeOK
<1>5. ASSUME NEW step \in Shutdown, NEW next \in Shutdown, NEW service \in Service,
             step # "reporting", next # "stop_watchdog",
             next \in AfterPtz => step \in AfterPtz,
             next \in AfterReporter => step \in AfterReporter,
             StopService(step, next, service)
      PROVE  IInv'
  BY <1>5, GotoIInv DEF StopService, Goto, IInv, RouterTypeOK
<1>6. CASE StopPtzStep
  <2> USE <1>6 DEF StopPtzStep, StopPtz, Goto, IInv, appState, identity, registrationVars,
                   reportVars, reportState, reportHistory
  <2>1. RouterTypeOK'
    BY DEF RouterTypeOK, AppStateTypeOK, RegistrationTypeOK, ReportsTypeOK, PtzTypeOK
  <2> QED
    BY <2>1 DEF GatewayInv, PtzNeedsGateway, StoppedInv, BacklogInv
<1>7. CASE StopReporterStep
  <2> USE <1>7 DEF StopReporterStep, StopReporter, Goto, IInv, appState, identity,
                   registrationVars, ptzVars
  <2>1. doubled' \in BOOLEAN
    BY DEF Unanswered, Inserted, RouterTypeOK, ReportsTypeOK
  <2>2. RouterTypeOK'
    BY <2>1 DEF RouterTypeOK, AppStateTypeOK, RegistrationTypeOK, ReportsTypeOK, PtzTypeOK, Caller
  <2> QED
    BY <2>2 DEF GatewayInv, PtzNeedsGateway, StoppedInv, BacklogInv, RouterTypeOK, ReportsTypeOK,
                Caller
<1>8. CASE StopRegistrationStep
  <2> USE <1>8 DEF StopRegistrationStep, StopRegistration, Goto, IInv, appState, identity,
                   reportVars, reportState, reportHistory, ptzVars
  <2>1. RouterTypeOK'
    BY DEF RouterTypeOK, AppStateTypeOK, RegistrationTypeOK, ReportsTypeOK, PtzTypeOK
  <2> QED
    BY <2>1 DEF GatewayInv, PtzNeedsGateway, StoppedInv, BacklogInv
<1> USE DEF Service
<1>9. CASE StopConsole \/ StopLocation \/ StopUpload \/ StopMonitor
  BY <1>5, <1>9 DEF StopConsole, StopLocation, StopUpload, StopMonitor
<1> QED
  BY <1>1, <1>2, <1>3, <1>4, <1>6, <1>7, <1>8, <1>9
     DEF ShutdownStep, LeaveCleanly, Terminated, KilledInShutdown

\* The registration and the activation of PTZ, beside the main coroutine.
LEMMA RegistrationTypes ==
  ASSUME AppStateTypeOK, RegistrationTypeOK, RegistrationStep
  PROVE  AppStateTypeOK' /\ RegistrationTypeOK'
<1> USE DEF AppStateTypeOK, RegistrationTypeOK, appState, identity
<1>1. CASE Registered
  BY <1>1 DEF Registered
<1>2. CASE RegistrationRefused
  BY <1>2 DEF RegistrationRefused
<1>3. CASE UpsertFails
  <2>1. CASE upsertTries < UpsertRetries
    BY <1>3, <2>1 DEF UpsertFails
  <2>2. CASE ~(upsertTries < UpsertRetries)
    BY <1>3, <2>2 DEF UpsertFails
  <2> QED
    BY <2>1, <2>2
<1>4. CASE RegistrationBreaks
  BY <1>4 DEF RegistrationBreaks
<1>5. CASE RegisterAgain
  BY <1>5 DEF RegisterAgain
<1> QED
  BY <1>1, <1>2, <1>3, <1>4, <1>5 DEF RegistrationStep

LEMMA RegistrationIInv == IInv /\ RegistrationTask => IInv'
<1> SUFFICES ASSUME IInv, RegistrationTask PROVE IInv'
  OBVIOUS
<1> USE DEF RegistrationTask, RegistrationStep, Alive, IInv, mainVars, appState, identity, reportVars,
            reportState, reportHistory, ptzVars, Registered, RegistrationRefused, UpsertFails,
            RegisterAgain, RegistrationBreaks
<1>1. RouterTypeOK'
  <2>1. AppStateTypeOK' /\ RegistrationTypeOK'
    <3> HIDE DEF RegistrationStep
    <3> QED
      BY RegistrationTypes DEF RouterTypeOK
  <2>2. ReportsTypeOK'
    BY DEF RouterTypeOK, ReportsTypeOK
  <2>3. PtzTypeOK'
    BY DEF RouterTypeOK, PtzTypeOK
  <2> QED
    BY <2>1, <2>2, <2>3 DEF RouterTypeOK
<1>2. GatewayInv'
  BY DEF GatewayInv, PtzNeedsGateway, RouterTypeOK, AppStateTypeOK, RegistrationTypeOK
<1>3. StoppedInv'
  BY DEF StoppedInv
<1>4. BacklogInv'
  BY DEF BacklogInv, NamesIn, Elements
<1> QED
  BY <1>1, <1>2, <1>3, <1>4

LEMMA PtzIInv == IInv /\ PtzTask => IInv'
<1> SUFFICES ASSUME IInv, PtzTask PROVE IInv'
  OBVIOUS
<1> USE DEF PtzTask, PtzStep, Alive, IInv, mainVars, appState, identity, registrationVars,
            reportVars, reportState, reportHistory, PollFindsRegistration, ConnectCamera, StartReceiver,
            ActivationBreaks, RegistrationOk, PtzAvailable
<1>1. RouterTypeOK'
  <2>1. AppStateTypeOK' /\ RegistrationTypeOK'
    BY DEF RouterTypeOK, AppStateTypeOK, RegistrationTypeOK
  <2>2. ReportsTypeOK'
    BY DEF RouterTypeOK, ReportsTypeOK
  <2>3. PtzTypeOK'
    <3> USE DEF RouterTypeOK, PtzTypeOK
    <3>1. CASE ConnectCamera
      BY <3>1
    <3>2. CASE ~ConnectCamera
      BY <3>2
    <3> QED
      BY <3>1, <3>2
  <2> QED
    BY <2>1, <2>2, <2>3 DEF RouterTypeOK
<1>2. GatewayInv' /\ StoppedInv'
  BY DEF GatewayInv, PtzNeedsGateway, StoppedInv
<1>3. BacklogInv'
  <2>1. UNCHANGED <<pc, wiped, doubled, landed, batch, backlog>>
    OBVIOUS
  <2> QED
    BY <2>1 DEF BacklogInv
<1> QED
  BY <1>1, <1>2, <1>3

\* Until the shutdown only the loop reports, and its batch holds the backlog.
LEMMA LoopBeginsIInv == IInv /\ LoopBegins => IInv'
<1> SUFFICES ASSUME IInv, LoopBegins PROVE IInv'
  OBVIOUS
<1>1. PICK n \in Names : Begin("loop", n) /\ loop = "on" /\ pc # "exited"
             /\ UNCHANGED <<registrationVars, ptzVars, mainVars>>
  BY DEF LoopBegins, Reporting, LoopReports, Alive
<1>2. /\ ReportsTypeOK' /\ NamesIn(backlog') \subseteq NamesIn(batch'["loop"])
      /\ batch'["final"] = batch["final"]
  BY <1>1, BeginSends DEF IInv, RouterTypeOK, Caller, Name
<1>3. UNCHANGED <<reachable, connected, routerId, gatewayId, registration, upsertTries, ptz,
                  probing, controllers, loop, pc, running, exitCode, landed, doubled, wiped>>
  BY <1>1 DEF Begin, appState, identity, reportHistory, registrationVars, ptzVars, mainVars
<1> QED
  BY <1>1, <1>2, <1>3 DEF IInv, RouterTypeOK, AppStateTypeOK, RegistrationTypeOK, PtzTypeOK,
                          GatewayInv, PtzNeedsGateway, StoppedInv, BacklogInv

\* So what lands until then is all there was, and nothing lands twice.
LEMMA AnswersKeepBacklogInv ==
  ASSUME IInv, Answer("loop"), pc' = pc, pc \in Startup \cup {"ready"},
         batch'["final"] = <<>>
  PROVE  BacklogInv'
<1> USE DEF IInv, BacklogInv
<1>1. CASE BatchLands("loop")
  <2>1. NamesIn(backlog) \subseteq NamesIn(batch["loop"]) /\ landed = {} /\ ~doubled /\ ~wiped
    BY <1>1 DEF BatchLands, Busy
  <2>2. ~doubled' /\ ~wiped' /\ backlog' = <<>>
    BY <1>1, <2>1 DEF BatchLands, Inserted
  <2>3. batch'["loop"] = <<>>
    BY <1>1 DEF BatchLands, Finish, RouterTypeOK, ReportsTypeOK, Caller
  <2>4. landed' = {}
    BY <1>1, <2>2, <2>3, NothingHasNoNames DEF BatchLands
  <2>5. doubled' \in BOOLEAN /\ wiped' \in BOOLEAN
    BY AnswerFacts DEF RouterTypeOK, ReportsTypeOK, Caller
  <2> QED
    BY <2>2, <2>3, <2>4, <2>5
<1>2. CASE BatchRefused("loop") \/ AttemptFails("loop") \/ CallBreaks("loop")
  <2>1. doubled' = FALSE /\ wiped' = FALSE /\ landed' = {}
    BY <1>2 DEF BatchRefused, AttemptFails, CallBreaks, Unanswered, Inserted, reportHistory,
                RouterTypeOK, ReportsTypeOK
  <2>2. (batch' = batch /\ backlog' = backlog) \/ batch'["loop"] = <<>>
    BY AnswerFacts DEF RouterTypeOK, ReportsTypeOK, Caller
  <2> QED
    BY <2>1, <2>2
<1> QED
  BY <1>1, <1>2 DEF Answer

LEMMA CallReturnsIInv == ASSUME IInv, NEW c \in Caller, CallReturns(c) PROVE IInv'
<1>1. pc # "exited" /\ Answer(c) /\ UNCHANGED <<registrationVars, ptzVars, mainVars>>
  BY DEF CallReturns, Reporting, Alive
<1>2. /\ ReportsTypeOK' /\ AppStateTypeOK' /\ UNCHANGED <<routerId, gatewayId>>
      /\ batch[c] # <<>>
      /\ batch' = batch \/ batch' = [batch EXCEPT ![c] = <<>>]
      /\ loop' = loop \/ c = "loop"
  BY <1>1, AnswerFacts DEF IInv, RouterTypeOK
<1>3. UNCHANGED <<registration, upsertTries, ptz, probing, controllers, pc, running, exitCode>>
  BY <1>1 DEF registrationVars, ptzVars, mainVars
<1>4. RouterTypeOK' /\ GatewayInv'
  BY <1>2, <1>3 DEF IInv, RouterTypeOK, RegistrationTypeOK, PtzTypeOK, GatewayInv, PtzNeedsGateway
<1>5. StoppedInv'
  BY <1>2, <1>3 DEF IInv, StoppedInv, RouterTypeOK, ReportsTypeOK, Caller, AfterReporter
<1>6. BacklogInv'
  <2>1. CASE pc \in Startup \cup {"ready"}
    <3>1. batch["final"] = <<>> /\ c = "loop"
      BY <1>2, <2>1 DEF IInv, StoppedInv, Startup, Caller
    <3>2. batch'["final"] = <<>>
      BY <1>2, <3>1 DEF IInv, RouterTypeOK, ReportsTypeOK, Caller
    <3> QED
      BY <1>1, <1>3, <2>1, <3>1, <3>2, AnswersKeepBacklogInv
  <2>2. CASE pc \notin Startup \cup {"ready"}
    BY <1>3, <2>2 DEF BacklogInv
  <2> QED
    BY <2>1, <2>2
<1> QED
  BY <1>4, <1>5, <1>6 DEF IInv

LEMMA OtherIInv == IInv /\ (TimePasses \/ CloudChanges \/ UNCHANGED vars) => IInv'
<1> SUFFICES ASSUME IInv, TimePasses \/ CloudChanges \/ UNCHANGED vars PROVE IInv'
  OBVIOUS
<1> USE DEF TimePasses, Reporting, EntryAges, CloudChanges, vars, CloudVars, mainVars, appState,
            identity, registrationVars, reportVars, reportState, reportHistory, ptzVars, IInv
<1>1. RouterTypeOK'
  <2>1. AppStateTypeOK' /\ RegistrationTypeOK'
    BY DEF RouterTypeOK, AppStateTypeOK, RegistrationTypeOK
  <2>2. ReportsTypeOK'
    BY DEF RouterTypeOK, ReportsTypeOK
  <2>3. PtzTypeOK'
    BY DEF RouterTypeOK, PtzTypeOK
  <2> QED
    BY <2>1, <2>2, <2>3 DEF RouterTypeOK
<1>2. GatewayInv' /\ StoppedInv'
  BY DEF GatewayInv, PtzNeedsGateway, StoppedInv
<1>3. BacklogInv'
  BY DEF BacklogInv, NamesIn, Elements
<1> QED
  BY <1>1, <1>2, <1>3

LEMMA Inductive == IInv /\ [Next]_vars => IInv'
  BY StartupIInv, ShutdownIInv, RegistrationIInv, PtzIInv, LoopBeginsIInv, CallReturnsIInv, OtherIInv
     DEF Next

LEMMA Invariance == Spec => []IInv
  BY Initially, Inductive, PTL DEF Spec

-----------------------------------------------------------------------------
(* Theorems                                                                *)

\* Type correctness of the orchestrator and the services it composes.
THEOREM TypeCorrect == Spec => []RouterTypeOK
  BY Invariance, PTL DEF IInv

\* PTZ is never up without the gateway: the registration writes it once, before
\* any activation, and nothing takes it back.
THEOREM PtzNeedsTheGateway == Spec => []PtzNeedsGateway
  BY Invariance, PTL DEF IInv, GatewayInv

\* Until the shutdown a success clears what it sent and nothing lands twice.
THEOREM BacklogIsKept == Spec => []BacklogIsTheLoops
<1>1. IInv => BacklogIsTheLoops
  BY DEF IInv, BacklogInv, BacklogIsTheLoops
<1> QED
  BY <1>1, Invariance, PTL

\* What shutdown() has stopped stays stopped.
THEOREM StoppedForGood == Spec => []StoppedStaysStopped
<1>1. IInv => StoppedStaysStopped
  BY DEF IInv, StoppedInv, StoppedStaysStopped, AfterPtz, AfterReporter, Busy
<1> QED
  BY <1>1, Invariance, PTL
-----------------------------------------------------------------------------
(* Where refused batches come from                                         *)

\* Every report of the sequence was composed after the registration.
Signed(s) == \A r \in Elements(s) : r.registered = TRUE

\* The Router is registered and holds no report from before that.
Clean == routerId = TRUE /\ Signed(backlog) /\ \A c \in Caller : Signed(batch[c])

LEMMA EvictedElements ==
  ASSUME ReportsTypeOK
  PROVE  Elements(Evicted(backlog)) \subseteq Elements(backlog)
<1>1. /\ Len(backlog) \in Nat /\ expired + 1 \in 1..(Len(backlog) + 1)
      /\ backlog \in Seq(Report)
  BY DEF ReportsTypeOK
<1>2. /\ Evicted(backlog) \in Seq(Report)
      /\ Len(Evicted(backlog)) = Len(backlog) - expired
      /\ \A i \in 1..Len(Evicted(backlog)) : Evicted(backlog)[i] = backlog[i + expired]
  BY <1>1 DEF Evicted, ReportsTypeOK
<1>3. \A i \in 1..Len(Evicted(backlog)) : i + expired \in 1..Len(backlog)
  BY <1>1, <1>2 DEF ReportsTypeOK
<1> QED
  BY <1>2, <1>3 DEF Elements

LEMMA AppendElements ==
  ASSUME NEW s \in Seq(Report), NEW e \in Report, Signed(s), e.registered = TRUE
  PROVE  Signed(Append(s, e))
<1>1. /\ Len(Append(s, e)) = Len(s) + 1 /\ Len(s) \in Nat
      /\ \A i \in 1..Len(s) : Append(s, e)[i] = s[i]
      /\ Append(s, e)[Len(s) + 1] = e
  OBVIOUS
<1>2. ASSUME NEW i \in 1..(Len(s) + 1) PROVE Append(s, e)[i].registered = TRUE
  <2>1. CASE i \in 1..Len(s)
    BY <1>1, <2>1 DEF Signed, Elements
  <2>2. CASE i = Len(s) + 1
    BY <1>1, <2>2
  <2>3. i \in 1..Len(s) \/ i = Len(s) + 1
    BY <1>1
  <2> QED
    BY <2>1, <2>2, <2>3
<1> QED
  BY <1>1, <1>2 DEF Signed, Elements

LEMMA NothingIsSigned == Signed(<<>>)
  BY DEF Signed, Elements

ExitCode == {"ok", "config", "camera", "pipeline", "killed"}

\* What one step may do to the reports that are held.
LEMMA HeldSteps ==
  ASSUME IInv, [Next]_vars
  PROVE  \/ UNCHANGED <<backlog, batch>>
         \/ routerId' = routerId /\ \E c \in Caller, n \in Name : Begin(c, n)
         \/ routerId' = routerId /\ \E c \in Caller : Answer(c)
         \/ routerId' = routerId /\ StopReporter
         \/ routerId' = routerId /\ \E code \in ExitCode : Exit(code)
<1> USE DEF appState, identity, registrationVars, reportVars, reportState, reportHistory,
            ptzVars, CloudVars, mainVars, Goto
<1> ASSUME NEW code \in ExitCode, Exit(code) PROVE routerId' = routerId
  BY DEF Exit
<1>1. CASE StartupStep
  <2>1. CASE Exit("config") \/ Exit("killed") \/ Exit("camera") \/ Exit("pipeline")
    BY <2>1 DEF ExitCode
  <2>2. CASE ~(Exit("config") \/ Exit("killed") \/ Exit("camera") \/ Exit("pipeline"))
    BY <1>1, <2>2
       DEF StartupStep, LoadConfig, RegistrationStep5, StartRegistration, StartMonitor,
           StartConsole, StartService, BuildSources, StartUpload, ReporterStep9, StartReporter,
           StartLocation, PtzStep10, StartPtz, PtzActivated, StartWatchdog
  <2> QED
    BY <2>1, <2>2
<1>2. CASE ShutdownStep
  <2>1. CASE FinalReport
    BY <2>1 DEF FinalReport, Begin, Caller, Name
  <2>2. CASE StopReporterStep
    BY <2>2 DEF StopReporterStep, StopReporter
  <2>3. CASE LeaveCleanly
    BY <2>3 DEF LeaveCleanly, ExitCode
  <2> QED
    BY <1>2, <2>1, <2>2, <2>3
       DEF ShutdownStep, FinalReportDone, StopConsole, StopPtzStep, StopPtz, StopLocation,
           StopUpload, StopMonitor, StopService, StopRegistrationStep, StopRegistration
<1>3. CASE Terminated \/ KilledInShutdown
  BY <1>3 DEF Terminated, KilledInShutdown, ExitCode
<1>4. CASE RegistrationTask \/ PtzTask \/ TimePasses \/ CloudChanges \/ UNCHANGED vars
  BY <1>4 DEF RegistrationTask, PtzTask, TimePasses, Reporting, EntryAges, CloudChanges, vars
<1>5. CASE LoopBegins
  BY <1>5 DEF LoopBegins, Reporting, LoopReports, Begin, Caller, Name
<1>6. ASSUME NEW c \in Caller, CallReturns(c)
      PROVE  Answer(c) /\ routerId' = routerId
  BY <1>6, AnswerFacts DEF CallReturns, Reporting, IInv, RouterTypeOK
<1> QED
  BY <1>1, <1>2, <1>3, <1>4, <1>5, <1>6 DEF Next

\* The identity, once known, stays.
LEMMA RouterIdStays == ASSUME IInv, [Next]_vars, routerId = TRUE PROVE routerId' = TRUE
<1> USE DEF appState, identity, registrationVars, reportVars, reportState, reportHistory,
            ptzVars, CloudVars, mainVars, Goto
<1>1. CASE RegistrationTask
  BY <1>1 DEF RegistrationTask, RegistrationStep, Registered, RegistrationRefused, UpsertFails,
              RegistrationBreaks, RegisterAgain
<1>2. CASE PtzTask
  BY <1>2 DEF PtzTask, PtzStep, PollFindsRegistration, ConnectCamera, StartReceiver, ActivationBreaks
<1>3. CASE StartupStep
  BY <1>3 DEF StartupStep, LoadConfig, RegistrationStep5, StartRegistration, StartMonitor,
              StartConsole, StartService, BuildSources, StartUpload, ReporterStep9, StartReporter,
              StartLocation, PtzStep10, StartPtz, PtzActivated, StartWatchdog, Exit
<1>4. CASE ShutdownStep \/ Terminated \/ KilledInShutdown
  BY <1>4 DEF ShutdownStep, FinalReport, Begin, FinalReportDone, StopConsole, StopPtzStep, StopPtz,
              StopLocation, StopReporterStep, StopReporter, StopUpload, StopMonitor, StopService,
              StopRegistrationStep, StopRegistration, LeaveCleanly, Terminated, KilledInShutdown, Exit
<1>5. CASE LoopBegins \/ TimePasses \/ CloudChanges \/ UNCHANGED vars
  BY <1>5 DEF LoopBegins, Reporting, LoopReports, Begin, TimePasses, EntryAges, CloudChanges, vars
<1>6. ASSUME NEW c \in Caller, CallReturns(c) PROVE routerId' = routerId
  BY <1>6, AnswerFacts DEF CallReturns, Reporting, IInv, RouterTypeOK
<1> QED
  BY <1>1, <1>2, <1>3, <1>4, <1>5, <1>6 DEF Next

LEMMA CleanStep == IInv /\ Clean /\ [Next]_vars => Clean'
<1> SUFFICES ASSUME IInv, Clean, [Next]_vars PROVE Clean'
  OBVIOUS
<1>1. routerId' = TRUE /\ ReportsTypeOK /\ Evicted(backlog) \in Seq(Report) /\ Signed(Evicted(backlog))
  BY RouterIdStays, EvictedElements, EvictedIsASuffix DEF Clean, Signed, IInv, RouterTypeOK
<1>2. CASE UNCHANGED <<backlog, batch>>
  BY <1>1, <1>2 DEF Clean, Signed, Elements
<1>3. ASSUME NEW c \in Caller, NEW n \in Name, Begin(c, n) PROVE Clean'
  <2> DEFINE report == [name |-> n, registered |-> routerId]
  <2>1. report \in Report /\ report.registered = TRUE
    BY DEF Clean, Report
  <2>2. backlog' = Evicted(backlog) /\ batch' = [batch EXCEPT ![c] = Append(Evicted(backlog), report)]
    BY <1>3 DEF Begin
  <2> HIDE DEF report
  <2>3. Signed(Append(Evicted(backlog), report))
    BY <1>1, <2>1, AppendElements
  <2> QED
    BY <1>1, <2>2, <2>3 DEF Clean, Signed, Elements, ReportsTypeOK
<1>4. ASSUME NEW c \in Caller, Answer(c) PROVE Clean'
  <2>1. Signed(batch[c]) /\ batch[c] \in Seq(Report) /\ batch \in [Caller -> Seq(Report)]
    BY <1>1 DEF Clean, ReportsTypeOK
  <2>2. batch' = batch \/ batch' = [batch EXCEPT ![c] = <<>>]
    BY <1>1, <1>4, AnswerFacts DEF IInv, RouterTypeOK
  <2>3. \A d \in Caller : Signed(batch'[d])
    BY <2>1, <2>2, NothingIsSigned DEF Clean
  <2>4. \/ backlog' = backlog \/ backlog' = <<>>
        \/ batch[c] # <<>> /\ backlog' = Append(Evicted(backlog), Current(c))
    BY <1>4 DEF Answer, BatchLands, BatchRefused, AttemptFails, CallBreaks, Busy
  <2>5. batch[c] # <<>> => Current(c) \in Report /\ Current(c).registered = TRUE
    BY <2>1 DEF Current, Signed, Elements
  <2>6. Signed(backlog')
    BY <1>1, <2>4, <2>5, AppendElements, NothingIsSigned DEF Clean
  <2> QED
    BY <1>1, <2>3, <2>6 DEF Clean, Signed
<1>5. CASE StopReporter \/ \E code \in ExitCode : Exit(code)
  <2>1. \A d \in Caller : batch'[d] = batch[d] \/ batch'[d] = <<>>
    BY <1>1, <1>5 DEF StopReporter, Exit, ReportsTypeOK, Caller
  <2>2. backlog' = backlog \/ backlog' = <<>>
    BY <1>5 DEF StopReporter, Exit
  <2> QED
    BY <1>1, <2>1, <2>2, NothingIsSigned DEF Clean, Signed
<1> QED
  BY <1>2, <1>3, <1>4, <1>5, HeldSteps

\* Supabase refuses a batch for one reason only (ReportingResumes fails by it):
\* a report from before the registration.  From the moment when none is held
\* and the Router is registered, every batch is valid until the process ends,
\* through outages, retries, evictions and the shutdown.
THEOREM RefusedOnlyBeforeRegistration ==
  Spec => [](Clean => [](\A c \in Caller : Valid(c)))
<1>1. Clean => \A c \in Caller : Valid(c)
  BY DEF Clean, Signed, Valid
<1> QED
  BY <1>1, CleanStep, Invariance, PTL DEF Spec
=============================================================================
