----------------------------- MODULE PtzService -----------------------------
(***************************************************************************)
(* camera/ptz_service.py: PTZ comes up once the Router is registered.      *)
(* start() activates at once when it already is, on the orchestrator's own *)
(* coroutine; otherwise a background task polls AppState and activates.    *)
(* The commands a running receiver then handles are in PtzCommands.        *)
(***************************************************************************)
EXTENDS AppState, Naturals

CONSTANT PtzCameras   \* cameras with ptz_enabled, numbered in config order

ASSUME PtzCamerasAssumption == PtzCameras \in Nat

VARIABLES
  ptz,           \* how far activation is
  probing,       \* the camera that _activate connects to next
  controllers    \* cameras with a connected controller

ptzVars == <<ptz, probing, controllers>>

PtzTypeOK ==
  /\ ptz \in {"off", "waiting", "connecting", "active", "empty", "failed", "stopped"}
  /\ probing \in 1..(PtzCameras + 1)
  /\ controllers \in SUBSET (1..PtzCameras)

PtzInit == ptz = "off" /\ probing = 1 /\ controllers = {}

\* Mutant of RegistrationOk: the flag alone.
RegistrationOkByFlag == connected

RegistrationOk == connected /\ PtzAvailable

\* Mutant of StartPtz: no background retry.
StartPtzOnce ==
  /\ ptz = "off"
  /\ ptz' = IF RegistrationOk THEN "connecting" ELSE "off"
  /\ UNCHANGED <<appState, probing, controllers>>

StartPtz ==
  /\ ptz = "off"
  /\ ptz' = IF RegistrationOk THEN "connecting" ELSE "waiting"
  /\ UNCHANGED <<appState, probing, controllers>>

\* The poll that finds the registration done; the others change nothing.
PollFindsRegistration ==
  /\ ptz = "waiting" /\ RegistrationOk
  /\ ptz' = "connecting"
  /\ UNCHANGED <<appState, probing, controllers>>

\* A camera that connects gets a controller; one that does not is passed over
\* for good, whether it has no PTZ or its network failed for a moment.
ConnectCamera ==
  /\ ptz = "connecting" /\ probing <= PtzCameras
  /\ controllers' \in {controllers, controllers \cup {probing}}
  /\ probing' = probing + 1
  /\ UNCHANGED <<appState, ptz>>

\* With no controller there is no receiver, and activation still counts as done.
StartReceiver ==
  /\ ptz = "connecting" /\ probing > PtzCameras
  /\ ptz' = IF controllers = {} THEN "empty" ELSE "active"
  /\ UNCHANGED <<appState, probing, controllers>>

\* An answer of a camera that cannot be parsed raises outside _invoke's
\* translation: the orchestrator contains it, the background task ends with it,
\* and neither activates again.
ActivationBreaks ==
  /\ ptz = "connecting" /\ probing <= PtzCameras
  /\ ptz' = "failed"
  /\ UNCHANGED <<appState, probing, controllers>>

\* Mutant of StopPtz: it waits for the activation.
StopPtzAwaits ==
  /\ ptz \notin {"waiting", "connecting"}
  /\ ptz' = "stopped" /\ probing' = 1 /\ controllers' = {}
  /\ UNCHANGED appState

\* Mutant of StopPtz: the activation task is not cancelled.
StopPtzReceiverOnly ==
  /\ ptz' = IF ptz = "active" THEN "stopped" ELSE ptz
  /\ controllers' = {}
  /\ UNCHANGED <<appState, probing>>

\* stop(): the activation task is cancelled before the receiver is stopped and
\* the controllers are disconnected.
StopPtz ==
  /\ ptz' = "stopped" /\ probing' = 1 /\ controllers' = {}
  /\ UNCHANGED appState

PtzStep ==
  \/ PollFindsRegistration
  \/ ConnectCamera \/ StartReceiver \/ ActivationBreaks
=============================================================================
