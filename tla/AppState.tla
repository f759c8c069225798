------------------------------ MODULE AppState ------------------------------
(***************************************************************************)
(* What the cloud-facing services of one process share: the fields of      *)
(* health/state.py's AppState that more than one of them reads or writes,  *)
(* and the Supabase service they talk to.  Every task runs on one event    *)
(* loop, so a step between two awaits is atomic.                           *)
(***************************************************************************)

VARIABLES
  reachable,    \* whether Supabase answers, other than with 5xx or 429
  connected,    \* AppState.supabase_connected
  routerId,     \* whether AppState.router_id is known
  gatewayId     \* whether AppState.gateway_id is known

identity == <<routerId, gatewayId>>
appState == <<reachable, connected, identity>>

AppStateTypeOK ==
  /\ reachable \in BOOLEAN /\ connected \in BOOLEAN
  /\ routerId \in BOOLEAN /\ gatewayId \in BOOLEAN

AppStateInit ==
  /\ reachable \in BOOLEAN
  /\ connected = FALSE /\ routerId = FALSE /\ gatewayId = FALSE

\* health/degraded.py: PTZ needs the gateway that registration linked.
PtzAvailable == gatewayId
=============================================================================
