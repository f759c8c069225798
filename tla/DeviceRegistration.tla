------------------------- MODULE DeviceRegistration -------------------------
(***************************************************************************)
(* health/registration.py: the background task that upserts this Router    *)
(* and caches its identity in AppState.  One upsert is one step: it is     *)
(* keyed on serial_number, so an upsert whose answer was lost and that is  *)
(* sent again leaves the same row.                                         *)
(***************************************************************************)
EXTENDS AppState, Naturals

CONSTANTS
  UpsertRetries,   \* further attempts of one with_retry call
  DeviceGateway   \* whether the device's own configuration names a gateway

ASSUME UpsertRetriesAssumption == UpsertRetries \in Nat
ASSUME DeviceGatewayAssumption == DeviceGateway \in BOOLEAN

VARIABLES
  registration,   \* where the registration task is
  upsertTries     \* failed attempts of its current with_retry call

registrationVars == <<registration, upsertTries>>

RegistrationTypeOK ==
  /\ registration \in {"off", "upsert", "wait", "done", "refused", "dead"}
  /\ upsertTries \in 0..UpsertRetries

RegistrationInit == registration = "off" /\ upsertTries = 0

StartRegistration ==
  /\ registration = "off"
  /\ registration' = "upsert" /\ upsertTries' = 0
  /\ UNCHANGED appState

\* The row comes back, with the gateway a claim gave it or without one.  An
\* answer without a row is taken for a success too: it leaves the identity as
\* it was, but for a gateway the configuration names.
Registered ==
  /\ registration = "upsert" /\ reachable
  /\ registration' = "done" /\ connected' = TRUE
  /\ \/ \E claimed \in BOOLEAN :
          routerId' = TRUE /\ gatewayId' = (claimed \/ DeviceGateway)
     \/ routerId' = routerId /\ gatewayId' = DeviceGateway
  /\ UNCHANGED <<reachable, upsertTries>>

\* A 4xx is not retried, and the task gives up.
RegistrationRefused ==
  /\ registration = "upsert" /\ reachable
  /\ registration' = "refused" /\ connected' = FALSE
  /\ UNCHANGED <<reachable, identity, upsertTries>>

\* No answer, 5xx or 429: with_retry tries again, and when it has spent its
\* attempts the loop waits and starts over.
UpsertFails ==
  /\ registration = "upsert" /\ ~reachable
  /\ IF upsertTries < UpsertRetries
     THEN /\ upsertTries' = upsertTries + 1
          /\ UNCHANGED <<registration, connected>>
     ELSE /\ registration' = "wait" /\ connected' = FALSE
          /\ UNCHANGED upsertTries
  /\ UNCHANGED <<reachable, identity>>

RegisterAgain ==
  /\ registration = "wait"
  /\ registration' = "upsert" /\ upsertTries' = 0
  /\ UNCHANGED appState

\* An exception that _blocking_request does not translate (a body cut short,
\* a TLS error while reading) is caught by nobody: the task ends silently.
RegistrationBreaks ==
  /\ registration = "upsert" /\ ~reachable
  /\ registration' = "dead"
  /\ UNCHANGED <<appState, upsertTries>>

\* stop(): the task is cancelled wherever it is.
StopRegistration ==
  /\ registration' = "off" /\ upsertTries' = 0
  /\ UNCHANGED appState

RegistrationStep ==
  \/ Registered \/ RegistrationRefused
  \/ UpsertFails \/ RegistrationBreaks
  \/ RegisterAgain
=============================================================================
