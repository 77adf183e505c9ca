----------------------------- MODULE Advertiser -----------------------------
(***************************************************************************)
(* The mDNS advertisement (class Advertiser of discovery.py) listening to  *)
(* the pairing manager: its TXT record carries the flag `pair`, "a pairing *)
(* window is currently open" (PROTOCOL.md 8).                              *)
(*                                                                         *)
(* The listener is called inside the manager's critical sections and only  *)
(* creates a task; each task reads the manager when it runs.  Registration *)
(* is awaited, and HTTP and the control socket already serve by then.      *)
(***************************************************************************)
EXTENDS Pairing

CONSTANT MaxTasks  \* bound: refresh tasks waiting to run

ASSUME AdvertiserAssumption == MaxTasks \in Nat

VARIABLES
  phase,  \* of the advertiser: "starting", "registering", "on", "closing", "off"
  flag,   \* the published `pair` flag
  tasks,  \* refresh tasks that have not run yet
  heard   \* history: whether an event has arrived since the registration

advertiser == <<phase, flag, tasks, heard>>
allVars == <<vars, advertiser>>

\* PairingManager.is_open
IsOpen == state # "idle"

AdvTypeOK ==
  /\ TypeOK
  /\ phase \in {"starting", "registering", "on", "closing", "off"}
  /\ flag \in BOOLEAN
  /\ tasks \in Nat
  /\ heard \in BOOLEAN

AdvInit ==
  /\ Init
  /\ phase = "starting"
  /\ flag = FALSE
  /\ tasks = 0
  /\ heard = FALSE

-----------------------------------------------------------------------------
(* The advertiser.                                                         *)

\* start: the record is built, then async_register_service is awaited.
StartRegistering ==
  /\ phase = "starting"
  /\ phase' = "registering"
  /\ flag' = IsOpen
  /\ UNCHANGED <<vars, tasks, heard>>

\* The registration is done: from now on the manager's events are heard.
Registered ==
  /\ phase = "registering"
  /\ phase' = "on"
  /\ UNCHANGED <<vars, flag, tasks, heard>>

\* No address, or the registration raises: the service goes on without.
StartFails ==
  /\ phase \in {"starting", "registering"}
  /\ phase' = "off"
  /\ UNCHANGED <<vars, flag, tasks, heard>>

\* A refresh task runs: the record is built anew.
Refresh ==
  /\ tasks > 0
  /\ tasks' = tasks - 1
  /\ flag' = IF phase \in {"on", "closing"} THEN IsOpen ELSE flag
  /\ UNCHANGED <<vars, phase, heard>>

\* stop: the listener is removed; then, under the lock, the record.
StopListening ==
  /\ phase = "on"
  /\ phase' = "closing"
  /\ UNCHANGED <<vars, flag, tasks, heard>>

Unregister ==
  /\ phase = "closing"
  /\ phase' = "off"
  /\ UNCHANGED <<vars, flag, tasks, heard>>

-----------------------------------------------------------------------------
(* The manager's steps and the listener.                                   *)

Notify(names) ==
  LET news == {i \in DOMAIN emitted' : emitted'[i].name \in names} IN
  IF phase = "on" /\ news # {}
  THEN tasks' = tasks + 1 /\ heard' = TRUE
  ELSE UNCHANGED <<tasks, heard>>

\* Mutant: the end of a window is not an event of interest.
OnOpenedOnly == Notify({"pair.opened"})

\* _on_pairing_event: one refresh task per event (a step emits one such event at
\* most).
OnPairingEvent == Notify({"pair.opened", "pair.closed"})

\* A step of the manager; the listener runs inside it.
ManagerSteps ==
  /\ tasks < MaxTasks
  /\ \/ Operator
     \/ Shutdown
     \/ Lapse
     \/ Expire
     \/ \E s \in Submissions : Submit(s) \/ ApprovalTimeout(s) \/ Progress(s)
  /\ OnPairingEvent
  /\ UNCHANGED <<phase, flag>>

\* The service dies and starts again.
AdvRestart ==
  /\ Restart
  /\ phase' = "starting"
  /\ flag' = FALSE
  /\ tasks' = 0
  /\ heard' = FALSE

AdvNext ==
  \/ ManagerSteps
  \/ StartRegistering
  \/ Registered
  \/ StartFails
  \/ Refresh
  \/ StopListening
  \/ Unregister
  \/ AdvRestart

AdvSpec == AdvInit /\ [][AdvNext]_allVars

-----------------------------------------------------------------------------
(* Properties.                                                             *)

\* discovery.py, Advertiser: "Publishes this service and keeps the ``pair`` flag
\* current".  Once an event has been heard, whenever no refresh is outstanding the
\* flag tells whether a window is open, whatever order the tasks ran in.
FlagSettles == phase = "on" /\ heard /\ tasks = 0 => flag = IsOpen

\* PROTOCOL.md 8, `pair`: "a pairing window is currently open", for every
\* registered record with no refresh outstanding.
FlagCurrent == phase = "on" /\ tasks = 0 => flag = IsOpen

=============================================================================
