-------------------------------- MODULE Auth --------------------------------
(***************************************************************************)
(* How a signed request is admitted: auth_middleware of                    *)
(* pc-service/src/wol_unlock/http/middleware.py with the device and nonce  *)
(* tables of store.py, the sweeper of service.py and the device commands   *)
(* of the control socket.                                                  *)
(*                                                                         *)
(* A message is one request a phone signed: it fixes the device, the nonce *)
(* (random, so no two messages of a device share one) and the timestamp.   *)
(* A delivery is one HTTP request that arrives with a message's headers;   *)
(* the network may deliver a message several times, late, or altered so    *)
(* that the signature does not verify.                                     *)
(*                                                                         *)
(* Each database call is one thread job under the store's lock, atomic by  *)
(* itself; the coroutine is suspended meanwhile, and while the body is     *)
(* read.  The code between two awaits is one step.  Time is the wall clock *)
(* in seconds; it is assumed never to step back.                           *)
(***************************************************************************)
EXTENDS Naturals

CONSTANTS
  Devices,       \* device ids
  Messages,      \* signed requests; (device, nonce) identifies one
  Owner,         \* the device that signed each message
  NoMsg,         \* the message of a delivery that has not arrived
  Deliveries,    \* HTTP requests
  Skew,          \* http.timestamp_skew_s
  StoreMayFail,  \* whether a database call may raise
  MaxTime        \* bound: the clock stops there

ASSUME AuthAssumption ==
  /\ Owner \in [Messages -> Devices]
  /\ NoMsg \notin Messages
  /\ Skew \in Nat \ {0}
  /\ StoreMayFail \in BOOLEAN
  /\ MaxTime \in Nat \ {0}

VARIABLES
  clock,     \* int(time.time())
  stamp,     \* the timestamp each message carries
  device,    \* table devices: the row of each device
  lastSeen,  \* table devices: last_seen_at, 0 for NULL
  row,       \* table nonces: expires_at of each message's nonce, 0: no row
  cutoff,    \* the sweeper's `now` while its DELETE is under way, else 0
  pc,        \* where each delivery is in auth_middleware
  msg,       \* the message it delivers
  copy,      \* whether that is the message as signed
  found,     \* `device`: the row get_device returned
  now,       \* `now`: the time its timestamp was checked
  reply,     \* what it was answered
  at,        \* history: the time its nonce was recorded
  accepted,  \* history: deliveries that recorded their nonce
  standing,  \* history: those whose device has not been deleted since
  handled,   \* history: deliveries whose handler ran
  barred     \* history: deliveries that arrived while their device was not
             \*          trusted, and whose device was not paired since

tables  == <<device, lastSeen, row>>
request == <<msg, copy, found, now>>
history == <<at, accepted, standing, handled, barred>>
vars    == <<clock, stamp, tables, cutoff, pc, request, reply, history>>

Times == 0 .. MaxTime

Rows == {"absent", "trusted", "revoked"}

PCs == {"new",     \* not arrived
        "lookup",  \* awaiting get_device
        "check",   \* get_device has returned
        "body",    \* awaiting request.read(), then consume_nonce
        "touch",   \* awaiting touch_device
        "handle",  \* about to run the handler
        "done"}    \* answered

Replies == {"none", "handled", "refused", "unknown_device", "device_revoked",
            "timestamp_out_of_window", "invalid_signature", "replayed_nonce",
            "internal_error", "lost"}

TypeOK ==
  /\ clock \in Times
  /\ stamp \in [Messages -> Times]
  /\ device \in [Devices -> Rows]
  /\ lastSeen \in [Devices -> Times]
  /\ row \in [Messages -> Nat]
  /\ cutoff \in Times
  /\ pc \in [Deliveries -> PCs]
  /\ msg \in [Deliveries -> Messages \cup {NoMsg}]
  /\ copy \in [Deliveries -> {"intact", "altered"}]
  /\ found \in [Deliveries -> Rows]
  /\ now \in [Deliveries -> Times]
  /\ reply \in [Deliveries -> Replies]
  /\ at \in [Deliveries -> Times]
  /\ accepted \subseteq Deliveries
  /\ standing \subseteq Deliveries
  /\ handled \subseteq Deliveries
  /\ barred \subseteq Deliveries

Init ==
  /\ clock = 1
  /\ stamp \in [Messages -> Times]
  /\ device = [d \in Devices |-> "absent"]
  /\ lastSeen = [d \in Devices |-> 0]
  /\ row = [m \in Messages |-> 0]
  /\ cutoff = 0
  /\ pc = [r \in Deliveries |-> "new"]
  /\ msg = [r \in Deliveries |-> NoMsg]
  /\ copy = [r \in Deliveries |-> "intact"]
  /\ found = [r \in Deliveries |-> "absent"]
  /\ now = [r \in Deliveries |-> 0]
  /\ reply = [r \in Deliveries |-> "none"]
  /\ at = [r \in Deliveries |-> 0]
  /\ accepted = {}
  /\ standing = {}
  /\ handled = {}
  /\ barred = {}

-----------------------------------------------------------------------------
(* Time and the sweeper.                                                   *)

Tick ==
  /\ clock < MaxTime
  /\ clock' = clock + 1
  /\ UNCHANGED <<stamp, tables, cutoff, pc, request, reply, history>>

\* _sweep_loop wakes and reads the time.
SweepRead ==
  /\ cutoff = 0
  /\ cutoff' = clock
  /\ UNCHANGED <<clock, stamp, tables, pc, request, reply, history>>

DeleteRows(margin) ==
  /\ cutoff # 0
  /\ row' = [m \in Messages |-> IF row[m] <= cutoff + margin THEN 0 ELSE row[m]]
  /\ UNCHANGED <<clock, stamp, device, lastSeen, pc, request, reply, history>>

\* Mutant: rows are dropped after one skew instead of two.
SweepRunEarly ==
  /\ DeleteRows(Skew)
  /\ cutoff' = 0

\* Mutant: the time is read once, before the loop.
SweepRunReadsOnce ==
  /\ DeleteRows(0)
  /\ UNCHANGED cutoff

\* sweep_nonces: DELETE ... WHERE expires_at <= now; the loop sleeps again.
SweepRun ==
  /\ DeleteRows(0)
  /\ cutoff' = 0

\* The DELETE raises: logged, and the loop sleeps again.
SweepFails ==
  /\ StoreMayFail
  /\ cutoff # 0
  /\ cutoff' = 0
  /\ UNCHANGED <<clock, stamp, tables, pc, request, reply, history>>

-----------------------------------------------------------------------------
(* The device table, as the pairing manager and the control socket change  *)
(* it.                                                                     *)

\* upsert_device: enrols, or re-enrols and clears revoked_at; last_seen_at of
\* an existing row is kept.
UpsertDevice(d) ==
  /\ device' = [device EXCEPT ![d] = "trusted"]
  /\ barred' = {r \in barred : Owner[msg[r]] # d}
  /\ UNCHANGED <<clock, stamp, lastSeen, row, cutoff, pc, request, reply,
                 at, accepted, standing, handled>>

\* revoke_device.
RevokeDevice(d) ==
  /\ device[d] = "trusted"
  /\ device' = [device EXCEPT ![d] = "revoked"]
  /\ UNCHANGED <<clock, stamp, lastSeen, row, cutoff, pc, request, reply, history>>

\* delete_device: the row goes, and with it the device's nonces.
DeleteDevice(d) ==
  /\ device[d] # "absent"
  /\ device' = [device EXCEPT ![d] = "absent"]
  /\ lastSeen' = [lastSeen EXCEPT ![d] = 0]
  /\ row' = [m \in Messages |-> IF Owner[m] = d THEN 0 ELSE row[m]]
  /\ standing' = {r \in standing : Owner[msg[r]] # d}
  /\ UNCHANGED <<clock, stamp, cutoff, pc, request, reply, at, accepted,
                 handled, barred>>

\* delete_device's two statements commit one by one: the second may fail.
DeleteDeviceHalf(d) ==
  /\ StoreMayFail
  /\ device[d] # "absent"
  /\ device' = [device EXCEPT ![d] = "absent"]
  /\ lastSeen' = [lastSeen EXCEPT ![d] = 0]
  /\ UNCHANGED <<clock, stamp, row, cutoff, pc, request, reply, history>>

-----------------------------------------------------------------------------
(* One delivery.                                                           *)

Step(r, from, to) ==
  /\ pc[r] = from
  /\ pc' = [pc EXCEPT ![r] = to]

Answer(r, from, what) ==
  /\ Step(r, from, "done")
  /\ reply' = [reply EXCEPT ![r] = what]

\* The checks that read no table pass (allowed network, the address's bucket,
\* no query string, well-formed headers) and get_device is called.
Arrive(r, m, c) ==
  /\ Step(r, "new", "lookup")
  /\ msg' = [msg EXCEPT ![r] = m]
  /\ copy' = [copy EXCEPT ![r] = c]
  /\ barred' = IF device[Owner[m]] = "trusted" THEN barred ELSE barred \cup {r}
  /\ UNCHANGED <<clock, stamp, tables, cutoff, found, now, reply, at, accepted,
                 standing, handled>>

\* get_device reads the row.
GetDevice(r) ==
  /\ Step(r, "lookup", "check")
  /\ found' = [found EXCEPT ![r] = device[Owner[msg[r]]]]
  /\ UNCHANGED <<clock, stamp, tables, cutoff, msg, copy, now, reply, history>>

\* No such device.
RefuseUnknown(r) ==
  /\ found[r] = "absent"
  /\ Answer(r, "check", "unknown_device")
  /\ UNCHANGED <<clock, stamp, tables, cutoff, request, history>>

\* A revoked device.
RefuseRevoked(r) ==
  /\ found[r] = "revoked"
  /\ Answer(r, "check", "device_revoked")
  /\ UNCHANGED <<clock, stamp, tables, cutoff, request, history>>

\* One of the checks that read no table fails: forbidden_network, rate_limited,
\* bad_request before the lookup; rate_limited for the device after it; an
\* oversized or broken body.
Refuse(r) ==
  /\ \/ Answer(r, "new", "refused")
     \/ found[r] = "trusted" /\ Answer(r, "check", "refused")
     \/ Answer(r, "body", "refused")
  /\ UNCHANGED <<clock, stamp, tables, cutoff, request, history>>

\* check_timestamp's condition: abs(now - timestamp) <= skew_s.
Fresh(m) == clock <= stamp[m] + Skew /\ stamp[m] <= clock + Skew

\* check_timestamp fails.
RefuseStale(r) ==
  /\ found[r] = "trusted"
  /\ Answer(r, "check", "timestamp_out_of_window")
  /\ ~Fresh(msg[r])
  /\ UNCHANGED <<clock, stamp, tables, cutoff, request, history>>

PassTimestamp(r) ==
  /\ found[r] # "absent"
  /\ Step(r, "check", "body")
  /\ Fresh(msg[r])
  /\ now' = [now EXCEPT ![r] = clock]
  /\ UNCHANGED <<clock, stamp, tables, cutoff, msg, copy, found, reply, history>>

\* Mutant: the revoked flag is not looked at.
CheckTimestampAnyRow(r) == PassTimestamp(r)

\* check_timestamp passes; the body is read next.
CheckTimestamp(r) == found[r] = "trusted" /\ PassTimestamp(r)

\* The body is there and verify_request_signature rejects it.
RefuseSignature(r) ==
  /\ copy[r] = "altered"
  /\ Answer(r, "body", "invalid_signature")
  /\ UNCHANGED <<clock, stamp, tables, cutoff, request, history>>

Spend(r, until) ==
  \/ /\ Step(r, "body", "touch")
     /\ row[msg[r]] = 0
     /\ row' = [row EXCEPT ![msg[r]] = until]
     /\ at' = [at EXCEPT ![r] = clock]
     /\ accepted' = accepted \cup {r}
     /\ standing' = standing \cup {r}
     /\ UNCHANGED reply
  \/ /\ Answer(r, "body", "replayed_nonce")
     /\ row[msg[r]] # 0
     /\ UNCHANGED <<row, at, accepted, standing>>

\* Mutant: the row is kept for one skew instead of two.
ConsumeNonceShort(r) ==
  /\ copy[r] = "intact"
  /\ Spend(r, now[r] + Skew)
  /\ UNCHANGED <<clock, stamp, device, lastSeen, cutoff, request, handled, barred>>

\* Mutant: the nonce is recorded before the signature is verified.
ConsumeNonceUnverified(r) ==
  /\ \/ copy[r] = "intact" /\ Spend(r, now[r] + 2 * Skew)
     \/ /\ copy[r] = "altered"
        /\ Answer(r, "body", "invalid_signature")
        /\ row' = [row EXCEPT ![msg[r]] = now[r] + 2 * Skew]
        /\ UNCHANGED <<at, accepted, standing>>
  /\ UNCHANGED <<clock, stamp, device, lastSeen, cutoff, request, handled, barred>>

\* The signature verifies; consume_nonce inserts the row, or finds one and the
\* request is refused.
ConsumeNonce(r) ==
  /\ copy[r] = "intact"
  /\ Spend(r, now[r] + 2 * Skew)
  /\ UNCHANGED <<clock, stamp, device, lastSeen, cutoff, request, handled, barred>>

\* touch_device: an UPDATE, without effect once the device is deleted.
TouchDevice(r) ==
  /\ Step(r, "touch", "handle")
  /\ lastSeen' = IF device[Owner[msg[r]]] = "absent"
                 THEN lastSeen
                 ELSE [lastSeen EXCEPT ![Owner[msg[r]]] = now[r]]
  /\ UNCHANGED <<clock, stamp, device, row, cutoff, request, reply, history>>

\* The handler runs and its outcome is answered.
Handle(r) ==
  /\ Answer(r, "handle", "handled")
  /\ handled' = handled \cup {r}
  /\ UNCHANGED <<clock, stamp, tables, cutoff, request, at, accepted, standing, barred>>

\* A database call raises; the envelope answers internal_error.
StoreFails(r) ==
  /\ StoreMayFail
  /\ \/ Answer(r, "lookup", "internal_error")
     \/ copy[r] = "intact" /\ Answer(r, "body", "internal_error")
     \/ Answer(r, "touch", "internal_error")
  /\ UNCHANGED <<clock, stamp, tables, cutoff, request, history>>

\* The process dies and is started again: the tables remain.
Restart ==
  /\ cutoff' = 0
  /\ pc' = [r \in Deliveries |-> IF pc[r] = "new" THEN "new" ELSE "done"]
  /\ reply' = [r \in Deliveries |->
                 IF pc[r] \in {"new", "done"} THEN reply[r] ELSE "lost"]
  /\ UNCHANGED <<clock, stamp, tables, request, history>>

-----------------------------------------------------------------------------
Admin ==
  \E d \in Devices :
    UpsertDevice(d) \/ RevokeDevice(d) \/ DeleteDevice(d) \/ DeleteDeviceHalf(d)

Serve(r) ==
  \/ \E m \in Messages, c \in {"intact", "altered"} : Arrive(r, m, c)
  \/ GetDevice(r)
  \/ RefuseUnknown(r)
  \/ RefuseRevoked(r)
  \/ Refuse(r)
  \/ RefuseStale(r)
  \/ CheckTimestamp(r)
  \/ RefuseSignature(r)
  \/ ConsumeNonce(r)
  \/ TouchDevice(r)
  \/ Handle(r)
  \/ StoreFails(r)

Next ==
  \/ Tick
  \/ SweepRead
  \/ SweepRun
  \/ SweepFails
  \/ Admin
  \/ Restart
  \/ \E r \in Deliveries : Serve(r)

Spec == Init /\ [][Next]_vars

\* The sweeper's task is rescheduled for ever: its sleep ends and its DELETE
\* returns.
FairSpec == Spec /\ WF_vars(SweepRead) /\ WF_vars(SweepRun)

-----------------------------------------------------------------------------
(* Properties.                                                             *)

\* The guarantee of the nonce table across concurrent deliveries, restarts,
\* sweeps and revocations: while a device is enrolled, a message is accepted a
\* second time only 2 * Skew or more after its first timestamp check.
AcceptedAgainOnlyLate ==
  \A r, q \in standing :
    r # q /\ msg[r] = msg[q] =>
      at[r] >= now[q] + 2 * Skew \/ at[q] >= now[r] + 2 * Skew

\* So two accepted deliveries of one message never both had a body that came
\* promptly and a timestamp check before the last second of the window.
PromptAcceptedOnce ==
  \A r, q \in standing :
    /\ r # q
    /\ msg[r] = msg[q]
    => \E x \in {r, q} : at[x] > now[x] \/ now[x] = stamp[msg[x]] + Skew

\* "The nonce is spent only now, after the signature verified" (auth_middleware):
\* replayed_nonce is answered only if an intact delivery of the message was
\* accepted; altered copies spend nothing.
ReplayedMeansAccepted ==
  \A r \in Deliveries :
    reply[r] = "replayed_nonce" =>
      \E q \in accepted : q # r /\ msg[q] = msg[r] /\ copy[q] = "intact"

\* A request that arrives after its device was revoked or deleted is not handled,
\* unless the device is paired again meanwhile.
RevokedIsCutOff == handled \cap barred = {}

\* README.md, "a single-use nonce": one message is accepted once.
NonceSingleUse ==
  \A r, q \in standing : msg[r] = msg[q] => r = q

\* PROTOCOL.md 3.2, where the nonce is looked up before the signature is
\* verified and the first failure wins: a delivery whose nonce is on record is not
\* told that its signature is wrong.
NonceCheckedFirst ==
  [][\A r \in Deliveries :
       pc[r] = "body" /\ RefuseSignature(r) => row[msg[r]] = 0]_vars

\* Unless the process keeps dying, expired rows leave the nonce table.
ExpiredRowsSwept ==
  <>[][~Restart]_vars =>
    \A m \in Messages : row[m] # 0 /\ row[m] <= clock ~> row[m] = 0

=============================================================================
