# Formal models of wol-unlock

wol-unlock lets a paired phone wake a Linux PC and unlock its session. This directory
holds TLA+ models of the program, the TLC configurations that check them on small
instances, and proofs for all instances that TLAPS checks. Paths such as `pairing.py`
are relative to `src/pc-service/src/wol_unlock/`, paths that end in `.ts` to
`src/mobile/src/`; `PROJECT.json` maps every definition to the lines it models.

    tlc -workers 2 -config PairingApproval.cfg MCPairing   # a model-checking run
    tlapm PairingProofs.tla                                # the proofs of a module

## 1. The system

One asyncio process runs on the PC (the *service*). Phones talk to it over HTTP, the
operator over a Unix control socket with `wol-unlockctl`.

| component | state | operations | talks to |
|---|---|---|---|
| pairing manager (`pairing.py`) | window (code, deadline, attempts), parked enrollment and its future, lock, expiry task | begin, cancel, submit, resolve, shutdown, expiry | device table, listeners (control server, advertiser) |
| HTTP pipeline (`http/middleware.py`, `crypto/verify.py`) | per request | envelope, network check, rate limit, authentication | device and nonce tables, rate limiter, handlers |
| handlers (`http/handlers.py`) | none | server-info, pair, status, wake, unlock | pairing manager, session, wake |
| store (`store.py`) | SQLite: devices, nonces, audit; one lock, calls run in threads | upsert, get, revoke, delete, touch, consume, sweep, audit | everything above |
| rate limiter (`ratelimit.py`) | bounded table of token buckets | allow, evict | HTTP pipeline |
| service (`service.py`, `__main__.py`) | components, sweeper task | start, stop, sweep | all |
| control server (`control/server.py`) | connections, event queues, socket file | commands, events | pairing manager, store |
| CLI (`control/client.py`, `cli/__main__.py`) | a connection, a prompt | pair (drives the approval prompt), revoke, remove, status | control server |
| advertiser (`discovery.py`) | the mDNS record with its `pair` flag | register, refresh, stop | pairing manager's events |
| session (`session.py`) | none (logind's) | list, choose, unlock, poll | loginctl |
| wake (`wake.py`) | none | packet, send to one, send to all | network |
| identity (`identity.py`), configuration (`config.py`) | key file, settings | load or create, validate | files |
| phone (`src/mobile/src`) | list of PCs, status, device keys, widget data | pair, refresh, wake, unlock, remove, discover | the service over HTTP |
| widget and App Intents (`src/mobile/native`, `targets`) | shared snapshot of the phone's state | status, wake, unlock | the service over HTTP |

### What is hard in it

* **Interleaving at awaits.** `submit` is suspended while the operator decides, and wants
  the lock again afterwards; between its two critical sections windows can be cancelled,
  reopened and approved. The HTTP pipeline is suspended at three database calls and while
  it reads the body; the device row and the time it read stay in local variables.
* **Timers.** The window's deadline, the approval timer, the nonce's expiry and the
  sweeper run against each other and against the operator.
* **Partial failure.** A database call can raise in the middle of `_finish_locked`, after
  the nonce is spent, or between the two statements of `delete_device`.
* **Restarts.** Pairing state is in memory, devices, nonces and the server's key are on
  disk. A process can die between any two system calls of its start; the power can fail.
  The app on the phone can be killed between any two awaits.
* **Stale looks at the world.** A session is chosen from a scan of several runs of
  `loginctl`, and confirmed by polling. The phone reads a key, then waits for Face ID or
  the network while the PC may be removed or paired again.
* **Unreliable delivery.** Requests arrive twice, late, altered or never.
* **Limits.** Attempts, the bucket table, the event queues, the nonce table.

`PROJECT.json` lists each hazard at its line, with the properties that cover it or the
reason why none does.

### What makes each component correct

* Pairing: only an approved phone with a window's code is enrolled; a code enrols one
  device; attempts are bounded; nobody waits for ever; windows close by themselves; a
  submission ends no window but its own; replies agree with the database.
* Authentication: a signed request is accepted at most once while it can be fresh; altered
  copies cost a phone nothing; a revoked device is cut off; expired nonces go away.
* Rate limiter: bounded memory, independent budgets.
* Control server and CLI: an approval reaches the device that was shown; replies and
  events keep their order and their addressee; no client holds up another; a healthy
  instance keeps its socket.
* Start-up: the key outlives every crash, and nobody reads half of one.
* Advertiser: the flag agrees with the manager once events settle.
* Session: a session is unlocked only if it is the caller's and was chosen; "unlocked" is
  reported only if seen; a session that stays is not missed.
* Configuration and wake: the file written for a machine is accepted, whenever it is read,
  and read as the defaults; packets go only where the configuration says; partial success
  is success.
* Phone: a PC in the list has its key, a removed one has none; the widget catches up with
  the list unless a write fails.

## 2. Modules

| module | models | proofs |
|---|---|---|
| `Enrollment` | what the manager promises: phones offered, approved, enrolled or refused | implemented by `Pairing`: `PairingProofs` |
| `Pairing` (`MCPairing`) | `PairingManager`, with the control commands and the two database calls of an enrolment | `PairingProofs` |
| `Auth` (`MCAuth`) | `auth_middleware`, the device and nonce tables, the sweeper | `AuthProofs` |
| `RateLimiter` (`MCRateLimiter`) | `RateLimiter` | `RateLimiterProofs` |
| `PairCLI` (`MCPairCLI`), extends `Pairing` | runs of `wol-unlockctl pair`, their connections and the control server between them and the manager | `PairingProofs` |
| `Control` (`MCControl`) | connections of the control socket, event queues, replies, the client, an orderly stop | `ControlProofs` |
| `Instances` (`MCInstances`) | `Service.start` and `stop`, the control socket and the TCP port, of several instances | `StartupProofs` |
| `Startup` (`MCStartup`), extends `Instances` | the server's key: made, kept and loaded at each start | `StartupProofs` |
| `Advertiser` (`MCAdvertiser`), extends `Pairing` | `Advertiser` listening to the manager | `PairingProofs` |
| `Session` (`MCSession`) | `session.py` and its two handlers, with logind and the screen lockers | `SessionProofs` |
| `Configuration` (`MCConfiguration`) | `netif.py`, `config.py`, `wake.py`, the `wake` handler and the network check | `ConfigurationProofs` |
| `Phone` (`MCPhone`) | one PC on the phone: store, keychain, enrolment, removal, requests, widget | `PhoneProofs` |

`PairCLI`, `Advertiser` and `Startup` are compositions: they share the variables of the
module they extend, and each of their steps that touches them is one of its actions. What
is proved of that module therefore holds in the composition too. That is how the modules
are built, not a result about the code, and no run checks it.

### Enrollment

Five phases per phone and no windows, codes, timers, locks or database calls. `Pairing`
maps its state to a phase of every submission (`Phase`); one step of the manager may
refuse several phones, hence `Refuse(S)`.

### Pairing

A task of the event loop is interrupted only at an `await` that suspends, so a critical
section without one is a single action. The exceptions are the wait for the decision
(`pc = "parked"`) and the two database calls under the lock (`"persist"`, `"audit"`;
`lock` names their holder). State and code correspond as follows.

| model | code |
|---|---|
| `state`, `pending`, `attempts` | `_state`, `_pending`, `_window.attempts_left` |
| `window` | `_window`, by number; the number stands for the random code |
| `expiry` | the deadline and the task of `_schedule_expiry`: asleep, due, or run in vain |
| `decision[s]` | the future of `submit`'s enrollment |
| `pc[s]`, `reply[s]` | the place in `submit`, the answer of its request |
| `enrolled` | rows committed by `upsert_device` |
| `emitted` | events handed to listeners by the last step |

`opened`, `won`, `granted`, `declined` and `wrong` record history for the properties and
guard nothing but bounds. Every definition that starts with the words *Mutant:* is a
wrong variant of the definition after it; no specification uses it, it documents the bug
that the property named in `PROJECT.json` catches.

Three points deserve attention.

* `_close_locked` acts on whatever window is open. `GiveUp` and `Deny` keep that.
* When a decision and the approval timer fall in one turn of the loop, Python 3.11 returns
  the decision and 3.12 raises `TimeoutError`. The project allows both, so `Wake` and
  `ApprovalTimeout` are both possible.
* `CodeShown`: a phone can send the code of a new window only after the operator has seen
  it. By then the submissions of earlier windows that were already woken have run, since
  the loop runs ready tasks first-in first-out. It restricts only submissions with the
  *right* code; without it one could find a race that needs a phone to guess the code.

Left out: malformed base64 (`bad_request` before the lock), `window_s` validation, the
wall-clock expiry shown to the operator, names and fingerprints.

### Auth

A *message* is what a phone signed (device, nonce, timestamp); a *delivery* is an HTTP
request with those headers, whole or altered. `pc` follows the awaits of
`auth_middleware`; `found` and `now` are its local variables `device` and `now`.
Database calls are atomic, being thread jobs under the store's lock. `row[m]` is the
`expires_at` of a message's nonce. `RefuseSignature` and `ConsumeNonce` take place when
the body has been read, which may be arbitrarily late: the service sets no limit to it.
The rate limiter, the allowed networks, header syntax and body size are one refusal
(`Refuse`), possible whenever the code performs one of them. `delete_device` is two
autocommitted statements: `DeleteDeviceHalf` is the first without the second.

The clock is the wall clock and is assumed not to step back. `standing` holds the
accepted deliveries whose device has not been deleted since, because deletion drops the
nonces on purpose.

### RateLimiter

`allow` has no await and is one action. Tokens are integers, in sixtieths of a request.
The history variables `ideal` and `extra` run a bucket per key that is never forgotten
next to the real table. `OldestHalves` leaves the order of equally old buckets open.

### PairCLI

One terminal is one run of the command: `place[t]` is the place in `cmd_pair`, `events[t]`
what the service has sent and the run has not read, `commands` what all runs have sent and
the service has not executed. `commands` is one queue in order of arrival although every
connection has a task of its own: a command waits for nothing but the manager's lock,
which is handed on in order, and a connection's next command is read only after its last
one. The two orders can differ only if two commands of one run wait for a lock that is
held. With one run at a time that does not happen: a run sends a second command before the
first is answered only if it is interrupted after its answer to a prompt, and the lock is
held only for a phone whose answer has been executed. For the same reason (`Served`) the
approval timer (at least 10 s) finds the earlier commands executed or waiting for the
lock. A process that starts later finds the same, and besides that no answered or
timed-out submission is still to run while the lock is free (`Settled`): what the event
loop had ready comes before a connection that is new. A command is executed even when its
sender has gone, and an exited run's answer still counts. `--yes` is a prompt that is
answered at once. `CommandsMeetTheirWindow` is about what an interrupted run has left in
the queue: the service executes it after the run has gone, perhaps when the next run waits
for its window, and it must find its own window or none. An orderly stop of the service
appears as what the terminals see of it, the loss of their connections (`ServiceRestart`).
Left out: the 64-event limit of a connection's queue, which one run never reaches in three
windows.

`Shared = FALSE` lets a run start only when the others have exited.

### Control

The service's end of a connection is a handler task (`handler`) and a pump task (`pump`),
the other end `control/client.py`; `wire` and `lines` are the two directions of the
socket. A message is an event with its number or a reply with the id of its command. What
a command does is in the other modules; here it may be *loud*, that is, make the manager
emit an event, which is put into every registered connection's queue or dropped there.
`drain()` waits when more than `WireLimit` messages are unread. A client may stall, give
up on a call and start the next one, or close at any point with messages unread and
commands unexecuted. A client in `Wordy` may send a line of more than 64 KiB: it is
answered by an error without an id, nothing more is read from that connection, and the
handler unwinds while the client is still there. Commands that were not read when a write
to a client that has gone breaks the connection are lost. `WaitsForAll` is the difference
between Python versions: from 3.12 on `wait_closed` waits for all connections.

### Instances and Startup

The steps are the system calls on the socket path and the port, in the order of
`Service.start` and `Service.stop`; `_run` calls `stop` also when `start` raised. Start-up
has no lock other than the socket, so the probe, the unlink and the bind of two instances
interleave. Closing a server removes its own socket file from Python 3.13 on and leaves
it before; both are possible. The probe does not distinguish a file that cannot be
connected to from one whose process is gone; neither does the code.

`Startup` puts `identity.load_or_create` before all that, call by call: look, create the
temporary file with `O_EXCL`, write and fsync, rename, fsync the directory. `path` and
`tmp` are what programs see; `maybe` is the set of directories a power failure may leave,
which every write extends and every fsync cuts back to what was synchronised. Keys are
numbers and `used` remembers those that were ever returned. A start may fail here, because
the temporary file exists (`"exists"`) or cannot be written (`"unwritten"`); `_run` then
stops what was never started. `alone` holds the instances that have met no other since
they started, and `left` says that somebody was cut off while the temporary file was
there: `AloneSucceeds` allows a lone start to fail at that file only then. `clean` records
that no two instances made a key at once and none died between rename and fsync; `KeyKept`
needs it.

### Advertiser

The listener runs inside the manager's step and creates a task (`tasks`); a task builds
the record from the state it finds. The publication on the network and zeroconf's own
state are external; an update that fails is suppressed by the code and leaves the record
object right, which is what `flag` stands for. `heard` says whether an event has arrived
since the registration.

### Session

Each run of `loginctl` is one step, and anything may happen between two of them: users
log in and out, lock and unlock, lockers handle signals late or never (`Heeds`), and
`loginctl` fails. A request lists the sessions, describes them one by one (`todo`,
`seen`), chooses by the code's ranking, signals, polls until the hint is clear or the
deadline has passed (`late`), and looks once more. A status request takes the same scan.
logind does not reuse the id of a session that has ended. `steady`, `cleared` and
`misled` are history. Parsing is left out.

### Configuration

A LAN stands for a network, its broadcast address and its hosts. `iface` and `route` are
what `/sys` and the routing table say and may change at any time; the service reads them,
and the file, once, when it starts. The file is absent, as `--write-default-config` wrote
it, or written by hand (`Edits`); settings that `load` checks one by one are the flag
`valid`. Packets are sent to each target of a request in turn, any of which may fail; a
target whose hardware address is not six bytes long raises in the middle of the loop.
`normalize_mac` raises for such an address (`Normalizes`): in a request it is a bad one,
in a file it is refused. The default targets do not pass it, so an interface with such an
address (an InfiniBand port) is listed, but a request that names it is answered with
`internal_error`. `own` says that the file is one that was written for this machine, be
the interfaces at other addresses by now; `intact` that they are not.
Reading TOML and the contents of packets are left out.

### Phone

The app is one JavaScript thread, so a step is the code between two awaits; a store
update is one step together with its synchronous subscribers. The model follows one PC
through a first pairing, made by an older version or this one, and `MaxPairings` further
ones. `row`, `status` and `disk` are the store's entry and its copy in AsyncStorage, with
writes on their way in `saves`; `shared` and `private` are the two access groups of the
keychain; `current`, `recent` and `timer` are the bridge to the widget. Both status
requests and unlocks are a `call`: migrate the key if it is an old one, resolve the
address, sign, wait.

`Publish` writes two copies, the state file for Shortcuts and the App Group for the
widget; the model has one, which stands for either. Its write may fail for any reason,
and the code swallows that after it has recorded the update as published, so nothing
repeats it until the next publication. `reached` says whether the last write succeeded,
and `WidgetCatchesUp` promises nothing after one that did not. `RemoveSecond` joins the
end of the second deletion to the update of the store, because no other code of the app
runs between the two; a kill there leaves what a kill after the first deletion leaves, a
row without its key, and the properties exempt both through `interrupted`.

Assumptions: AsyncStorage keeps the order of writes; an update of the app may bring the
App Group and never takes it away; nobody pairs before the disk has been read; deletions
in the keychain do not fail. What the PC answered is left out, so `status` says only
whether it did.

## 3. Runs

| run | checks | instance | states |
|---|---|---|---|
| `PairingApproval` | all safety of pairing with approval, `Enrollment` implemented, windows close and phones are answered | 3 phones, 2 windows, 2 attempts, database failures | 62 567 |
| `AuthSafety` | all safety of authentication | 1 message, 2 deliveries, skew 1, clock 1 to 4 | about a million |
| `RateLimiter` | table and budgets | 4 keys, table of 3, burst 2, one token per 2 s | 41 579 |
| `PairCLI` | `ApprovedWasShown`, `CommandsMeetTheirWindow` | 3 runs one after the other, 3 phones, 3 windows, database failures | 1 270 658 (up to symmetry) |
| `Control` | replies, events, no backpressure, orderly stop | 2 connections, one of which may send a line that is too long, queue of 1, 2 calls, 2 events | 423 718 |
| `Startup` | key kept and whole; a lone start fails only at a temporary file that a start cut off before has left; an ended instance holds nothing | 2 instances, 3 keys | 83 713 |
| `Advertiser` | `FlagSettles`; `CodeSingleUse` without approval | 3 phones, 2 windows, 2 tasks | about 14 000 |
| `Session` | the choice, the confirmation, the signals, every request answered | 1 request, 4 sessions of all kinds, 2 changes | 146 740 |
| `Configuration` | the written file is accepted and read as the defaults, fan-out, admission | 2 interfaces of every kind, 2 networks | 540 816 |
| `Phone` | rows have keys, deleted keys are gone, the widget catches up unless a write fails | 1 call at a time, 1 new pairing beside an old one, 2 launches | 1 462 646 |

Bounds. `MaxWindows` 2: a race between windows needs two. `Submissions`: one parked, one
late, one new. `MaxAttempts` 2 shows both outcomes of a wrong code. In `Auth`, skew 1 and
a clock up to 4 hold a whole life of a row (2 * skew), its sweep and a late second
delivery; two deliveries suffice for every property, which all speak of pairs.
`MaxHalvings` bounds how often the rate limiter's table drops a half: each time may give
every key a fresh burst, so without it `extra` would grow without bound. In `PairCLI` a
phone of an earlier window can meet the prompt of a later run only when a third run opens
the window between, so it has three of each. `MaxTasks` 2 lets refresh tasks overtake two
events. In `Control`, a queue of one overflows at the second event, and two connections
are one that stalls and one that must not notice; the one in `Wordy` may do both, the
other one is held up by neither; a wire that holds nothing makes every `drain()` wait. In
`Startup` two instances meet in every pair of steps, and three keys are the first, one
made beside it and one made after a power failure. In `Session` the two sessions of ours
let the choice go wrong, the other two must never be chosen; two changes can undo one
another between two looks. Two interfaces can share an address, be a tunnel and a port, or
change places in the order of names. In `Phone` one new pairing meets the removal of the
old one, and one call is enough because calls meet only in what they write for the same
key; the second launch is the one after a kill. For all properties that are proved
(section 4) the proofs remove the bounds.

### What the code does against its documents

The configurations below have a counterexample each, a disagreement of the code with a
statement of the repository. `PROJECT.json` lists `PairCLIShared` and `InstancesSecond`
with the statements quoted. The others are kept beside them and are run by hand in the
same way; where a `.cfg` names several properties, its comment says which of them fail.
`AuthSweep.cfg` (`ExpiredRowsSwept`), the two `TypeOK` of `ControlStop.cfg` and
`PhoneLimits.cfg`, `NoneForgotten` of the first and `FailedLeavesNoKey` of the second hold.

* `PairingStuck`: a database error in `_finish_locked` leaves the manager in
  `AWAITING_APPROVAL`, with no timer left and a future that `resolve` no longer answers.
  Every phone is refused until the operator cancels or the service restarts.
* `PairingLateClose`: cancel, then begin at once: the woken submission of the cancelled
  window closes the new one.
* `PairingCodeReuse`: without approval, if the audit row fails after the device row is
  committed, the window stays open and its "single-use" code enrols another device.
* `AuthReplay`: a nonce is not strictly single-use. Its row expires two skews after the
  first timestamp check, and the body is awaited between check and insertion; a delivery
  whose body is late, or that is checked in the very last second, is accepted again.
  `AcceptedAgainOnlyLate` and `PromptAcceptedOnce` say, and prove, how far the guarantee
  does hold.
* `AuthOrder`: the protocol looks the nonce up before the signature, the code after it.
  The code's order is the one `ReplayedMeansAccepted` needs.
* `PairCLIShared`: `pair.approve` names no device. With two runs of `wol-unlockctl pair`,
  the operator's "yes" to one phone approves the phone parked by then. With one run at a
  time that cannot happen (`PairCLI`, `ShownTheorem`): only a run opens a window, and it
  starts when the earlier runs have exited and what they sent has been executed or waits
  for the lock before its own commands.
* `PairCLIInherits`: a connection hears every event from the moment it is accepted, so a
  run whose `pair.begin` waits for the lock reads the end of the previous window and exits.
* `InstancesSecond`: the instance that is refused because another one is healthy removes
  that one's socket in its own clean-up.
* `AdvertiserLate`: the listener is added only after the registration, so a window opened
  meanwhile is advertised as closed until the next event.
* `StartupLeftover`: an instance killed while it writes the key leaves the temporary file
  behind, and since it is created with `O_EXCL`, every later first start fails on it.
* `ControlLeak`: `_handle` awaits the pump it has cancelled; that raises `CancelledError`,
  which `suppress(Exception)` does not catch, so the rest of the clean-up is skipped and
  the connection stays registered, with a queue that fills up. `NobodyHeldUp` and
  `StopEnds` say what that does not cost.
* `ControlStop`: from Python 3.12 on an orderly stop waits for connections that it closes
  only afterwards; it ends when the last terminal leaves.
* `SessionNull`: a status request may answer `session: null` although a session of ours
  is there all the time, because `loginctl` failed for it.
* `ConfigMissing`: without a file, two default targets with one hardware address (the
  members of a bond), or a host name of more than 63 bytes, are refused by `load`, and
  the service does not start.
* `ConfigTargets`, `DefaultsReachLan`: with the default route in a tunnel, the default
  targets get the tunnel's broadcast address, `0.0.0.0`. `AnyPacketIsSuccess`: a target
  whose address is not six bytes long turns a request that has sent packets into
  `internal_error`; so does a request that names such a target of the defaults.
* `PhoneLimits`, `UnpairedLeavesNoKey`: a request that has read the key writes it back
  after the removal has deleted it (a promotion to the App Group, or a migration).
  `KeyDiesWithPairing`: pairing the same PC again replaces the row and leaves the old key
  in the keychain. `RemovesWhatItRead`: when the PC is paired again while its removal is
  deleting keys, the end of the removal drops the new row. `NeverBlank`: each start
  publishes the empty list before the disk has been read, so the widget is blank for a
  moment.

### Fairness

`Pairing`: the loop runs every ready task and due timer, time passes and the lock is
handed on in order, so `Lapse`, `Expire`, `ApprovalTimeout` and each submission's own
steps are weakly fair (for the lock: a holder never waits for anything but the database).
The operator, the phones and crashes are not. `Session`: a run of `loginctl` ends, by
itself or by its timeout, and the deadline passes, so `Step` and `Lapse` are weakly fair
for each request; users and lockers owe nothing. `Control`: the service's own tasks and
the end of `wait_closed` are fair; clients owe nothing, so `NobodyHeldUp` excludes a
sender that does not read and `StopEnds` a terminal that stays; nobody has to be killed.
`Phone`: time passes and due timers fire while the app runs (`Elapse`, `TimerFires`);
nothing else need happen. `Auth`: only the sweeper is fair, and `ExpiredRowsSwept` is
conditional on the process not dying for ever, because a process that is restarted more
often than every 24 s never sweeps. Bodies are not fair.

## 4. Proofs

All theorems have the form `Spec => []P` or `Spec => [][A]_vars`, or are a refinement,
and hold for every value of the constants that satisfies the assumptions of their
modules.

**PairingProofs, the manager.** None of the properties is inductive. `IInv` adds: how the
manager's fields relate (`Shape`; `wrong[window] + attempts = MaxAttempts` is what makes
`AttemptsBound` inductive); who holds the lock (`LockInv`); that a verdict a submission
carries is the operator's (`VerdictInv`); what each place in `submit` has behind it
(`RecordInv`); that while one enrollment is pending no other submission is in flight
(`DrainedInv`, where `CodeShown` is needed); and that the user of a window's code is still
the pending one or holds the lock (`SingleUseInv`). The last holds only if approval is
required or the database cannot fail, as `PairingCodeReuse` shows, and so does
`SingleUseTheorem`. `TypeStep` proves types first; `Inductive` has one step per action.
`EnrollmentTheorem` maps each step to one of `Enrollment` or a stutter; besides `IInv` it
needs `WaitInv`: a decision is made only for a phone that waits, and nobody waits for one
that is not required.

**AuthProofs.** The heart is `Remembered`: for each standing acceptance, the row lasts
until two skews after its check, or that time has passed. It survives sweeps because the
sweeper's time is never ahead of the clock, and it gives `AcceptedAgainOnlyLate` at the
one step that accepts. `PromptOnce` follows with the bounds of `ClockInv`. `BarredInv`
follows a delivery that arrived under an untrusted device.

**RateLimiterProofs.** `RoomMade`: whatever the expired buckets, eviction leaves a place.
`CreditInv` compares the table with `ideal`: what a key may still spend, found or fresh,
plus what halvings gave it, is at least what it would own in a limiter without eviction.
That refilling later in one go equals refilling in between (`RefilledLater`) is the
arithmetic behind it. The exact budget follows for a key with nothing extra.

**PairingProofs, its terminals.** `CommandStep` and `CLIStep` show that every step of the
composition is a step of the manager or a stutter, so what is proved of the manager may be
used here (`Behaves`; `TerminalApproval` is one instance). `CLITypes` rests on
`PromptInv`: a prompt that is open shows a submission. `ShownTheorem` is for runs that do
not overlap, with approval required (without it nobody is approved). `OrderInv` is about
the queue of commands: nothing follows a waiting `pair.begin` but other ones, and the run
whose window is open has the newest. `LatestInv` adds that a waiting answer or
`pair.cancel` comes from the run that has begun last, which gives `MeetTheorem`.
`FlightInv`: one phone is in flight at a time, none while the window takes codes, and
while a `pair.begin` waits that phone holds the lock or is parked with nobody left to
answer it; `Settled` is needed here. Hence `HeardInv`: an open prompt shows a phone of the
newest window, and a run that hears of an earlier phone before its `pair.begin` is
executed finds the window taken. So (`AnswerInv`) a waiting `pair.approve` has a "yes" for
a phone of the newest window, and a window admits one phone (`SingleUseInv` of the
manager).

**StartupProofs.** `HoldInv` says at which stages an instance can listen, hold the port
or be named by the path, so an instance that is off has nothing; `StartupImplements`
carries that to `Startup`, whose steps are steps of `Instances` or stutters. `AloneInv`
says that while an instance is alone all others are off; then nobody listens and nobody
holds the port, and neither the probe nor the bind can fail. `LeftInv` says that the
temporary file is there only while somebody writes it, or after somebody was cut off; the
two give `StartupAlone`. For the key, `TmpInv` gives
the temporary file one owner and says that what is written there cannot be half lost,
whence `WholeKey`; `KeyInv` says that outside rename and fsync the disk agrees with the
path and that nobody makes a key while one is in use, whence `KeyKept`.

**SessionProofs.** `Careful` is what no step may do: report success without a cleared
hint, or signal a session nobody chose. It follows from what each place of a request has
behind it (`ChosenInv`, `NamedInv`, `KnownInv`, `ClearInv`). `SteadyInv` is about the
scan: a session that has not changed since the list was made is still to be described or
has been seen as it is; `SteadyChoice` concludes that the ranking prefers it to
everything that is worse.

**ConfigurationProofs.** The order of interfaces is a `CHOOSE` of a sorted sequence, and
`Sortable` shows that there is one for every finite set, by a least counterexample.
`Loaded` is what `load` guarantees of what it accepts, `ReadBack` that the file that was
written is read as the defaults; the invariant carries both to running services. `OwnOK`
says what a file written for this machine looks like once addresses have changed: the
interfaces that can be woken, in order, with one broadcast address that was right then.
With `ListedDistinct` (interfaces with different addresses are listed with different ones), `ReadLater`
concludes that `load` accepts it, which is `OwnTheorem`.

**PairingProofs, its advertiser.** `OpennessAnnounced`: a step of the manager that opens
or ends a window emits `pair.opened` or `pair.closed`. So a step that could make the flag
wrong leaves a task behind. The invariant adds that nothing is heard before the
registration.

**ControlProofs.** A connection is four sequences, and each step moves one message: an
event is emitted into a queue or dropped there (`Queued`, `Missed`), written (`Delivered`)
and read (`Heard`), a reply is written (`Replies`) and read (`ReplyRead`). Each of these
lemmas says that `Unbroken` survives, so `EventsUnbroken` is inductive together with
`EventInv`, the numbers of events being bounded by the count of the manager. `CallInv`
bounds the ids on both directions of the socket by the calls made; a reply is filed under
its own id, whence `ReplyIsItsOwn`. `NewInv` is needed when a client connects. `KeptInv`
adds that no call is forgotten: the commands and the replies to come change places in
`ComingRun`, and the only reply that goes missing is the one that ends its call. A call is
forgotten only behind a line that was too long, or by a connection that broke.

**PhoneProofs.** `RowsVouched` says of every row, shown, stored or on its way to the
disk, that its pairing was completed and that its key is in one of the groups, unless the
deletion of that key has begun. It is inductive with what each place in the app has behind
it: nothing runs while the app is dead (`NothingRuns`), an enrolment has the key it made
(`EnrolmentKeeps`), requests and removals are of completed pairings (`OnlyPaired`), a key
is in the App Group only if that was granted (`GroupHeld`), and between its two deletions
a removal finds in the App Group only what a request has written back (`HalfRemoved`).
Keys of different pairings never meet, since each alias is new (`Alias`, from
`newKeyAlias`). A request may write back the key it has read; `RequestStep` shows for all
its steps that it never takes one away. `RowHasKey` and `DeletedIsGone` are parts of the
invariant; `FailedTheorem` follows because no request ever reads the key of an enrolment
that was not completed.

**Only model-checked**: liveness (outside TLAPS's reach; so are `ENABLED`, induction over
data and `RECURSIVE` operators, which no proof here needs) and the counterexamples. Every
safety property and every refinement of section 3 is also a theorem.

## 5. Not modelled, and what could come next

Left out, with the reason:

* *Phone, what the PC answered.* `usePCActions` writes the answer of each request when it
  arrives, so an older answer can overwrite a newer one; `Phone` keeps only whether the PC
  answered. The busy flag and the packets the phone sends to wake a PC are left out too.
  `buildWidgetPayload` stamps the payload, which defeats the comparison that is to skip
  unchanged ones (`widgetBridge.ts`); `Publish` has both outcomes.
* *Phone, stateless parts.* The API client, discovery on the network and screens keep
  nothing that another part relies on. The widget and the App Intents are further clients
  of the service; to it their retries are requests like others.
* *Canonical strings, texts, terminal layout.* Their properties are about characters.
* *The audit table*, except that writing it can fail (`Pairing`); the retention of its rows
  has no effect on anything else.
* *The device that a revocation names* is found and revoked in one step of `Auth`; in the
  code a listing and an await lie between them (`control/server.py`).
* *Power failure of the database*: with `synchronous=NORMAL` the last nonces may be lost;
  `Auth` restarts keep them. *A wall clock that steps back*: `Auth` assumes it does not.
* *Reading `/sys`, TOML and `loginctl`*: input and output without state.
* *Build, installation and test code.*

Next steps in order of what they would add:

1. A composition of pairing, the tables and authentication, with power loss and a clock
   that may step back: how long after either a message is accepted again.
2. The phone's status under concurrent requests, with the times of answers.
3. `ReplayGuard` as an abstract specification implemented by `Auth`, and an ideal limiter
   implemented by `RateLimiter` until its table is halved.
