------------------------------ MODULE Pairing ------------------------------
(***************************************************************************)
(* The pairing window of the PC service: class PairingManager of           *)
(* pc-service/src/wol_unlock/pairing.py, the only path by which a new      *)
(* device becomes trusted.                                                 *)
(*                                                                         *)
(* The service is one asyncio event loop.  A task is interrupted only at   *)
(* an await that really suspends, so a critical section of the manager's   *)
(* lock that contains no such await is one step here.  The awaits that do  *)
(* suspend are                                                             *)
(*   - asyncio.wait_for(pending.decision, ...) in submit: a phone that     *)
(*     sent the right code is "parked" until the operator answers, the     *)
(*     window is torn down or the approval timer fires;                    *)
(*   - the two database calls of _finish_locked, made while the lock is    *)
(*     held: every other task that wants the lock waits meanwhile.         *)
(* asyncio.Lock serves its waiters in order; the model lets any waiting    *)
(* task go first, which allows every order the event loop can produce.     *)
(*                                                                         *)
(* Windows are numbered; the number stands for the window's random code    *)
(* (40 bits: two windows never share one).  A submission is one            *)
(* POST /v1/pair of one phone, and stands for the key it enrols.           *)
(***************************************************************************)
EXTENDS Naturals, Sequences

CONSTANTS
  Submissions,      \* the POST /v1/pair requests
  NoSub,            \* "no submission" (Python's None)
  MaxAttempts,      \* pairing.max_attempts
  RequireApproval,  \* pairing.require_approval
  StoreMayFail,     \* whether a database call may raise
  MaxWindows        \* bound: how many windows are opened in a behaviour

ASSUME PairingAssumption ==
  /\ NoSub \notin Submissions
  /\ MaxAttempts \in Nat \ {0}
  /\ RequireApproval \in BOOLEAN
  /\ StoreMayFail \in BOOLEAN
  /\ MaxWindows \in Nat

VARIABLES
  state,     \* PairingState
  window,    \* the open window (its code), 0 when self._window is None
  attempts,  \* window.attempts_left
  expiry,    \* the window's deadline and its expiry task
  pending,   \* self._pending: the enrollment the operator can answer
  lock,      \* the submission that holds the lock across an await
  pc,        \* where each submission is in submit()
  decision,  \* its Future `decision`
  reply,     \* what its HTTP request was answered
  enrolled,  \* submissions whose device row has been committed
  emitted,   \* the events the last step gave to the listeners, in order
  opened,    \* history: number of windows opened so far
  won,       \* history: the window whose code a submission presented
  granted,   \* history: submissions the operator approved
  declined,  \* history: submissions the operator denied, or whose window
             \*          was cancelled or shut down under them
  wrong      \* history: number of wrong codes tried on each window

manager == <<state, window, attempts, expiry, pending>>
history == <<opened, won, granted, declined, wrong>>
vars == <<manager, lock, pc, decision, reply, enrolled, emitted, history>>

PCs == {"ready",     \* the request has not reached the manager
        "parked",    \* in wait_for(pending.decision)
        "approved",  \* wait_for returned True: next, take the lock
        "denied",    \* wait_for returned False: next, take the lock
        "timedout",  \* wait_for raised TimeoutError: next, take the lock
        "persist",   \* in _finish_locked, awaiting upsert_device
        "audit",     \* in _finish_locked, awaiting add_audit
        "done"}      \* answered

Expiries == {"none",      \* no window
             "sleeping",  \* deadline_monotonic not reached
             "due",       \* reached; the expiry task wants the lock
             "over"}      \* reached; the expiry task has run

Replies == {"none", "paired", "pairing_disabled", "pairing_expired",
            "invalid_code", "invalid_signature", "pairing_denied",
            "pairing_timeout", "internal_error", "lost"}

Windows == 1 .. MaxWindows

Event == [name : {"pair.opened", "pair.closed"}, sub : {NoSub}]
         \cup [name : {"pair.request", "pair.completed"}, sub : Submissions]

event(n, s) == [name |-> n, sub |-> s]

TypeOK ==
  /\ state \in {"idle", "open", "awaiting"}
  /\ window \in 0 .. MaxWindows
  /\ attempts \in 0 .. MaxAttempts
  /\ expiry \in Expiries
  /\ pending \in Submissions \cup {NoSub}
  /\ lock \in Submissions \cup {NoSub}
  /\ pc \in [Submissions -> PCs]
  /\ decision \in [Submissions -> {"undecided", "approved", "denied", "cancelled"}]
  /\ reply \in [Submissions -> Replies]
  /\ enrolled \subseteq Submissions
  /\ emitted \in Seq(Event)
  /\ opened \in 0 .. MaxWindows
  /\ won \in [Submissions -> 0 .. MaxWindows]
  /\ granted \subseteq Submissions
  /\ declined \subseteq Submissions
  /\ wrong \in [Windows -> Nat]

Init ==
  /\ state = "idle"
  /\ window = 0
  /\ attempts = 0
  /\ expiry = "none"
  /\ pending = NoSub
  /\ lock = NoSub
  /\ pc = [s \in Submissions |-> "ready"]
  /\ decision = [s \in Submissions |-> "undecided"]
  /\ reply = [s \in Submissions |-> "none"]
  /\ enrolled = {}
  /\ emitted = << >>
  /\ opened = 0
  /\ won = [s \in Submissions |-> 0]
  /\ granted = {}
  /\ declined = {}
  /\ wrong = [w \in Windows |-> 0]

-----------------------------------------------------------------------------
(* Tearing a window down.                                                  *)

\* The fields of a manager without a window.
NoWindow ==
  /\ state' = "idle"
  /\ window' = 0
  /\ attempts' = 0
  /\ expiry' = "none"
  /\ pending' = NoSub

\* A pending enrollment nobody has answered is answered False.
ResolvePending ==
  decision' = IF pending # NoSub /\ decision[pending] = "undecided"
              THEN [decision EXCEPT ![pending] = "denied"]
              ELSE decision

\* Mutant: the parked phone is forgotten, its future never resolved.
CloseForgetsPending == NoWindow /\ UNCHANGED decision

\* Mutant: a window with an enrollment parked falls back to open, code and all.
CloseKeepsCode ==
  /\ IF state = "awaiting"
     THEN /\ state' = "open"
          /\ pending' = NoSub
          /\ UNCHANGED <<window, attempts, expiry>>
     ELSE NoWindow
  /\ ResolvePending

\* _close_locked: cancel the expiry task, forget the window and the pending
\* enrollment, and resolve its future to False if nobody has answered it.
CloseLocked == NoWindow /\ ResolvePending

Closed == event("pair.closed", NoSub)

LockFree == lock = NoSub

-----------------------------------------------------------------------------
(* Commands of the control socket.                                         *)

\* begin: refused unless idle; a fresh code, the configured number of attempts
\* and an expiry task.
Begin ==
  /\ LockFree
  /\ state = "idle"
  /\ opened < MaxWindows
  /\ opened' = opened + 1
  /\ window' = opened + 1
  /\ attempts' = MaxAttempts
  /\ state' = "open"
  /\ expiry' = "sleeping"
  /\ emitted' = <<event("pair.opened", NoSub)>>
  /\ UNCHANGED <<pending, lock, pc, decision, reply, enrolled, won, granted,
                 declined, wrong>>

TearDown ==
  /\ LockFree
  /\ CloseLocked
  /\ emitted' = <<Closed>>
  /\ declined' = declined \cup ({pending} \ {NoSub})
  /\ UNCHANGED <<lock, pc, reply, enrolled, opened, won, granted, wrong>>

\* cancel: no check of the state; with no window open it only announces.
Cancel == TearDown

\* shutdown, called by Service.stop: the HTTP server still runs, so submissions
\* may follow it.
Shutdown == state # "idle" /\ TearDown

\* resolve: answers whatever enrollment is parked when the command runs.
Resolve(answer) ==
  /\ LockFree
  /\ state = "awaiting"
  /\ pending # NoSub
  /\ decision[pending] = "undecided"
  /\ decision' = [decision EXCEPT ![pending] = answer]
  /\ granted' = IF answer = "approved" THEN granted \cup {pending} ELSE granted
  /\ declined' = IF answer = "denied" THEN declined \cup {pending} ELSE declined
  /\ emitted' = << >>
  /\ UNCHANGED <<manager, lock, pc, reply, enrolled, opened, won, wrong>>

-----------------------------------------------------------------------------
(* The window's own timer.                                                 *)

\* The monotonic clock reaches the deadline of the window.
Lapse ==
  /\ expiry = "sleeping"
  /\ expiry' = "due"
  /\ emitted' = << >>
  /\ UNCHANGED <<state, window, attempts, pending, lock, pc, decision,
                 reply, enrolled, history>>

\* Mutant: the expiry task closes whatever state it finds.
ExpireAnyState ==
  /\ expiry = "due"
  /\ LockFree
  /\ CloseLocked
  /\ emitted' = <<Closed>>
  /\ UNCHANGED <<lock, pc, reply, enrolled, history>>

\* The expiry task wakes, takes the lock and closes a window that is still
\* merely open; an enrollment parked for approval is left to its own timer.
Expire ==
  /\ expiry = "due"
  /\ LockFree
  /\ \/ /\ state = "open"
        /\ CloseLocked
        /\ emitted' = <<Closed>>
     \/ /\ state # "open"
        /\ expiry' = "over"
        /\ emitted' = << >>
        /\ UNCHANGED <<state, window, attempts, pending, decision>>
  /\ UNCHANGED <<lock, pc, reply, enrolled, history>>

-----------------------------------------------------------------------------
(* submit(): the first critical section.                                   *)

Answer(s, r) ==
  /\ pc' = [pc EXCEPT ![s] = "done"]
  /\ reply' = [reply EXCEPT ![s] = r]

\* Another device is parked, or no window is open.
SubmitRefused(s) ==
  /\ pc[s] = "ready"
  /\ LockFree
  /\ state # "open"
  /\ Answer(s, "pairing_disabled")
  /\ emitted' = << >>
  /\ UNCHANGED <<manager, lock, decision, enrolled, history>>

\* The deadline has passed and the expiry task has not run yet.
SubmitExpired(s) ==
  /\ pc[s] = "ready"
  /\ LockFree
  /\ state = "open"
  /\ expiry # "sleeping"
  /\ CloseLocked
  /\ Answer(s, "pairing_expired")
  /\ emitted' = <<Closed>>
  /\ UNCHANGED <<lock, enrolled, history>>

WrongCode(s, code, last) ==
  /\ pc[s] = "ready"
  /\ LockFree
  /\ state = "open"
  /\ expiry = "sleeping"
  /\ code # window
  /\ wrong' = [wrong EXCEPT ![window] = @ + 1]
  /\ Answer(s, "invalid_code")
  /\ \/ /\ attempts > last
        /\ attempts' = attempts - 1
        /\ emitted' = << >>
        /\ UNCHANGED <<state, window, expiry, pending, decision>>
     \/ /\ attempts <= last
        /\ CloseLocked
        /\ emitted' = <<Closed>>
  /\ UNCHANGED <<lock, enrolled, opened, won, granted, declined>>

\* Mutant: the window is closed one wrong code too late.
SubmitWrongCodeOneMore(s, code) == WrongCode(s, code, 0)

\* A wrong code, or the code of an earlier window: one attempt is spent, and
\* the last one closes the window.
SubmitWrongCode(s, code) == WrongCode(s, code, 1)

\* The code of a window reaches a phone by way of the operator's screen, after
\* begin's reply has left the process.  The event loop runs what is ready in
\* order, so by the time a request with that code arrives, the submissions of
\* earlier windows that were already woken have taken the lock and finished.
CodeShown == \A t \in Submissions : won[t] # window => pc[t] \in {"ready", "done"}

\* The right code with a proof that does not verify burns the window.
SubmitBadProof(s) ==
  /\ pc[s] = "ready"
  /\ LockFree
  /\ state = "open"
  /\ expiry = "sleeping"
  /\ CodeShown
  /\ CloseLocked
  /\ Answer(s, "invalid_signature")
  /\ emitted' = <<Closed>>
  /\ UNCHANGED <<lock, enrolled, history>>

\* Mutant: a second phone takes the place of the one that is parked.
SubmitReplacesParked(s) ==
  /\ pc[s] = "ready"
  /\ LockFree
  /\ state # "idle"
  /\ expiry = "sleeping"
  /\ CodeShown
  /\ won' = [won EXCEPT ![s] = window]
  /\ pending' = s
  /\ state' = "awaiting"
  /\ pc' = [pc EXCEPT ![s] = "parked"]
  /\ emitted' = <<event("pair.request", s)>>
  /\ UNCHANGED <<lock, window, attempts, expiry, decision, reply, enrolled, opened,
                 granted, declined, wrong>>

\* The right code with a valid proof: parked for approval, or, when no approval
\* is required, persisted at once with the lock kept.
SubmitAdmitted(s) ==
  /\ pc[s] = "ready"
  /\ LockFree
  /\ state = "open"
  /\ expiry = "sleeping"
  /\ CodeShown
  /\ won' = [won EXCEPT ![s] = window]
  /\ \/ /\ RequireApproval
        /\ pending' = s
        /\ state' = "awaiting"
        /\ pc' = [pc EXCEPT ![s] = "parked"]
        /\ emitted' = <<event("pair.request", s)>>
        /\ UNCHANGED lock
     \/ /\ ~RequireApproval
        /\ lock' = s
        /\ pc' = [pc EXCEPT ![s] = "persist"]
        /\ emitted' = << >>
        /\ UNCHANGED <<pending, state>>
  /\ UNCHANGED <<window, attempts, expiry, decision, reply, enrolled,
                 opened, granted, declined, wrong>>

Submit(s) ==
  \/ SubmitRefused(s)
  \/ SubmitExpired(s)
  \/ \E code \in 0 .. opened : SubmitWrongCode(s, code)
  \/ SubmitBadProof(s)
  \/ SubmitAdmitted(s)

-----------------------------------------------------------------------------
(* submit(): waiting for the decision, and what follows it.                *)

ResumeAs(s, verdict) ==
  /\ pc[s] = "parked"
  /\ decision[s] \in {"approved", "denied"}
  /\ pc' = [pc EXCEPT ![s] = verdict]
  /\ emitted' = << >>
  /\ UNCHANGED <<manager, lock, decision, reply, enrolled, history>>

\* Mutant: being resolved is taken for being approved.
WakeIgnoresResult(s) == ResumeAs(s, "approved")

\* The future is resolved and wait_for returns its result.
Wake(s) == ResumeAs(s, decision[s])

TimerFires(s, places) ==
  /\ pc[s] \in places
  /\ pc' = [pc EXCEPT ![s] = "timedout"]
  /\ decision' = IF decision[s] = "undecided"
                 THEN [decision EXCEPT ![s] = "cancelled"]
                 ELSE decision
  /\ lock' = IF lock = s THEN NoSub ELSE lock
  /\ emitted' = << >>
  /\ UNCHANGED <<manager, reply, enrolled, history>>

\* Mutant: the timer also covers the database calls.
ApprovalTimeoutTooWide(s) == TimerFires(s, {"parked", "persist", "audit"})

\* Mutant: no timer once the window's own deadline has passed.
ApprovalTimeoutBeforeDeadline(s) == expiry = "sleeping" /\ TimerFires(s, {"parked"})

\* The approval timer fires.  It cancels an undecided future; a future resolved
\* in the same turn of the event loop keeps its result, but from Python 3.12 on
\* wait_for still raises TimeoutError (before, its result is returned: Wake).
ApprovalTimeout(s) == TimerFires(s, {"parked"})

EndUnpaired(s, place, r) ==
  /\ pc[s] = place
  /\ LockFree
  /\ Answer(s, r)
  /\ UNCHANGED <<lock, enrolled, history>>

\* Mutant: the timeout is answered without tearing the window down.
GiveUpKeepsWindow(s) ==
  /\ EndUnpaired(s, "timedout", "pairing_timeout")
  /\ emitted' = << >>
  /\ UNCHANGED <<manager, decision>>

\* After TimeoutError: the lock, then _close_locked("approval_timeout"),
\* whatever window is open by then.
GiveUp(s) ==
  /\ EndUnpaired(s, "timedout", "pairing_timeout")
  /\ CloseLocked
  /\ emitted' = <<Closed>>

\* After a negative decision: the lock, then _close_locked("denied").
Deny(s) ==
  /\ EndUnpaired(s, "denied", "pairing_denied")
  /\ CloseLocked
  /\ emitted' = <<Closed>>

\* After a positive decision: the lock, kept during _finish_locked.
Grant(s) ==
  /\ pc[s] = "approved"
  /\ LockFree
  /\ lock' = s
  /\ pc' = [pc EXCEPT ![s] = "persist"]
  /\ emitted' = << >>
  /\ UNCHANGED <<manager, decision, reply, enrolled, history>>

-----------------------------------------------------------------------------
(* _finish_locked: two database calls, the announcement, the tear-down.    *)

UpsertDevice(s) ==
  /\ pc[s] = "persist"
  /\ enrolled' = enrolled \cup {s}
  /\ pc' = [pc EXCEPT ![s] = "audit"]
  /\ emitted' = << >>
  /\ UNCHANGED <<manager, lock, decision, reply, history>>

\* Mutant: the window stays open after a success.
FinishPairedKeepsWindow(s) ==
  /\ pc[s] = "audit"
  /\ lock' = NoSub
  /\ Answer(s, "paired")
  /\ emitted' = <<event("pair.completed", s)>>
  /\ UNCHANGED <<manager, decision, enrolled, history>>

\* The audit row is written: announce, then tear down; a reply goes out.
FinishPaired(s) ==
  /\ pc[s] = "audit"
  /\ CloseLocked
  /\ lock' = NoSub
  /\ Answer(s, "paired")
  /\ emitted' = <<event("pair.completed", s), Closed>>
  /\ UNCHANGED <<enrolled, history>>

\* A database call raises: `async with` releases the lock, the envelope answers
\* internal_error, and the manager is left as it is.
StoreFails(s) ==
  /\ StoreMayFail
  /\ pc[s] \in {"persist", "audit"}
  /\ lock' = NoSub
  /\ Answer(s, "internal_error")
  /\ emitted' = << >>
  /\ UNCHANGED <<manager, decision, enrolled, history>>

-----------------------------------------------------------------------------
(* The process dies and is started again: the manager and every request in *)
(* flight are gone, committed rows are not.                                *)

Restart ==
  /\ NoWindow
  /\ lock' = NoSub
  /\ pc' = [s \in Submissions |-> IF pc[s] = "ready" THEN "ready" ELSE "done"]
  /\ reply' = [s \in Submissions |->
                 IF pc[s] \in {"ready", "done"} THEN reply[s] ELSE "lost"]
  /\ emitted' = << >>
  /\ UNCHANGED <<decision, enrolled, history>>

-----------------------------------------------------------------------------
Operator == Begin \/ Cancel \/ Resolve("approved") \/ Resolve("denied")

\* The steps the event loop takes by itself for a submission in flight.
Progress(s) ==
  \/ Wake(s)
  \/ GiveUp(s)
  \/ Deny(s)
  \/ Grant(s)
  \/ UpsertDevice(s)
  \/ FinishPaired(s)
  \/ StoreFails(s)

Next ==
  \/ Operator
  \/ Shutdown
  \/ Lapse
  \/ Expire
  \/ Restart
  \/ \E s \in Submissions : Submit(s) \/ ApprovalTimeout(s) \/ Progress(s)

Spec == Init /\ [][Next]_vars

\* The event loop runs every task that is ready and every timer that is due,
\* the lock is handed on in order, and time passes.  The operator, the phones
\* and crashes are under no obligation.
Fairness ==
  /\ WF_vars(Lapse)
  /\ WF_vars(Expire)
  /\ \A s \in Submissions : WF_vars(ApprovalTimeout(s)) /\ WF_vars(Progress(s))

FairSpec == Spec /\ Fairness

-----------------------------------------------------------------------------
(* Properties.                                                             *)

\* A device row is written only for a submission that presented the code of a
\* window and, when approval is required, that the operator approved while it
\* was the one parked: no interleaving of cancel, begin, timeouts and answers
\* lets an approval reach the database for another phone.
EnrolledWasApproved ==
  \A s \in enrolled : won[s] # 0 /\ (RequireApproval => s \in granted)

\* "The code is single-use" (pairing.py, header): one window enrols at most one
\* device.
CodeSingleUse ==
  \A s, t \in enrolled : won[s] = won[t] => s = t

\* "At most one in-flight enrollment": every phone that still waits undecided
\* is the one resolve() would answer, so none waits for an answer that nobody
\* can give.
NoOrphanedWaiter ==
  \A s \in Submissions :
    pc[s] = "parked" /\ decision[s] = "undecided" => pending = s /\ state = "awaiting"

\* What the phone is told agrees with the database: "paired" only with a row
\* written, and no row for a phone that was refused, denied or timed out.
ReplyMatchesStore ==
  \A s \in Submissions :
    /\ reply[s] = "paired" => s \in enrolled
    /\ s \in enrolled => reply[s] \in {"none", "paired", "internal_error", "lost"}

\* A window takes at most MaxAttempts wrong codes over its whole life, and is
\* gone once it has.
AttemptsBound ==
  \A w \in Windows :
    /\ wrong[w] <= MaxAttempts
    /\ wrong[w] = MaxAttempts => window # w

\* PROTOCOL.md 4.1, "pairing_denied: operator declined at the terminal": a phone
\* is told so only if the operator denied it, or cancelled or shut the window
\* down under it; the window's expiry, other phones' wrong codes and the late end
\* of an earlier submission never deny it.
DeniedMeansDeclined ==
  \A s \in Submissions : reply[s] = "pairing_denied" => s \in declined

\* PROTOCOL.md 9, where deny and timeout lead from AWAITING_APPROVAL to idle: the
\* end of a submission tears down no window but the one it was admitted to.
ClosesOnlyItsOwnWindow ==
  [][\A s \in Submissions :
       Deny(s) \/ GiveUp(s) \/ FinishPaired(s) => window \in {0, won[s]}]_vars

Phase ==
  [s \in Submissions |->
     IF s \in enrolled THEN "enrolled"
     ELSE IF pc[s] = "ready" THEN "away"
     ELSE IF pc[s] \in {"done", "denied", "timedout"} THEN "refused"
     ELSE IF pc[s] \in {"approved", "persist", "audit"} THEN "approved"
     ELSE IF decision[s] = "undecided" THEN "offered"
     ELSE IF decision[s] = "approved" THEN "approved" ELSE "refused"]

E == INSTANCE Enrollment WITH Phones <- Submissions, Approval <- RequireApproval,
                              phase <- Phase

\* "The only path by which a new device becomes trusted" (pairing.py, header): phones are
\* offered and enrolled one at a time, each enrolled only after it was approved and never
\* after it was refused; no interleaving shows an observer anything else.
ImplementsEnrollment == E!Spec

\* Every window is closed in the end, with nobody at the terminal.
WindowCloses ==
  \A w \in Windows : window = w ~> window # w

\* The same with a database that fails: the only window that stays is one held by
\* an enrollment whose database call has failed.
WindowClosesUnlessFailed ==
  \A w \in Windows :
    window = w ~> window # w \/ (pending # NoSub /\ reply[pending] = "internal_error")

\* Every POST /v1/pair that reached the manager is answered.
EveryoneAnswered ==
  \A s \in Submissions : pc[s] # "ready" ~> pc[s] = "done"

=============================================================================
