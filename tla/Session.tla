------------------------------ MODULE Session ------------------------------
(***************************************************************************)
(* Choosing and unlocking a session of logind: session.py with the         *)
(* handlers `unlock` and `status` (http/handlers.py).                      *)
(*                                                                         *)
(* Every look at logind is a run of loginctl, during which the coroutine   *)
(* is suspended: users log in and out, lock and unlock, and other requests *)
(* go on, between any two of them.  The step that reads logind and the     *)
(* step that uses the answer are therefore two steps.  logind does not     *)
(* reuse the id of a session that has ended.                               *)
(***************************************************************************)
EXTENDS Naturals

CONSTANTS
  Sessions,    \* session ids
  Kind,        \* "own": ours and graphical; "text": ours, not graphical;
               \* "manager": ours, not of class user; "other": another user's
  Num,         \* the number an id stands for in the ranking
  Heeds,       \* sessions whose screen locker obeys logind's Unlock signal
  Requests,    \* POST /v1/unlock and GET /v1/status
  AnySession,         \* what a request wants: session_id null
  Status,      \*   a status report
  NoSession,   \* no session chosen
  MaxChanges   \* bound: how often users change a session

ASSUME SessionAssumption ==
  /\ Kind \in [Sessions -> {"own", "text", "manager", "other"}]
  /\ Num \in [Sessions -> Nat]
  /\ Heeds \subseteq Sessions
  /\ AnySession \notin Sessions \cup {Status} /\ Status \notin Sessions
  /\ NoSession \notin Sessions
  /\ MaxChanges \in Nat

VARIABLES
  enabled,   \* unlock_enabled of the configuration
  status,    \* logind: each session "future", "live" or "ended"
  locked,    \*         those whose LockedHint is set
  active,    \*         those that are active
  signals,   \*         Unlock signals a screen locker has not handled
  changes,   \* bookkeeping for MaxChanges
  pc,        \* where each request is
  want,      \* what it asks for
  todo,      \* listed sessions it has still to describe
  seen,      \* what describe_session returned
  target,    \* the session it has chosen
  late,      \* requests whose deadline for the confirmation has passed
  reply,     \* what each request was answered
  steady,    \* history: sessions that have not changed since its list, until it chooses
  cleared,   \* history: requests whose target was unlocked after their signal
  misled     \* history: requests that had a failing loginctl

logind  == <<status, locked, active, signals, changes>>
request == <<want, todo, seen, target, late>>
history == <<steady, cleared, misled>>
vars    == <<enabled, logind, pc, request, reply, history>>

Live == {s \in Sessions : status[s] = "live"}
Own  == {s \in Sessions : Kind[s] = "own"}

PCs == {"idle",    \* not arrived
        "list",    \* awaiting list-sessions
        "scan",    \* awaiting show-session, once per listed session
        "signal",  \* awaiting unlock-session
        "poll",    \* awaiting show-session of _await_unlocked
        "look",    \* it said locked: next, the deadline
        "final",   \* confirmed; awaiting the last show-session
        "done"}

Replies == {"none", "unlocked", "already", "unlock_failed", "no_session",
            "internal_error", "not_allowed", "session", "null"}

Infos == [id : Sessions, locked : BOOLEAN, active : BOOLEAN]

TypeOK ==
  /\ enabled \in BOOLEAN
  /\ status \in [Sessions -> {"future", "live", "ended"}]
  /\ locked \subseteq Live
  /\ active \subseteq Live
  /\ signals \subseteq Live
  /\ changes \in 0 .. MaxChanges
  /\ pc \in [Requests -> PCs]
  /\ want \in [Requests -> Sessions \cup {AnySession, Status}]
  /\ todo \in [Requests -> SUBSET Sessions]
  /\ seen \in [Requests -> SUBSET Infos]
  /\ target \in [Requests -> Sessions \cup {NoSession}]
  /\ late \subseteq Requests
  /\ reply \in [Requests -> Replies]
  /\ steady \in [Requests -> SUBSET Sessions]
  /\ cleared \subseteq Requests
  /\ misled \subseteq Requests

Init ==
  /\ enabled \in BOOLEAN
  /\ status \in [Sessions -> {"future", "live"}]
  /\ \A s \in Sessions \ Own : status[s] = "live"
  /\ locked \in SUBSET Live
  /\ active \in SUBSET (Live \cap Own)
  /\ signals = {}
  /\ changes = 0
  /\ pc = [r \in Requests |-> "idle"]
  /\ want = [r \in Requests |-> AnySession]
  /\ todo = [r \in Requests |-> {}]
  /\ seen = [r \in Requests |-> {}]
  /\ target = [r \in Requests |-> NoSession]
  /\ late = {}
  /\ reply = [r \in Requests |-> "none"]
  /\ steady = [r \in Requests |-> {}]
  /\ cleared = {}
  /\ misled = {}

-----------------------------------------------------------------------------
(* The users and the screen lockers.                                       *)

Change(s) ==
  /\ steady' = [r \in Requests |-> steady[r] \ {s}]
  /\ UNCHANGED <<enabled, pc, request, reply, misled>>

\* The hint of s is cleared.
Cleared(s) ==
  /\ s \in locked
  /\ locked' = locked \ {s}
  /\ cleared' = cleared \cup {r \in Requests : target[r] = s /\ pc[r] \in {"poll", "look"}}
  /\ Change(s)
  /\ UNCHANGED <<status, active>>

ByUser == changes < MaxChanges /\ changes' = changes + 1

LogIn(s) ==
  /\ ByUser
  /\ status[s] = "future"
  /\ status' = [status EXCEPT ![s] = "live"]
  /\ UNCHANGED <<locked, active, signals, cleared>>
  /\ Change(s)

LogOut(s) ==
  /\ ByUser
  /\ status[s] = "live"
  /\ status' = [status EXCEPT ![s] = "ended"]
  /\ locked' = locked \ {s}
  /\ active' = active \ {s}
  /\ signals' = signals \ {s}
  /\ UNCHANGED cleared
  /\ Change(s)

Lock(s) ==
  /\ ByUser
  /\ s \in Live \ locked
  /\ locked' = locked \cup {s}
  /\ UNCHANGED <<status, active, signals, cleared>>
  /\ Change(s)

UnlockByHand(s) ==
  /\ ByUser
  /\ Cleared(s)
  /\ UNCHANGED signals

Switch(s) ==
  /\ ByUser
  /\ s \in Live
  /\ active' = IF s \in active THEN active \ {s} ELSE active \cup {s}
  /\ UNCHANGED <<status, locked, signals, cleared>>
  /\ Change(s)

Users ==
  \E s \in Own : LogIn(s) \/ LogOut(s) \/ Lock(s) \/ UnlockByHand(s) \/ Switch(s)

\* The locker obeys; a signal to a session that is not locked is dropped.
LockerUnlocks(s) ==
  /\ s \in signals \cap Heeds
  /\ Cleared(s)
  /\ signals' = signals \ {s}
  /\ UNCHANGED changes

DropSignal(s) ==
  /\ s \in signals
  /\ s \notin locked \/ s \notin Heeds
  /\ signals' = signals \ {s}
  /\ UNCHANGED <<enabled, status, locked, active, changes, pc, request, reply, history>>

Lockers == \E s \in Sessions : LockerUnlocks(s) \/ DropSignal(s)

-----------------------------------------------------------------------------
(* Requests.                                                               *)

Goes(r, from, to) ==
  /\ pc[r] = from
  /\ pc' = [pc EXCEPT ![r] = to]

\* The request is answered; what it had seen is forgotten.
Answer(r, from, answer) ==
  /\ Goes(r, from, "done")
  /\ reply' = [reply EXCEPT ![r] = answer]
  /\ todo' = [todo EXCEPT ![r] = {}]
  /\ seen' = [seen EXCEPT ![r] = {}]
  /\ want' = [want EXCEPT ![r] = AnySession]
  /\ target' = [target EXCEPT ![r] = NoSession]
  /\ late' = late \ {r}
  /\ steady' = [steady EXCEPT ![r] = {}]
  /\ cleared' = cleared \ {r}
  /\ misled' = misled \ {r}

\* current_session turns every error into None.
Null(r, error) == IF want[r] = Status THEN "null" ELSE error

Ask(r, w) ==
  /\ IF w # Status /\ ~enabled
       THEN Answer(r, "idle", "not_allowed")
       ELSE /\ Goes(r, "idle", IF w \in Sessions THEN "scan" ELSE "list")
            /\ want' = [want EXCEPT ![r] = w]
            /\ todo' = [todo EXCEPT ![r] = {w} \cap Sessions]
            /\ steady' = [steady EXCEPT ![r] = {w} \cap Live]
            /\ UNCHANGED <<seen, target, late, reply, cleared, misled>>
  /\ UNCHANGED <<enabled, logind>>

\* _list_session_ids and the filter of list_own_sessions.  Only the JSON form of
\* the list tells the class.
List(r) ==
  /\ Goes(r, "list", "scan")
  /\ \E classes \in BOOLEAN :
       todo' = [todo EXCEPT ![r] =
                 {s \in Live : Kind[s] # "other" /\ (classes => Kind[s] # "manager")}]
  /\ steady' = [steady EXCEPT ![r] = Live]
  /\ UNCHANGED <<enabled, logind, want, seen, target, late, reply, cleared, misled>>

\* describe_session; a session that is gone is skipped.
Describe(r, s) ==
  /\ Goes(r, "scan", "scan")
  /\ s \in todo[r]
  /\ todo' = [todo EXCEPT ![r] = @ \ {s}]
  /\ seen' = [seen EXCEPT ![r] = @ \cup
               IF s \in Live THEN {[id |-> s, locked |-> s \in locked, active |-> s \in active]}
               ELSE {}]
  /\ UNCHANGED <<enabled, logind, want, target, late, reply, history>>

\* show-session ends with an error although the session exists, and that is taken
\* for a session that is gone.
DescribeFails(r, s) ==
  /\ Goes(r, "scan", "scan")
  /\ s \in todo[r]
  /\ todo' = [todo EXCEPT ![r] = @ \ {s}]
  /\ misled' = misled \cup {r}
  /\ UNCHANGED <<enabled, logind, want, seen, target, late, reply, steady, cleared>>

\* Mutant: the active session goes first.
OutranksActiveFirst(x, y) ==
  \/ x.active /\ ~y.active
  \/ x.active = y.active /\ x.locked /\ ~y.locked
  \/ x.active = y.active /\ x.locked = y.locked /\ Num[x.id] < Num[y.id]

\* _rank: locked sessions first, then active ones, then the lowest id.
Outranks(x, y) ==
  \/ x.locked /\ ~y.locked
  \/ x.locked = y.locked /\ x.active /\ ~y.active
  \/ x.locked = y.locked /\ x.active = y.active /\ Num[x.id] < Num[y.id]

\* Mutant: a session named by the caller is taken as it is.
CandidatesAsNamed(r) == {x \in seen[r] : x.id \in Own \/ want[r] = x.id}

\* is_graphical and the owner, for a session found and for one named.
Candidates(r) == {x \in seen[r] : x.id \in Own}

\* find_unlock_target returns, and unlock_session looks at LockedHint.
Choose(r) ==
  /\ pc[r] = "scan" /\ todo[r] = {}
  /\ \/ /\ Candidates(r) = {}
        /\ Answer(r, "scan", Null(r, "no_session"))
     \/ \E x \in Candidates(r) :
          /\ \A y \in Candidates(r) : ~Outranks(y, x)
          /\ IF want[r] # Status /\ x.locked
               THEN /\ Goes(r, "scan", "signal")
                    /\ target' = [target EXCEPT ![r] = x.id]
                    /\ seen' = [seen EXCEPT ![r] = {}]
                    /\ steady' = [steady EXCEPT ![r] = {}]
                    /\ misled' = misled \ {r}
                    /\ UNCHANGED <<want, todo, late, reply, cleared>>
               ELSE Answer(r, "scan", IF want[r] = Status THEN "session" ELSE "already")
  /\ UNCHANGED <<enabled, logind>>

\* loginctl unlock-session: it succeeds whether or not a locker acts.
Signal(r) ==
  /\ target[r] \in Live
  /\ Goes(r, "signal", "poll")
  /\ signals' = signals \cup {target[r]}
  /\ cleared' = IF target[r] \in locked THEN cleared ELSE cleared \cup {r}
  /\ UNCHANGED <<enabled, status, locked, active, changes, request, reply, steady, misled>>

SignalFails(r) ==
  /\ Answer(r, "signal", "unlock_failed")
  /\ UNCHANGED <<enabled, logind>>

\* Mutant: the answer is not looked at.
PollUnseen(r) ==
  /\ target[r] \in Live
  /\ Goes(r, "poll", "final")
  /\ UNCHANGED <<enabled, logind, request, reply, history>>

\* _await_unlocked reads the hint.
Poll(r) ==
  /\ target[r] \in Live
  /\ Goes(r, "poll", IF target[r] \in locked THEN "look" ELSE "final")
  /\ UNCHANGED <<enabled, logind, request, reply, history>>

\* show-session knows no such session, or fails.
PollFails(r) ==
  /\ Answer(r, "poll", "unlock_failed")
  /\ UNCHANGED <<enabled, logind>>

\* Mutant: the deadline is computed anew in every round.
PollAgainAnew(r) ==
  /\ Goes(r, "look", "poll")
  /\ late' = late \ {r}
  /\ UNCHANGED <<enabled, logind, want, todo, seen, target, reply, history>>

\* Still locked: give up after the deadline, else sleep and look again.
PollAgain(r) ==
  /\ IF r \in late
       THEN Answer(r, "look", "unlock_failed")
       ELSE Goes(r, "look", "poll") /\ UNCHANGED <<request, reply, history>>
  /\ UNCHANGED <<enabled, logind>>

\* UNLOCK_CONFIRM_TIMEOUT_S have passed since the signal.
Lapse(r) ==
  /\ pc[r] \in {"poll", "look"} /\ r \notin late
  /\ late' = late \cup {r}
  /\ UNCHANGED <<enabled, logind, pc, want, todo, seen, target, reply, history>>

Confirm(r) ==
  /\ Answer(r, "final", "unlocked")
  /\ UNCHANGED <<enabled, logind>>

\* A run of loginctl cannot be started or exceeds 10 s, or both forms of the list
\* fail.  An unlock-session that is killed may have sent the signal.
LoginctlFails(r) ==
  /\ pc[r] = "scan" => todo[r] # {}
  /\ \E from \in {"list", "scan", "signal", "poll", "final"} :
       Answer(r, from, Null(r, "internal_error"))
  /\ signals' \in {signals} \cup
       (IF pc[r] = "signal" /\ target[r] \in Live THEN {signals \cup {target[r]}} ELSE {})
  /\ UNCHANGED <<enabled, status, locked, active, changes>>

Arrive(r) == \E w \in Sessions \cup {AnySession, Status} : Ask(r, w)

Step(r) ==
  \/ List(r)
  \/ \E s \in todo[r] : Describe(r, s) \/ DescribeFails(r, s)
  \/ Choose(r)
  \/ Signal(r) \/ SignalFails(r)
  \/ Poll(r) \/ PollFails(r) \/ PollAgain(r)
  \/ Confirm(r)
  \/ LoginctlFails(r)

Next == Users \/ Lockers \/ \E r \in Requests : Arrive(r) \/ Step(r) \/ Lapse(r)

Spec == Init /\ [][Next]_vars

\* Every run of loginctl ends, by itself or killed after 10 s, the loop runs what is
\* ready, and time passes.  Users and lockers owe nothing.
FairSpec ==
  /\ Spec
  /\ \A r \in Requests : WF_vars(Step(r)) /\ WF_vars(Lapse(r))

-----------------------------------------------------------------------------
(* Properties.                                                             *)

\* session.py, _rank: "A locked session is precisely the one worth unlocking", and
\* PROTOCOL.md 6.  Whatever changes during the scan, "no session" is not the answer
\* while one of ours stays as it was; and if such a session is locked, a locked one
\* is chosen, an active one if it is active.  A failing loginctl is the exception
\* (describe_session takes it for a session that is gone).
ActiveWhenSeen(r, t) == \E x \in seen[r] : x.id = t /\ x.locked /\ x.active

NothingSteadyMissed ==
  [][\A r \in Requests \ misled :
       Choose(r) => \A s \in steady[r] \cap Own :
         /\ reply'[r] \notin {"no_session", "null"}
         /\ want[r] = AnySession /\ s \in locked =>
              /\ pc'[r] = "signal"
              /\ s \in active => ActiveWhenSeen(r, target'[r])]_vars

\* session.py, "Why the result is re-read": success is reported for a locked session
\* only if its hint was clear at some time after the signal of that same request,
\* whatever lockers, users and other requests did meanwhile.
ConfirmedMeansCleared ==
  [][\A r \in Requests :
       reply[r] # "unlocked" /\ reply'[r] = "unlocked" => r \in cleared]_vars

\* A signal goes only to a graphical session of our own that a request has chosen, or
\* that its caller named, and to none while unlocking is disabled.
SignalsWereWanted ==
  [][\A s \in signals' \ signals :
       /\ enabled /\ s \in Own
       /\ \E r \in Requests : target[r] = s /\ want[r] \in {AnySession, s}]_vars

\* Every request is answered: the poll loop ends whatever the locker does.
EveryoneAnswered ==
  \A r \in Requests : pc[r] # "idle" ~> pc[r] = "done"

\* PROTOCOL.md 5.3, "`session` is `null` when no graphical session exists".
NullMeansNone ==
  [][\A r \in Requests :
       reply[r] # "null" /\ reply'[r] = "null" => steady[r] \cap Own = {}]_vars

=============================================================================
