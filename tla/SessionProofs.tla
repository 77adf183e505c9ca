--------------------------- MODULE SessionProofs ---------------------------
(***************************************************************************)
(* Proofs about Session, for any sessions, any number of requests at once  *)
(* and any behaviour of users, lockers and logind.                         *)
(***************************************************************************)
EXTENDS Session, TLAPS

-----------------------------------------------------------------------------
(* The inductive invariant.                                                *)

\* A request past its choice holds a session of ours that its caller left open or
\* named, and past its arrival it is allowed.
ChosenInv ==
  \A r \in Requests :
    /\ pc[r] \in {"signal", "poll", "look", "final"} =>
         target[r] \in Own /\ want[r] \in {AnySession, target[r]}
    /\ pc[r] \notin {"idle", "done"} /\ want[r] # Status => enabled

\* A request that names a session describes no other.
NamedInv ==
  \A r \in Requests :
    /\ pc[r] = "idle" => seen[r] = {}
    /\ want[r] \in Sessions =>
         /\ pc[r] # "list"
         /\ todo[r] \subseteq {want[r]}
         /\ \A x \in seen[r] : x.id = want[r]

\* After the signal, the target is locked until its hint is seen to clear, or it ends.
ClearInv ==
  \A r \in Requests :
    /\ pc[r] \in {"poll", "look"} => r \in cleared \/ target[r] \in locked \/ target[r] \notin Live
    /\ pc[r] = "final" => r \in cleared

\* A session described or chosen has been logged in; ids are not reused.
KnownInv ==
  \A r \in Requests :
    /\ \A x \in seen[r] : status[x.id] # "future"
    /\ pc[r] \in {"signal", "poll", "look", "final"} => status[target[r]] # "future"

IInv == TypeOK /\ ChosenInv /\ NamedInv /\ KnownInv /\ ClearInv

\* What each step must not do, beside breaking the invariant.
Careful ==
  /\ \A r \in Requests : reply[r] # "unlocked" /\ reply'[r] = "unlocked" => r \in cleared
  /\ \A s \in signals' \ signals :
       /\ enabled /\ s \in Own
       /\ \E r \in Requests : target[r] = s /\ want[r] \in {AnySession, s}

-----------------------------------------------------------------------------
(* Users and lockers.                                                      *)

LEMMA UsersStep == IInv /\ Users => IInv' /\ Careful
<1> SUFFICES ASSUME IInv, NEW s \in Own,
                    LogIn(s) \/ LogOut(s) \/ Lock(s) \/ UnlockByHand(s) \/ Switch(s)
             PROVE  IInv' /\ Careful
  BY DEF Users
<1> USE DEF IInv, TypeOK, ChosenInv, NamedInv, KnownInv, ClearInv, Careful, Own, Live, ByUser, Change,
            request, history
<1> USE SessionAssumption
<1>1. CASE LogIn(s)
  <2>1. /\ status[s] = "future" /\ status' = [status EXCEPT ![s] = "live"]
        /\ changes' = changes + 1 /\ changes < MaxChanges
        /\ steady' = [r \in Requests |-> steady[r] \ {s}]
        /\ UNCHANGED <<enabled, locked, active, signals, pc, want, todo, seen, target, late,
                        reply, misled, cleared>>
    BY <1>1 DEF LogIn
  <2>2. Live' = Live \cup {s} /\ s \notin Live
    BY <2>1
  <2>3. TypeOK' /\ ChosenInv' /\ NamedInv' /\ KnownInv' /\ Careful
    BY <2>1
  <2>4. ClearInv'
    <3> SUFFICES ASSUME NEW r \in Requests PROVE
          /\ pc[r] \in {"poll", "look"} =>
               r \in cleared \/ target[r] \in locked \/ target[r] \notin Live \cup {s}
          /\ pc[r] = "final" => r \in cleared
      BY <2>1, <2>2
    <3> QED BY <2>1
  <2> QED BY <2>3, <2>4
<1>2. CASE LogOut(s)
  <2>1. /\ status' = [status EXCEPT ![s] = "ended"] /\ changes' = changes + 1
        /\ changes < MaxChanges
        /\ locked' = locked \ {s} /\ active' = active \ {s} /\ signals' = signals \ {s}
        /\ steady' = [r \in Requests |-> steady[r] \ {s}]
        /\ UNCHANGED <<enabled, pc, want, todo, seen, target, late, reply, misled, cleared>>
    BY <1>2 DEF LogOut
  <2>2. Live' = Live \ {s}
    BY <2>1
  <2>3. TypeOK'
    BY <2>1
  <2>4. ChosenInv' /\ NamedInv' /\ KnownInv' /\ Careful
    BY <2>1
  <2>5. ClearInv'
    <3> SUFFICES ASSUME NEW r \in Requests PROVE
          /\ pc[r] \in {"poll", "look"} =>
               r \in cleared \/ target[r] \in locked \ {s} \/ target[r] \notin Live \ {s}
          /\ pc[r] = "final" => r \in cleared
      BY <2>1, <2>2
    <3> QED OBVIOUS
  <2> QED BY <2>3, <2>4, <2>5
<1>3. CASE Lock(s)
  BY <1>3 DEF Lock
<1>4. CASE UnlockByHand(s)
  BY <1>4 DEF UnlockByHand, Cleared
<1>5. CASE Switch(s)
  BY <1>5 DEF Switch
<1> QED
  BY <1>1, <1>2, <1>3, <1>4, <1>5

LEMMA LockersStep == IInv /\ Lockers => IInv' /\ Careful
<1> SUFFICES ASSUME IInv, NEW s \in Sessions, LockerUnlocks(s) \/ DropSignal(s)
             PROVE  IInv' /\ Careful
  BY DEF Lockers
<1> USE DEF IInv, TypeOK, ChosenInv, NamedInv, KnownInv, ClearInv, Careful, Own, Live, Change,
            request, history
<1>1. CASE LockerUnlocks(s)
  BY <1>1 DEF LockerUnlocks, Cleared
<1>2. CASE DropSignal(s)
  BY <1>2 DEF DropSignal
<1> QED
  BY <1>1, <1>2

-----------------------------------------------------------------------------
(* Requests.                                                               *)

\* An answer preserves the invariant wherever the request was.
LEMMA AnswerStep ==
  ASSUME IInv, NEW r \in Requests, NEW from \in PCs, NEW answer \in Replies,
         Answer(r, from, answer), UNCHANGED <<enabled, status, locked, active, changes>>,
         signals' \subseteq Live
  PROVE  /\ IInv'
         /\ reply' = [reply EXCEPT ![r] = answer]
BY SessionAssumption DEF Answer, Goes, IInv, TypeOK, ChosenInv, NamedInv, KnownInv, ClearInv, Own, Live,
                         PCs, Replies

LEMMA NullType == ASSUME NEW r PROVE Null(r, "no_session") \in {"null", "no_session"}
                                  /\ Null(r, "internal_error") \in {"null", "internal_error"}
BY DEF Null

LEMMA AskStep == ASSUME IInv, NEW r \in Requests, Arrive(r) PROVE IInv' /\ Careful
<1> USE SessionAssumption
<1>1. PICK w \in Sessions \cup {AnySession, Status} : Ask(r, w)
  BY DEF Arrive
<1>2. CASE w # Status /\ ~enabled
  <2>1. Answer(r, "idle", "not_allowed") /\ UNCHANGED <<enabled, logind>>
    BY <1>1, <1>2 DEF Ask
  <2>2. IInv' /\ reply' = [reply EXCEPT ![r] = "not_allowed"]
    BY <2>1, AnswerStep DEF PCs, Replies, logind, IInv, TypeOK
  <2> QED BY <2>1, <2>2 DEF Careful, logind, IInv, TypeOK
<1>3. CASE ~(w # Status /\ ~enabled)
  <2>1. /\ pc[r] = "idle"
        /\ pc' = [pc EXCEPT ![r] = IF w \in Sessions THEN "scan" ELSE "list"]
        /\ want' = [want EXCEPT ![r] = w]
        /\ todo' = [todo EXCEPT ![r] = {w} \cap Sessions]
        /\ steady' = [steady EXCEPT ![r] = {w} \cap Live]
        /\ UNCHANGED <<seen, target, late, reply, cleared, misled, enabled, status, locked,
                       active, signals, changes>>
    BY <1>1, <1>3 DEF Ask, Goes, logind
  <2>2. TypeOK'
    BY <2>1 DEF IInv, TypeOK, PCs, Live
  <2>3. ChosenInv' /\ KnownInv' /\ ClearInv'
    BY <1>3, <2>1 DEF IInv, TypeOK, ChosenInv, KnownInv, ClearInv, Live, Own
  <2>4. NamedInv'
    BY <2>1 DEF IInv, TypeOK, NamedInv
  <2> QED BY <2>1, <2>2, <2>3, <2>4 DEF IInv, Careful
<1> QED
  BY <1>2, <1>3

LEMMA ScanStep ==
  ASSUME IInv, NEW r \in Requests,
         \/ List(r)
         \/ \E s \in todo[r] : Describe(r, s) \/ DescribeFails(r, s)
  PROVE  IInv' /\ Careful
<1> USE SessionAssumption DEF IInv, Goes, logind, history
<1>1. CASE List(r)
  <2>1. PICK found \in SUBSET Live :
          /\ pc[r] = "list" /\ pc' = [pc EXCEPT ![r] = "scan"]
          /\ todo' = [todo EXCEPT ![r] = found]
          /\ steady' = [steady EXCEPT ![r] = Live]
          /\ UNCHANGED <<enabled, status, locked, active, signals, changes, want, seen, target,
                          late, reply, cleared, misled>>
    BY <1>1 DEF List
  <2>2. TypeOK'
    BY <2>1 DEF TypeOK, PCs, Live
  <2>3. ChosenInv' /\ NamedInv' /\ KnownInv' /\ ClearInv'
    BY <2>1 DEF TypeOK, ChosenInv, NamedInv, KnownInv, ClearInv, Live
  <2> QED BY <2>1, <2>2, <2>3 DEF Careful
<1>2. ASSUME NEW s \in todo[r], Describe(r, s) PROVE IInv' /\ Careful
  <2> DEFINE more == IF s \in Live
                       THEN {[id |-> s, locked |-> s \in locked, active |-> s \in active]}
                       ELSE {}
  <2>1. /\ pc[r] = "scan" /\ pc' = [pc EXCEPT ![r] = "scan"]
        /\ todo' = [todo EXCEPT ![r] = @ \ {s}]
        /\ seen' = [seen EXCEPT ![r] = @ \cup more]
        /\ UNCHANGED <<enabled, status, locked, active, signals, changes, want, target,
                        late, reply, steady, cleared, misled>>
    BY <1>2 DEF Describe
  <2>2. s \in Sessions /\ (s \in Live => status[s] # "future")
    BY DEF TypeOK, Live
  <2>3. [id |-> s, locked |-> s \in locked, active |-> s \in active] \in Infos
    BY <2>2 DEF Infos
  <2>4. \A x \in more : x \in Infos /\ x.id = s /\ status[x.id] # "future"
    BY <2>2, <2>3
  <2> HIDE DEF more
  <2>5. TypeOK'
    BY <2>1, <2>4 DEF TypeOK, PCs, Live
  <2>6. ChosenInv' /\ KnownInv' /\ ClearInv'
    BY <2>1, <2>4 DEF TypeOK, ChosenInv, KnownInv, ClearInv, Live
  <2>7. NamedInv'
    BY <2>1, <2>4 DEF TypeOK, NamedInv
  <2> QED BY <2>1, <2>5, <2>6, <2>7 DEF Careful
<1>3. ASSUME NEW s \in todo[r], DescribeFails(r, s) PROVE IInv' /\ Careful
  <2>1. /\ pc[r] = "scan" /\ pc' = [pc EXCEPT ![r] = "scan"]
        /\ todo' = [todo EXCEPT ![r] = @ \ {s}]
        /\ misled' = misled \cup {r}
        /\ UNCHANGED <<enabled, status, locked, active, signals, changes, want, seen, target,
                        late, reply, steady, cleared>>
    BY <1>3 DEF DescribeFails
  <2>2. TypeOK'
    BY <2>1 DEF TypeOK, PCs, Live
  <2>3. ChosenInv' /\ NamedInv' /\ KnownInv' /\ ClearInv'
    BY <2>1 DEF TypeOK, ChosenInv, NamedInv, KnownInv, ClearInv, Live
  <2> QED BY <2>1, <2>2, <2>3 DEF Careful
<1> QED
  BY <1>1, <1>2, <1>3

\* Of the sessions described, the request keeps one of ours, and a named one only if
\* it is the one named.
LEMMA ChooseStep == ASSUME IInv, NEW r \in Requests, Choose(r) PROVE IInv' /\ Careful
<1> USE SessionAssumption DEF IInv
<1>1. ASSUME NEW answer \in Replies \ {"unlocked"}, Answer(r, "scan", answer)
      PROVE  IInv' /\ Careful
  <2>1. UNCHANGED <<enabled, status, locked, active, signals, changes>>
    BY DEF Choose, logind
  <2>2. IInv' /\ reply' = [reply EXCEPT ![r] = answer]
    BY <1>1, <2>1, AnswerStep DEF PCs, TypeOK
  <2> QED BY <2>1, <2>2 DEF Careful, TypeOK
<1>2. ASSUME NEW x \in Candidates(r), want[r] # Status,
             Goes(r, "scan", "signal"),
             target' = [target EXCEPT ![r] = x.id],
             seen' = [seen EXCEPT ![r] = {}],
             steady' = [steady EXCEPT ![r] = {}],
             misled' = misled \ {r},
             UNCHANGED <<want, todo, late, reply, cleared>>
      PROVE  IInv' /\ Careful
  <2>1. UNCHANGED <<enabled, status, locked, active, signals, changes>>
    BY DEF Choose, logind
  <2>2. x \in seen[r] /\ x.id \in Own
    BY DEF Candidates
  <2>3. /\ pc[r] = "scan" /\ pc' = [pc EXCEPT ![r] = "signal"]
    BY <1>2 DEF Goes
  <2>4. want[r] \in {AnySession, x.id}
    BY <1>2, <2>2 DEF NamedInv, TypeOK
  <2>5. TypeOK'
    BY <1>2, <2>1, <2>2, <2>3 DEF TypeOK, PCs, Live, Own
  <2>6. ChosenInv'
    BY <1>2, <2>1, <2>2, <2>3, <2>4 DEF TypeOK, ChosenInv, Own
  <2>7. NamedInv' /\ KnownInv' /\ ClearInv'
    BY <1>2, <2>1, <2>2, <2>3 DEF TypeOK, NamedInv, KnownInv, ClearInv, Live
  <2> QED BY <1>2, <2>1, <2>5, <2>6, <2>7 DEF Careful
<1>3. CASE Candidates(r) = {} /\ Answer(r, "scan", Null(r, "no_session"))
  BY <1>1, <1>3, NullType DEF Replies
<1>4. CASE \E x \in Candidates(r) :
             /\ \A y \in Candidates(r) : ~Outranks(y, x)
             /\ IF want[r] # Status /\ x.locked
                  THEN /\ Goes(r, "scan", "signal")
                       /\ target' = [target EXCEPT ![r] = x.id]
                       /\ seen' = [seen EXCEPT ![r] = {}]
                       /\ steady' = [steady EXCEPT ![r] = {}]
                       /\ misled' = misled \ {r}
                       /\ UNCHANGED <<want, todo, late, reply, cleared>>
                  ELSE Answer(r, "scan", IF want[r] = Status THEN "session" ELSE "already")
  <2>1. PICK x \in Candidates(r) :
               IF want[r] # Status /\ x.locked
                  THEN /\ Goes(r, "scan", "signal")
                       /\ target' = [target EXCEPT ![r] = x.id]
                       /\ seen' = [seen EXCEPT ![r] = {}]
                       /\ steady' = [steady EXCEPT ![r] = {}]
                       /\ misled' = misled \ {r}
                       /\ UNCHANGED <<want, todo, late, reply, cleared>>
                  ELSE Answer(r, "scan", IF want[r] = Status THEN "session" ELSE "already")
    BY <1>4
  <2>2. CASE want[r] # Status /\ x.locked
    BY <1>2, <2>1, <2>2
  <2>3. CASE ~(want[r] # Status /\ x.locked)
    BY <1>1, <2>1, <2>3 DEF Replies
  <2> QED BY <2>2, <2>3
<1> QED
  BY <1>3, <1>4 DEF Choose

\* The only steps that signal are those of a request with a target.
LEMMA SignalStep ==
  ASSUME IInv, NEW r \in Requests, Signal(r) \/ SignalFails(r)
  PROVE  IInv' /\ Careful
<1> USE SessionAssumption DEF IInv
<1>1. CASE Signal(r)
  <2>1. /\ pc[r] = "signal" /\ pc' = [pc EXCEPT ![r] = "poll"]
        /\ target[r] \in Live
        /\ signals' = signals \cup {target[r]}
        /\ cleared' = IF target[r] \in locked THEN cleared ELSE cleared \cup {r}
        /\ UNCHANGED <<enabled, status, locked, active, changes, want, todo, seen, target, late,
                        reply, steady, misled>>
    BY <1>1 DEF Signal, Goes, request
  <2>2. TypeOK'
    BY <2>1 DEF TypeOK, PCs, Live
  <2>3. ChosenInv' /\ NamedInv' /\ KnownInv' /\ ClearInv'
    BY <2>1 DEF TypeOK, ChosenInv, NamedInv, KnownInv, ClearInv, Live, Own
  <2>4. enabled /\ target[r] \in Own /\ want[r] \in {AnySession, target[r]}
    BY <2>1 DEF ChosenInv, Own
  <2> QED BY <2>1, <2>2, <2>3, <2>4 DEF Careful
<1>2. CASE SignalFails(r)
  <2>1. /\ Answer(r, "signal", "unlock_failed")
        /\ UNCHANGED <<enabled, status, locked, active, signals, changes>>
    BY <1>2 DEF SignalFails, logind
  <2>2. IInv' /\ reply' = [reply EXCEPT ![r] = "unlock_failed"]
    BY <2>1, AnswerStep DEF PCs, Replies, TypeOK
  <2> QED BY <2>1, <2>2 DEF Careful, TypeOK
<1> QED
  BY <1>1, <1>2

LEMMA PollStep ==
  ASSUME IInv, NEW r \in Requests, Poll(r) \/ PollFails(r) \/ PollAgain(r) \/ Lapse(r)
  PROVE  IInv' /\ Careful
<1> USE SessionAssumption DEF IInv
<1>1. ASSUME NEW from \in PCs, Answer(r, from, "unlock_failed"), UNCHANGED <<enabled, logind>>
      PROVE  IInv' /\ Careful
  <2>1. UNCHANGED <<enabled, status, locked, active, signals, changes>>
    BY <1>1 DEF logind
  <2>2. IInv' /\ reply' = [reply EXCEPT ![r] = "unlock_failed"]
    BY <1>1, <2>1, AnswerStep DEF Replies, TypeOK
  <2> QED BY <2>1, <2>2 DEF Careful, TypeOK
<1>2. CASE Poll(r)
  <2>1. /\ pc[r] = "poll" /\ target[r] \in Live
        /\ pc' = [pc EXCEPT ![r] = IF target[r] \in locked THEN "look" ELSE "final"]
        /\ UNCHANGED <<enabled, status, locked, active, signals, changes, want, todo, seen,
                        target, late, reply, steady, cleared, misled>>
    BY <1>2 DEF Poll, Goes, logind, request, history
  <2>2. TypeOK'
    BY <2>1 DEF TypeOK, PCs, Live
  <2>3. ChosenInv' /\ NamedInv' /\ KnownInv' /\ ClearInv'
    BY <2>1 DEF TypeOK, ChosenInv, NamedInv, KnownInv, ClearInv, Live, Own
  <2> QED BY <2>1, <2>2, <2>3 DEF Careful
<1>3. CASE PollFails(r)
  BY <1>1, <1>3 DEF PollFails, PCs
<1>4. CASE PollAgain(r)
  <2>1. CASE r \in late
    BY <1>1, <1>4, <2>1 DEF PollAgain, PCs
  <2>2. CASE r \notin late
    <3>1. /\ pc[r] = "look" /\ pc' = [pc EXCEPT ![r] = "poll"]
          /\ UNCHANGED <<enabled, status, locked, active, signals, changes, want, todo, seen,
                          target, late, reply, steady, cleared, misled>>
      BY <1>4, <2>2 DEF PollAgain, Goes, logind, request, history
    <3>2. TypeOK'
      BY <3>1 DEF TypeOK, PCs, Live
    <3>3. ChosenInv' /\ NamedInv' /\ KnownInv' /\ ClearInv'
      BY <3>1 DEF TypeOK, ChosenInv, NamedInv, KnownInv, ClearInv, Live, Own
    <3> QED BY <3>1, <3>2, <3>3 DEF Careful
  <2> QED BY <2>1, <2>2
<1>5. CASE Lapse(r)
  BY <1>5 DEF Lapse, TypeOK, ChosenInv, NamedInv, KnownInv, ClearInv, Careful, Live, Own, logind, history
<1> QED
  BY <1>2, <1>3, <1>4, <1>5

\* A request that reports success has seen the hint of its target clear.
LEMMA ConfirmStep == ASSUME IInv, NEW r \in Requests, Confirm(r) PROVE IInv' /\ Careful
<1>1. /\ Answer(r, "final", "unlocked")
      /\ UNCHANGED <<enabled, status, locked, active, signals, changes>>
  BY DEF Confirm, logind
<1>2. IInv' /\ reply' = [reply EXCEPT ![r] = "unlocked"]
  BY <1>1, AnswerStep DEF PCs, Replies, IInv, TypeOK
<1>3. r \in cleared
  BY <1>1 DEF Answer, Goes, IInv, ClearInv
<1> QED
  BY <1>1, <1>2, <1>3 DEF Careful, IInv, TypeOK

LEMMA LoginctlStep == ASSUME IInv, NEW r \in Requests, LoginctlFails(r) PROVE IInv' /\ Careful
<1> USE SessionAssumption
<1>1. PICK from \in {"list", "scan", "signal", "poll", "final"} :
        Answer(r, from, Null(r, "internal_error"))
  BY DEF LoginctlFails
<1>2. UNCHANGED <<enabled, status, locked, active, changes>>
  BY DEF LoginctlFails
<1>3. signals' = signals \/ /\ pc[r] = "signal" /\ target[r] \in Live
                            /\ signals' = signals \cup {target[r]}
  BY DEF LoginctlFails
<1>4. /\ IInv' /\ reply' = [reply EXCEPT ![r] = Null(r, "internal_error")]
      /\ Null(r, "internal_error") # "unlocked"
  <2>1. signals' \subseteq Live
    BY <1>3 DEF IInv, TypeOK
  <2>2. Null(r, "internal_error") \in {"null", "internal_error"}
    BY NullType
  <2>3. Null(r, "internal_error") \in Replies /\ from \in PCs
    BY <2>2 DEF Replies, PCs
  <2>4. IInv' /\ reply' = [reply EXCEPT ![r] = Null(r, "internal_error")]
    BY <1>1, <1>2, <2>1, <2>3, AnswerStep
  <2> QED BY <2>2, <2>4
<1>5. \A s \in signals' \ signals :
        /\ enabled /\ s \in Own
        /\ target[r] = s /\ want[r] \in {AnySession, s}
  <2>1. pc[r] = "signal" => /\ target[r] \in Own /\ enabled
                            /\ want[r] \in {AnySession, target[r]}
    BY DEF IInv, ChosenInv, Own
  <2> QED BY <1>3, <2>1
<1> QED
  BY <1>4, <1>5 DEF Careful, IInv, TypeOK

-----------------------------------------------------------------------------
(* The specification.                                                      *)

LEMMA NextStep == IInv /\ [Next]_vars => IInv' /\ (Careful \/ UNCHANGED vars)
<1> SUFFICES ASSUME IInv, [Next]_vars PROVE IInv' /\ (Careful \/ UNCHANGED vars)
  OBVIOUS
<1>1. CASE Users
  BY <1>1, UsersStep
<1>2. CASE Lockers
  BY <1>2, LockersStep
<1>3. ASSUME NEW r \in Requests, Arrive(r) \/ Step(r) \/ Lapse(r) PROVE IInv' /\ Careful
  BY <1>3, AskStep, ScanStep, ChooseStep, SignalStep, PollStep, ConfirmStep, LoginctlStep DEF Step
<1>4. CASE UNCHANGED vars
  BY <1>4 DEF vars, logind, request, history, IInv, TypeOK, ChosenInv, NamedInv, KnownInv, ClearInv, Live, Own
<1> QED
  BY <1>1, <1>2, <1>3, <1>4 DEF Next

\* The invariant holds in every behaviour of any number of requests.
THEOREM Invariance == Spec => []IInv
<1>1. Init => IInv
  BY SessionAssumption DEF Init, IInv, TypeOK, ChosenInv, NamedInv, KnownInv, ClearInv, Live, Own, PCs, Replies
<1> QED
  BY <1>1, NextStep, PTL DEF Spec

\* The requests, sessions and signals keep their types.
THEOREM TypesTheorem == Spec => []TypeOK
BY Invariance, PTL DEF IInv

\* No request reports success before the hint of its target has cleared after its
\* signal.
THEOREM ConfirmedTheorem == Spec => ConfirmedMeansCleared
<1>1. IInv /\ [Next]_vars =>
        [\A r \in Requests :
           reply[r] # "unlocked" /\ reply'[r] = "unlocked" => r \in cleared]_vars
  BY NextStep DEF Careful
<1> QED
  BY <1>1, Invariance, PTL DEF Spec, ConfirmedMeansCleared

\* Only sessions of ours are signalled, for a request that chose them or whose caller
\* named them.
THEOREM WantedTheorem == Spec => SignalsWereWanted
<1>1. IInv /\ [Next]_vars =>
        [\A s \in signals' \ signals :
           /\ enabled /\ s \in Own
           /\ \E r \in Requests : target[r] = s /\ want[r] \in {AnySession, s}]_vars
  BY NextStep DEF Careful
<1> QED
  BY <1>1, Invariance, PTL DEF Spec, SignalsWereWanted

-----------------------------------------------------------------------------
(* The choice.  While a request describes sessions, each of ours that has  *)
(* not changed since the list is still to be described, or was described   *)
(* as it is.                                                               *)

AsItIs(s) == [id |-> s, locked |-> s \in locked, active |-> s \in active]

SteadyInv ==
  \A r \in Requests :
    /\ pc[r] # "done" => reply[r] = "none"
    /\ steady[r] \subseteq Live
    /\ r \notin misled /\ pc[r] = "scan" =>
         \A s \in steady[r] \cap Own : s \in todo[r] \/ AsItIs(s) \in seen[r]

\* Users and lockers disturb no session that stays steady.
LEMMA Undisturbed ==
  ASSUME TypeOK, SteadyInv, NEW s \in Sessions,
         steady' = [r \in Requests |-> steady[r] \ {s}],
         status' \in {status, [status EXCEPT ![s] = "live"], [status EXCEPT ![s] = "ended"]},
         locked' \in {locked, locked \ {s}, locked \cup {s}},
         active' \in {active, active \ {s}, active \cup {s}},
         UNCHANGED <<pc, todo, seen, reply, misled>>
  PROVE  SteadyInv'
<1>1. ASSUME NEW t \in Sessions \ {s}
      PROVE  AsItIs(t)' = AsItIs(t) /\ (t \in Live => t \in Live')
  <2>1. /\ t \in locked' <=> t \in locked
        /\ t \in active' <=> t \in active
        /\ status'[t] = status[t]
    BY DEF TypeOK
  <2> QED BY <2>1 DEF AsItIs, Live
<1>2. ASSUME NEW r \in Requests PROVE steady'[r] = steady[r] \ {s} /\ steady[r] \subseteq Sessions
  BY DEF TypeOK
<1> QED
  BY <1>1, <1>2 DEF SteadyInv, Own

LEMMA OthersSteady == TypeOK /\ SteadyInv /\ (Users \/ Lockers) => SteadyInv'
<1> SUFFICES ASSUME TypeOK, SteadyInv, Users \/ Lockers PROVE SteadyInv'
  OBVIOUS
<1>1. ASSUME NEW s \in Own,
             LogIn(s) \/ LogOut(s) \/ Lock(s) \/ UnlockByHand(s) \/ Switch(s)
      PROVE  SteadyInv'
  <2>1. s \in Sessions
    BY DEF Own
  <2>2. /\ steady' = [r \in Requests |-> steady[r] \ {s}]
        /\ UNCHANGED <<pc, todo, seen, reply, misled>>
    BY <1>1 DEF LogIn, LogOut, Lock, UnlockByHand, Cleared, Switch, Change, request
  <2>3. locked' \in {locked, locked \ {s}, locked \cup {s}}
    BY <1>1 DEF LogIn, LogOut, Lock, UnlockByHand, Cleared, Switch
  <2>4. active' \in {active, active \ {s}, active \cup {s}}
    BY <1>1 DEF LogIn, LogOut, Lock, UnlockByHand, Cleared, Switch
  <2>5. status' \in {status, [status EXCEPT ![s] = "live"], [status EXCEPT ![s] = "ended"]}
    BY <1>1 DEF LogIn, LogOut, Lock, UnlockByHand, Cleared, Switch
  <2> QED BY <2>1, <2>2, <2>3, <2>4, <2>5, Undisturbed
<1>2. ASSUME NEW s \in Sessions, LockerUnlocks(s) PROVE SteadyInv'
  BY <1>2, Undisturbed DEF LockerUnlocks, Cleared, Change, request
<1>3. ASSUME NEW s \in Sessions, DropSignal(s) PROVE SteadyInv'
  BY <1>3 DEF DropSignal, request, history, SteadyInv, AsItIs, Live
<1> QED
  BY <1>1, <1>2, <1>3 DEF Users, Lockers

\* A step of a request changes nothing for the others; its own leaves "scan" or
\* describes a session.
LEMMA RequestsSteady ==
  ASSUME TypeOK, SteadyInv, NEW r \in Requests, Arrive(r) \/ Step(r) \/ Lapse(r)
  PROVE  SteadyInv'
<1> USE DEF TypeOK, SteadyInv, AsItIs, Goes, Live, logind, request, history
<1>1. ASSUME NEW from, NEW answer, Answer(r, from, answer), UNCHANGED <<status, locked, active>>
      PROVE  SteadyInv'
  BY <1>1 DEF Answer
<1>2. CASE Arrive(r)
  <2>1. PICK w \in Sessions \cup {AnySession, Status} : Ask(r, w)
    BY <1>2 DEF Arrive
  <2>2. CASE w # Status /\ ~enabled
    BY <1>1, <2>1, <2>2 DEF Ask
  <2>3. CASE ~(w # Status /\ ~enabled)
    BY <2>1, <2>3, SessionAssumption DEF Ask, Own
  <2> QED BY <2>2, <2>3
<1>3. CASE List(r)
  <2>1. PICK classes \in BOOLEAN :
          todo' = [todo EXCEPT ![r] =
                    {s \in Live : Kind[s] # "other" /\ (classes => Kind[s] # "manager")}]
    BY <1>3 DEF List
  <2>2. Live \cap Own \subseteq todo'[r] /\ \A q \in Requests \ {r} : todo'[q] = todo[q]
    BY <2>1 DEF Own
  <2>3. /\ pc' = [pc EXCEPT ![r] = "scan"] /\ pc[r] = "list"
        /\ steady' = [steady EXCEPT ![r] = Live]
        /\ UNCHANGED <<status, locked, active, seen, reply, misled>>
    BY <1>3 DEF List
  <2> QED BY <2>2, <2>3
<1>4. ASSUME NEW s \in todo[r], Describe(r, s) PROVE SteadyInv'
  <2>1. /\ todo' = [todo EXCEPT ![r] = @ \ {s}]
        /\ seen[r] \subseteq seen'[r]
        /\ s \in Live => AsItIs(s) \in seen'[r]
        /\ \A q \in Requests \ {r} : seen'[q] = seen[q]
        /\ pc[r] = "scan" /\ pc' = pc
        /\ UNCHANGED <<status, locked, active, steady, reply, misled>>
    BY <1>4 DEF Describe
  <2> QED BY <2>1
<1>5. ASSUME NEW s \in todo[r], DescribeFails(r, s) PROVE SteadyInv'
  BY <1>5 DEF DescribeFails
<1>6. CASE Choose(r)
  <2>1. CASE \E answer : Answer(r, "scan", answer)
    BY <1>1, <1>6, <2>1 DEF Choose
  <2>2. CASE /\ Goes(r, "scan", "signal")
             /\ steady' = [steady EXCEPT ![r] = {}]
             /\ misled' = misled \ {r}
             /\ seen' = [seen EXCEPT ![r] = {}]
             /\ UNCHANGED <<want, todo, late, reply, cleared>>
    BY <1>6, <2>2 DEF Choose
  <2> QED BY <1>6, <2>1, <2>2 DEF Choose
<1>7. CASE Signal(r)
  BY <1>7 DEF Signal
<1>8. CASE SignalFails(r)
  BY <1>1, <1>8 DEF SignalFails
<1>9. CASE Poll(r)
  BY <1>9 DEF Poll
<1>10. CASE PollFails(r)
  BY <1>1, <1>10 DEF PollFails
<1>11. CASE PollAgain(r)
  <2>1. CASE r \in late
    BY <1>1, <1>11, <2>1 DEF PollAgain
  <2>2. CASE r \notin late
    BY <1>11, <2>2 DEF PollAgain
  <2> QED BY <2>1, <2>2
<1>12. CASE Confirm(r)
  BY <1>1, <1>12 DEF Confirm
<1>13. CASE LoginctlFails(r)
  BY <1>1, <1>13 DEF LoginctlFails
<1>14. CASE Lapse(r)
  BY <1>14 DEF Lapse
<1> QED
  BY <1>2, <1>3, <1>4, <1>5, <1>6, <1>7, <1>8, <1>9, <1>10, <1>11, <1>12, <1>13, <1>14 DEF Step

\* A choice among candidates that hold a steady session as it is: nothing that is
\* not outranked by it stays behind it.
LEMMA SteadyChoice ==
  ASSUME TypeOK, SteadyInv, NEW r \in Requests \ misled, Choose(r), NEW s \in steady[r] \cap Own
  PROVE  /\ reply'[r] \notin {"no_session", "null"}
         /\ want[r] = AnySession /\ s \in locked =>
              /\ pc'[r] = "signal"
              /\ s \in active => ActiveWhenSeen(r, target'[r])
<1>1. pc[r] = "scan" /\ todo[r] = {} /\ reply[r] = "none"
  BY DEF Choose, SteadyInv
<1>2. AsItIs(s) \in Candidates(r)
  <2>1. AsItIs(s) \in seen[r]
    BY <1>1 DEF SteadyInv
  <2>2. AsItIs(s).id = s
    BY DEF AsItIs
  <2> QED BY <2>1, <2>2 DEF Candidates
<1>3. PICK x \in Candidates(r) :
        /\ ~Outranks(AsItIs(s), x)
        /\ IF want[r] # Status /\ x.locked
             THEN /\ Goes(r, "scan", "signal")
                  /\ target' = [target EXCEPT ![r] = x.id]
                  /\ reply' = reply
             ELSE Answer(r, "scan", IF want[r] = Status THEN "session" ELSE "already")
  BY <1>2 DEF Choose
<1>4. x \in seen[r] /\ x \in Infos
  BY DEF Candidates, TypeOK
<1>5. CASE want[r] # Status /\ x.locked
  <2>1. pc'[r] = "signal" /\ target'[r] = x.id /\ reply'[r] = "none"
    BY <1>1, <1>3, <1>5 DEF Goes, TypeOK
  <2>2. s \in locked /\ s \in active => x.active
    BY <1>3, <1>4, <1>5 DEF Outranks, AsItIs, Infos
  <2> QED BY <1>4, <1>5, <2>1, <2>2 DEF ActiveWhenSeen
<1>6. CASE ~(want[r] # Status /\ x.locked)
  <2>1. reply'[r] \in {"session", "already"}
    BY <1>3, <1>6 DEF Answer, TypeOK
  <2>2. s \in locked => x.locked
    BY <1>3, <1>4 DEF Outranks, AsItIs, Infos
  <2> QED BY <1>6, <2>1, <2>2, SessionAssumption
<1> QED
  BY <1>5, <1>6

LEMMA SteadyStep == TypeOK /\ SteadyInv /\ [Next]_vars => SteadyInv'
<1> SUFFICES ASSUME TypeOK, SteadyInv, [Next]_vars PROVE SteadyInv'
  OBVIOUS
<1>1. CASE UNCHANGED vars
  BY <1>1 DEF vars, logind, request, history, SteadyInv, AsItIs, Live
<1> QED
  BY <1>1, OthersSteady, RequestsSteady DEF Next

\* While a session of ours stays as it was, a scan does not come out empty, and a
\* locked one, or a locked and active one, is not passed over.
THEOREM SteadyTheorem == Spec => NothingSteadyMissed
<1>1. Init => SteadyInv
  BY DEF Init, SteadyInv
<1>2. TypeOK /\ SteadyInv /\ [Next]_vars =>
        [\A r \in Requests \ misled :
           Choose(r) => \A s \in steady[r] \cap Own :
             /\ reply'[r] \notin {"no_session", "null"}
             /\ want[r] = AnySession /\ s \in locked =>
                  /\ pc'[r] = "signal"
                  /\ s \in active => ActiveWhenSeen(r, target'[r])]_vars
  BY SteadyChoice
<1> QED
  BY <1>1, <1>2, SteadyStep, TypesTheorem, PTL DEF Spec, NothingSteadyMissed

=============================================================================
