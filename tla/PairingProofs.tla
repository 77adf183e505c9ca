--------------------------- MODULE PairingProofs ---------------------------
(***************************************************************************)
(* Proofs about Pairing, for any set of submissions, any number of windows *)
(* and attempts, with or without approval and database failures; then      *)
(* about PairCLI, with which all that is proved of the manager still       *)
(* holds, for any number of terminals; and about Advertiser, whose flag    *)
(* settles on the manager's state once an event has been heard, for any    *)
(* number of phones, windows and tasks.                                    *)
(***************************************************************************)
EXTENDS PairCLI, Advertiser, TLAPS

-----------------------------------------------------------------------------
(***************************************************************************)
(* The manager: Pairing.                                                   *)
(***************************************************************************)

(* The inductive invariant.                                                *)

\* The manager's fields agree with each other and with the attempts spent.
Shape ==
  /\ window = 0 <=> state = "idle"
  /\ pending = NoSub <=> state # "awaiting"
  /\ ~RequireApproval => pending = NoSub
  /\ window # 0 => /\ window = opened
                   /\ attempts >= 1
                   /\ wrong[window] + attempts = MaxAttempts
  /\ pending # NoSub => won[pending] = window
  /\ \A w \in Windows : wrong[w] <= MaxAttempts /\ (w > opened => wrong[w] = 0)

\* The lock is held across an await only by the submission being persisted.
LockInv ==
  \A s \in Submissions : lock = s <=> pc[s] \in {"persist", "audit"}

\* An undecided waiter is the pending one; a verdict a submission carries is the
\* operator's.
VerdictInv ==
  \A s \in Submissions :
    /\ pc[s] = "parked" /\ decision[s] = "undecided" => pending = s
    /\ decision[s] = "approved" => s \in granted
    /\ decision[s] = "denied" => s \in declined
    /\ pc[s] = "approved" => decision[s] = "approved"
    /\ pc[s] = "denied" => decision[s] = "denied"
    /\ pc[s] = "timedout" => decision[s] # "undecided"
    /\ pc[s] \in {"persist", "audit"} /\ RequireApproval => decision[s] = "approved"

\* What each submission has behind it at each place.
RecordInv ==
  \A s \in Submissions :
    /\ won[s] <= opened
    /\ pc[s] \notin {"ready", "done"} => won[s] # 0 /\ reply[s] = "none"
    /\ pc[s] = "ready" => won[s] = 0 /\ reply[s] = "none"
    /\ pc[s] = "audit" => s \in enrolled
    /\ s \in enrolled => /\ won[s] # 0
                         /\ pc[s] \in {"audit", "done"}
                         /\ RequireApproval => s \in granted
                         /\ reply[s] \in {"none", "paired", "internal_error", "lost"}
    /\ reply[s] = "paired" => s \in enrolled
    /\ reply[s] = "pairing_denied" => s \in declined

\* While an enrollment is pending no other submission is in flight.
DrainedInv ==
  \A s \in Submissions :
    pending # NoSub /\ s # pending => pc[s] \in {"ready", "done"}

\* A window's code is used at most once, and while the window stands its user is
\* the pending submission or holds the lock.
SingleUseInv ==
  RequireApproval \/ ~StoreMayFail =>
    /\ \A s, t \in Submissions : won[s] # 0 /\ won[s] = won[t] => s = t
    /\ \A s \in Submissions :
         won[s] # 0 /\ won[s] = window =>
           IF RequireApproval THEN pending = s ELSE lock = s

IInv ==
  /\ TypeOK
  /\ Shape
  /\ LockInv
  /\ VerdictInv
  /\ RecordInv
  /\ DrainedInv
  /\ SingleUseInv

-----------------------------------------------------------------------------
(* Type correctness.                                                       *)

\* The event lists the manager's steps hand to the listeners are lists of events.
LEMMA EmittedType ==
  /\ << >> \in Seq(Event)
  /\ <<event("pair.opened", NoSub)>> \in Seq(Event)
  /\ <<Closed>> \in Seq(Event)
  /\ \A s \in Submissions : /\ <<event("pair.request", s)>> \in Seq(Event)
                            /\ <<event("pair.completed", s), Closed>> \in Seq(Event)
<1>1. Closed \in Event /\ event("pair.opened", NoSub) \in Event
  BY DEF Closed, Event, event
<1>2. \A s \in Submissions : event("pair.request", s) \in Event /\ event("pair.completed", s) \in Event
  BY DEF Event, event
<1>3. \A e, f \in Event : <<e>> \in Seq(Event) /\ <<e, f>> \in Seq(Event)
  OBVIOUS
<1> QED
  BY <1>1, <1>2, <1>3

\* Tearing a window down leaves the manager's fields and the futures well typed.
LEMMA CloseTypes ==
  ASSUME TypeOK, CloseLocked
  PROVE  /\ state' \in {"idle", "open", "awaiting"}
         /\ window' \in 0 .. MaxWindows
         /\ attempts' \in 0 .. MaxAttempts
         /\ expiry' \in Expiries
         /\ pending' \in Submissions \cup {NoSub}
         /\ decision' \in [Submissions -> {"undecided", "approved", "denied", "cancelled"}]
BY PairingAssumption DEF TypeOK, CloseLocked, NoWindow, ResolvePending, Expiries

\* Every variable of the manager keeps its type over every step of Next.
LEMMA TypeStep == TypeOK /\ [Next]_vars => TypeOK'
<1> SUFFICES ASSUME TypeOK, [Next]_vars PROVE TypeOK'
  OBVIOUS
<1> USE PairingAssumption, EmittedType DEF TypeOK, manager, history, Windows, PCs, Replies, Expiries
<1>1. ASSUME Begin PROVE TypeOK'
  BY <1>1 DEF Begin, LockFree
<1>2. ASSUME TearDown PROVE TypeOK'
  BY <1>2 DEF TearDown, CloseLocked, NoWindow, ResolvePending
<1>3. ASSUME NEW a \in {"approved", "denied"}, Resolve(a) PROVE TypeOK'
  BY <1>3 DEF Resolve
<1>4. ASSUME Lapse PROVE TypeOK'
  BY <1>4 DEF Lapse
<1>5. ASSUME Expire PROVE TypeOK'
  <2>1. CASE state = "open"
    <3>1. CloseLocked /\ emitted' = <<Closed>> /\ UNCHANGED <<lock, pc, reply, enrolled, history>>
      BY <1>5, <2>1 DEF Expire
    <3> QED BY <3>1, CloseTypes
  <2>2. CASE state # "open"
    BY <1>5, <2>2 DEF Expire
  <2> QED BY <2>1, <2>2
<1>6. ASSUME Restart PROVE TypeOK'
  BY <1>6 DEF Restart, NoWindow
<1>7. ASSUME NEW s \in Submissions, Submit(s) PROVE TypeOK'
  <2>1. CASE SubmitRefused(s)
    BY <2>1 DEF SubmitRefused, Answer
  <2>2. CASE SubmitExpired(s)
    BY <2>2 DEF SubmitExpired, Answer, CloseLocked, NoWindow, ResolvePending
  <2>3. ASSUME NEW code \in 0 .. opened, SubmitWrongCode(s, code) PROVE TypeOK'
    <3>1. wrong' \in [Windows -> Nat]
      <4>1. wrong' = [wrong EXCEPT ![window] = wrong[window] + 1]
        BY <2>3 DEF SubmitWrongCode, WrongCode
      <4>2. \A w \in Windows : wrong[w] + 1 \in Nat
        OBVIOUS
      <4> QED BY <4>1, <4>2
    <3>2. pc' \in [Submissions -> PCs] /\ reply' \in [Submissions -> Replies]
      BY <2>3 DEF SubmitWrongCode, WrongCode, Answer
    <3>3. UNCHANGED <<lock, enrolled, opened, won, granted, declined>>
      BY <2>3 DEF SubmitWrongCode, WrongCode
    <3>4. CASE /\ attempts > 1
               /\ attempts' = attempts - 1
               /\ emitted' = << >>
               /\ UNCHANGED <<state, window, expiry, pending, decision>>
      BY <3>1, <3>2, <3>3, <3>4
    <3>5. CASE CloseLocked /\ emitted' = <<Closed>>
      BY <3>1, <3>2, <3>3, <3>5, CloseTypes
    <3> QED BY <2>3, <3>4, <3>5 DEF SubmitWrongCode, WrongCode
  <2>4. CASE SubmitBadProof(s)
    BY <2>4 DEF SubmitBadProof, Answer, CloseLocked, NoWindow, ResolvePending
  <2>5. CASE SubmitAdmitted(s)
    <3>1. /\ won' \in [Submissions -> 0 .. MaxWindows]
          /\ UNCHANGED <<window, attempts, expiry, decision, reply, enrolled, opened,
                         granted, declined, wrong>>
      BY <2>5 DEF SubmitAdmitted
    <3>2. CASE /\ pending' = s
               /\ state' = "awaiting"
               /\ pc' = [pc EXCEPT ![s] = "parked"]
               /\ emitted' = <<event("pair.request", s)>>
               /\ UNCHANGED lock
      BY <3>1, <3>2
    <3>3. CASE /\ lock' = s
               /\ pc' = [pc EXCEPT ![s] = "persist"]
               /\ emitted' = << >>
               /\ UNCHANGED <<pending, state>>
      BY <3>1, <3>3
    <3> QED BY <2>5, <3>2, <3>3 DEF SubmitAdmitted
  <2> QED BY <1>7, <2>1, <2>2, <2>3, <2>4, <2>5 DEF Submit
<1>8. ASSUME NEW s \in Submissions, ApprovalTimeout(s) PROVE TypeOK'
  BY <1>8 DEF ApprovalTimeout, TimerFires
<1>9. ASSUME NEW s \in Submissions, Progress(s) PROVE TypeOK'
  <2>1. CASE Wake(s)
    BY <2>1 DEF Wake, ResumeAs
  <2>2. CASE GiveUp(s)
    BY <2>2 DEF GiveUp, EndUnpaired, Answer, CloseLocked, NoWindow, ResolvePending
  <2>3. CASE Deny(s)
    BY <2>3 DEF Deny, EndUnpaired, Answer, CloseLocked, NoWindow, ResolvePending
  <2>4. CASE Grant(s)
    BY <2>4 DEF Grant
  <2>5. CASE UpsertDevice(s)
    BY <2>5 DEF UpsertDevice
  <2>6. CASE FinishPaired(s)
    BY <2>6 DEF FinishPaired, Answer, CloseLocked, NoWindow, ResolvePending
  <2>7. CASE StoreFails(s)
    BY <2>7 DEF StoreFails, Answer
  <2> QED BY <1>9, <2>1, <2>2, <2>3, <2>4, <2>5, <2>6, <2>7 DEF Progress
<1>10. CASE UNCHANGED vars
  BY <1>10 DEF vars
<1> QED
  BY <1>1, <1>2, <1>3, <1>4, <1>5, <1>6, <1>7, <1>8, <1>9, <1>10
     DEF Next, Operator, Cancel, Shutdown

\* The manager's state, the submissions and the history keep their types.
THEOREM TypeCorrect == Spec => []TypeOK
<1>1. Init => TypeOK
  BY PairingAssumption, EmittedType DEF Init, TypeOK, Windows, PCs, Replies, Expiries
<1> QED
  BY <1>1, TypeStep, PTL DEF Spec
-----------------------------------------------------------------------------
(* The invariant is inductive.                                             *)

\* Every step of the manager keeps the manager's fields, the lock, the verdicts,
\* the records and the use of codes consistent.
LEMMA Inductive == IInv /\ [Next]_vars => IInv'
<1> SUFFICES ASSUME IInv, [Next]_vars PROVE IInv'
  OBVIOUS
<1>0. TypeOK /\ TypeOK'
  BY TypeStep DEF IInv
<1> USE PairingAssumption, <1>0 DEF TypeOK, manager, history, Windows, PCs, Replies, Expiries
<1>1. ASSUME Begin PROVE IInv'
  <2>1. (Shape /\ LockInv /\ VerdictInv /\ RecordInv /\ DrainedInv)'
    BY <1>1 DEF Begin, LockFree, IInv, Shape, LockInv, VerdictInv, RecordInv, DrainedInv
  <2>2. SingleUseInv'
    BY <1>1 DEF Begin, LockFree, IInv, SingleUseInv, RecordInv
  <2> QED BY <2>1, <2>2 DEF IInv
<1>2. ASSUME TearDown PROVE IInv'
  <2>1. (Shape /\ LockInv /\ VerdictInv /\ RecordInv /\ DrainedInv /\ SingleUseInv)'
    BY <1>2
       DEF TearDown, LockFree, CloseLocked, NoWindow, ResolvePending, IInv, Shape, LockInv,
           VerdictInv, RecordInv, DrainedInv, SingleUseInv
  <2> QED BY <2>1 DEF IInv
<1>3. ASSUME NEW a \in {"approved", "denied"}, Resolve(a) PROVE IInv'
  <2>1. (Shape /\ LockInv /\ VerdictInv /\ RecordInv /\ DrainedInv /\ SingleUseInv)'
    BY <1>3
       DEF Resolve, LockFree, IInv, Shape, LockInv, VerdictInv, RecordInv, DrainedInv,
           SingleUseInv
  <2> QED BY <2>1 DEF IInv
<1>4. ASSUME Lapse PROVE IInv'
  <2>1. (Shape /\ LockInv /\ VerdictInv /\ RecordInv /\ DrainedInv /\ SingleUseInv)'
    BY <1>4 DEF Lapse, IInv, Shape, LockInv, VerdictInv, RecordInv, DrainedInv, SingleUseInv
  <2> QED BY <2>1 DEF IInv
<1>5. ASSUME Expire PROVE IInv'
  <2>1. (Shape /\ LockInv /\ RecordInv /\ DrainedInv /\ SingleUseInv)'
    BY <1>5
       DEF Expire, LockFree, CloseLocked, NoWindow, ResolvePending, IInv, Shape, LockInv,
           RecordInv, DrainedInv, SingleUseInv
  <2>2. VerdictInv'
    BY <1>5 DEF Expire, LockFree, CloseLocked, NoWindow, ResolvePending, IInv, VerdictInv, Shape
  <2> QED BY <2>1, <2>2 DEF IInv
<1>6. ASSUME Restart PROVE IInv'
  <2>1. (Shape /\ LockInv /\ VerdictInv /\ RecordInv /\ DrainedInv /\ SingleUseInv)'
    BY <1>6
       DEF Restart, NoWindow, IInv, Shape, LockInv, VerdictInv, RecordInv, DrainedInv,
           SingleUseInv
  <2> QED BY <2>1 DEF IInv
<1>7. ASSUME NEW s \in Submissions, SubmitRefused(s) PROVE IInv'
  <2>1. (Shape /\ LockInv /\ VerdictInv /\ RecordInv /\ DrainedInv /\ SingleUseInv)'
    BY <1>7
       DEF SubmitRefused, LockFree, Answer, IInv, Shape, LockInv, VerdictInv, RecordInv,
           DrainedInv, SingleUseInv
  <2> QED BY <2>1 DEF IInv
<1>8. ASSUME NEW s \in Submissions, SubmitExpired(s) PROVE IInv'
  <2>1. (Shape /\ LockInv /\ RecordInv /\ DrainedInv /\ SingleUseInv)'
    BY <1>8
       DEF SubmitExpired, LockFree, Answer, CloseLocked, NoWindow, ResolvePending, IInv,
           Shape, LockInv, RecordInv, DrainedInv, SingleUseInv
  <2>2. VerdictInv'
    BY <1>8
       DEF SubmitExpired, LockFree, Answer, CloseLocked, NoWindow, ResolvePending, IInv,
           VerdictInv, Shape
  <2> QED BY <2>1, <2>2 DEF IInv
<1>9. ASSUME NEW s \in Submissions, NEW code \in 0 .. opened, SubmitWrongCode(s, code) PROVE IInv'
  <2>1. /\ pc[s] = "ready" /\ LockFree /\ state = "open" /\ window # 0
        /\ wrong' = [wrong EXCEPT ![window] = wrong[window] + 1]
        /\ Answer(s, "invalid_code")
        /\ UNCHANGED <<lock, enrolled, opened, won, granted, declined>>
    BY <1>9 DEF SubmitWrongCode, WrongCode, IInv, Shape
  <2>2. /\ pending = NoSub
        /\ decision' = decision
        /\ \/ /\ attempts > 1
              /\ attempts' = attempts - 1
              /\ UNCHANGED <<state, window, expiry, pending>>
           \/ attempts = 1 /\ NoWindow
    <3>1. pending = NoSub /\ attempts >= 1
      BY <2>1 DEF IInv, Shape
    <3>2. CASE attempts > 1 /\ attempts' = attempts - 1 /\ UNCHANGED <<state, window, expiry, pending, decision>>
      BY <3>1, <3>2
    <3>3. CASE attempts <= 1 /\ CloseLocked
      BY <3>1, <3>3 DEF CloseLocked, ResolvePending
    <3> QED BY <1>9, <3>2, <3>3 DEF SubmitWrongCode, WrongCode
  <2>3. Shape'
    <3>1. window \in Windows
      BY <2>1
    <3>2. /\ window = opened
          /\ attempts >= 1
          /\ wrong[window] + attempts = MaxAttempts
          /\ \A w \in Windows : wrong[w] <= MaxAttempts /\ (w > opened => wrong[w] = 0)
      BY <2>1 DEF IInv, Shape
    <3>3. /\ wrong'[window] = wrong[window] + 1
          /\ \A w \in Windows : w # window => wrong'[w] = wrong[w]
      BY <2>1, <3>1
    <3>4. /\ wrong'[window] <= MaxAttempts
          /\ attempts > 1 => wrong'[window] + (attempts - 1) = MaxAttempts
      <4>1. wrong[window] \in Nat
        <5>1. wrong \in [Windows -> Nat]
          OBVIOUS
        <5> HIDE <1>0 DEF Windows
        <5> QED BY <3>1, <5>1
      <4>2. attempts \in Nat /\ MaxAttempts \in Nat
        OBVIOUS
      <4> HIDE <1>0
      <4> QED BY <3>2, <3>3, <4>1, <4>2
    <3>5. \A w \in Windows : wrong'[w] <= MaxAttempts /\ (w > opened => wrong'[w] = 0)
      <4> HIDE <1>0
      <4>1. \A w \in Windows : w > opened => w # window
        BY <1>0, <3>2
      <4> QED BY <3>2, <3>3, <3>4, <4>1
    <3>6. CASE attempts > 1 /\ attempts' = attempts - 1 /\ UNCHANGED <<state, window, expiry, pending>>
      BY <2>1, <2>2, <3>2, <3>4, <3>5, <3>6 DEF IInv, Shape
    <3>7. CASE attempts = 1 /\ NoWindow
      BY <2>1, <3>5, <3>7 DEF NoWindow, Shape
    <3> QED BY <2>2, <3>6, <3>7
  <2>4. (LockInv /\ VerdictInv /\ RecordInv /\ DrainedInv /\ SingleUseInv)'
    BY <2>1, <2>2
       DEF IInv, LockInv, VerdictInv, RecordInv, DrainedInv, SingleUseInv, LockFree,
           Answer, NoWindow
  <2> QED BY <2>3, <2>4 DEF IInv
<1>10. ASSUME NEW s \in Submissions, SubmitBadProof(s) PROVE IInv'
  <2>1. (Shape /\ LockInv /\ RecordInv /\ DrainedInv /\ SingleUseInv)'
    BY <1>10
       DEF SubmitBadProof, LockFree, Answer, CloseLocked, NoWindow, ResolvePending, IInv,
           Shape, LockInv, RecordInv, DrainedInv, SingleUseInv
  <2>2. VerdictInv'
    BY <1>10
       DEF SubmitBadProof, LockFree, Answer, CloseLocked, NoWindow, ResolvePending, IInv,
           VerdictInv, Shape
  <2> QED BY <2>1, <2>2 DEF IInv
<1>11. ASSUME NEW s \in Submissions, SubmitAdmitted(s) PROVE IInv'
  <2>1. (Shape /\ LockInv)'
    <3>1. Shape'
      BY <1>11 DEF SubmitAdmitted, LockFree, IInv, Shape
    <3>2. LockInv'
      BY <1>11 DEF SubmitAdmitted, LockFree, IInv, LockInv
    <3> QED BY <3>1, <3>2
  <2>2. VerdictInv'
    BY <1>11 DEF SubmitAdmitted, LockFree, CodeShown, IInv, VerdictInv, Shape
  <2>3. RecordInv'
    BY <1>11 DEF SubmitAdmitted, LockFree, CodeShown, IInv, RecordInv, Shape
  <2>4. DrainedInv'
    <3>1. window # 0 /\ pending = NoSub
      BY <1>11 DEF SubmitAdmitted, IInv, Shape
    <3>2. ASSUME RequireApproval, NEW t \in Submissions PROVE pc[t] \in {"ready", "done"}
      <4>1. won[t] # window
        <5>1. won[t] = window => pending = t
          BY <3>1, <3>2 DEF IInv, SingleUseInv
        <5> QED BY <3>1, <5>1
      <4> QED BY <1>11, <4>1 DEF SubmitAdmitted, CodeShown
    <3> QED BY <1>11, <3>1, <3>2 DEF SubmitAdmitted, DrainedInv
  <2>5. SingleUseInv'
    <3>1. /\ window # 0 /\ pending = NoSub /\ lock = NoSub /\ window' = window
          /\ won' = [won EXCEPT ![s] = window]
          /\ IF RequireApproval THEN pending' = s ELSE lock' = s
      BY <1>11 DEF SubmitAdmitted, LockFree, IInv, Shape
    <3> SUFFICES ASSUME RequireApproval \/ ~StoreMayFail PROVE SingleUseInv'
      BY DEF SingleUseInv
    <3>2. /\ \A t \in Submissions : won[t] # window
          /\ \A t, u \in Submissions : won[t] # 0 /\ won[t] = won[u] => t = u
      <4>1. /\ \A t, u \in Submissions : won[t] # 0 /\ won[t] = won[u] => t = u
            /\ \A t \in Submissions :
                 won[t] # 0 /\ won[t] = window => IF RequireApproval THEN pending = t ELSE lock = t
        <5>1. SingleUseInv
          BY DEF IInv
        <5> HIDE <1>0
        <5> QED BY <5>1 DEF SingleUseInv
      <4> HIDE <1>0
      <4>2. \A t \in Submissions : pending # t /\ lock # t
        BY <3>1
      <4> QED BY <3>1, <4>1, <4>2
    <3>3. \A t \in Submissions : won'[t] = IF t = s THEN window ELSE won[t]
      BY <3>1
    <3>4. \A t, u \in Submissions : won'[t] # 0 /\ won'[t] = won'[u] => t = u
      BY <3>2, <3>3
    <3>5. \A t \in Submissions : won'[t] = window' => t = s
      BY <3>1, <3>2, <3>3
    <3> QED BY <3>1, <3>4, <3>5 DEF SingleUseInv
  <2> QED BY <2>1, <2>2, <2>3, <2>4, <2>5 DEF IInv
<1>12. ASSUME NEW s \in Submissions, ApprovalTimeout(s) PROVE IInv'
  <2>1. (Shape /\ LockInv /\ DrainedInv)'
    BY <1>12 DEF ApprovalTimeout, TimerFires, IInv, Shape, LockInv, DrainedInv
  <2>2. SingleUseInv'
    BY <1>12 DEF ApprovalTimeout, TimerFires, IInv, SingleUseInv, LockInv
  <2>3. VerdictInv'
    BY <1>12 DEF ApprovalTimeout, TimerFires, IInv, VerdictInv
  <2>4. RecordInv'
    BY <1>12 DEF ApprovalTimeout, TimerFires, IInv, RecordInv
  <2> QED BY <2>1, <2>2, <2>3, <2>4 DEF IInv
<1>13. ASSUME NEW s \in Submissions, Wake(s) PROVE IInv'
  <2>1. (Shape /\ LockInv /\ SingleUseInv)'
    BY <1>13 DEF Wake, ResumeAs, IInv, Shape, LockInv, SingleUseInv
  <2>2. (VerdictInv /\ DrainedInv)'
    BY <1>13 DEF Wake, ResumeAs, IInv, VerdictInv, DrainedInv
  <2>3. RecordInv'
    BY <1>13 DEF Wake, ResumeAs, IInv, RecordInv
  <2> QED BY <2>1, <2>2, <2>3 DEF IInv
<1>14. ASSUME NEW s \in Submissions, GiveUp(s) PROVE IInv'
  <2>1. (Shape /\ LockInv /\ DrainedInv)'
    BY <1>14
       DEF GiveUp, EndUnpaired, LockFree, Answer, CloseLocked, NoWindow, ResolvePending,
           IInv, Shape, LockInv, DrainedInv
  <2>2. VerdictInv'
    BY <1>14
       DEF GiveUp, EndUnpaired, LockFree, Answer, CloseLocked, NoWindow, ResolvePending,
           IInv, VerdictInv, RecordInv, DrainedInv
  <2>3. RecordInv'
    BY <1>14
       DEF GiveUp, EndUnpaired, LockFree, Answer, CloseLocked, NoWindow, ResolvePending,
           IInv, RecordInv
  <2>4. SingleUseInv'
    BY <1>14
       DEF GiveUp, EndUnpaired, LockFree, Answer, CloseLocked, NoWindow, ResolvePending,
           IInv, Shape, LockInv, SingleUseInv
  <2> QED BY <2>1, <2>2, <2>3, <2>4 DEF IInv
<1>15. ASSUME NEW s \in Submissions, Deny(s) PROVE IInv'
  <2>1. (Shape /\ LockInv /\ DrainedInv /\ SingleUseInv)'
    BY <1>15
       DEF Deny, EndUnpaired, LockFree, Answer, CloseLocked, NoWindow, ResolvePending,
           IInv, Shape, LockInv, DrainedInv, SingleUseInv
  <2>2. VerdictInv'
    BY <1>15
       DEF Deny, EndUnpaired, LockFree, Answer, CloseLocked, NoWindow, ResolvePending,
           IInv, VerdictInv, DrainedInv
  <2>3. RecordInv'
    BY <1>15
       DEF Deny, EndUnpaired, LockFree, Answer, CloseLocked, NoWindow, ResolvePending,
           IInv, RecordInv, VerdictInv
  <2> QED BY <2>1, <2>2, <2>3 DEF IInv
<1>16. ASSUME NEW s \in Submissions, Grant(s) PROVE IInv'
  <2>1. (Shape /\ LockInv /\ VerdictInv /\ RecordInv /\ DrainedInv /\ SingleUseInv)'
    BY <1>16
       DEF Grant, LockFree, IInv, Shape, LockInv, VerdictInv, RecordInv, DrainedInv,
           SingleUseInv
  <2> QED BY <2>1 DEF IInv
<1>17. ASSUME NEW s \in Submissions, UpsertDevice(s) PROVE IInv'
  <2>1. (Shape /\ LockInv /\ VerdictInv /\ DrainedInv /\ SingleUseInv)'
    BY <1>17 DEF UpsertDevice, IInv, Shape, LockInv, VerdictInv, DrainedInv, SingleUseInv
  <2>2. RecordInv'
    BY <1>17 DEF UpsertDevice, IInv, RecordInv, VerdictInv
  <2> QED BY <2>1, <2>2 DEF IInv
<1>18. ASSUME NEW s \in Submissions, FinishPaired(s) PROVE IInv'
  <2>1. (Shape /\ LockInv /\ RecordInv /\ DrainedInv /\ SingleUseInv)'
    BY <1>18
       DEF FinishPaired, Answer, CloseLocked, NoWindow, ResolvePending, IInv, Shape,
           LockInv, RecordInv, DrainedInv, SingleUseInv
  <2>2. VerdictInv'
    BY <1>18
       DEF FinishPaired, Answer, CloseLocked, NoWindow, ResolvePending, IInv, VerdictInv,
           Shape, RecordInv, DrainedInv
  <2> QED BY <2>1, <2>2 DEF IInv
<1>19. ASSUME NEW s \in Submissions, StoreFails(s) PROVE IInv'
  <2>1. (Shape /\ LockInv /\ DrainedInv)'
    BY <1>19 DEF StoreFails, Answer, IInv, Shape, LockInv, DrainedInv
  <2>2. VerdictInv'
    BY <1>19 DEF StoreFails, Answer, IInv, VerdictInv
  <2>3. RecordInv'
    BY <1>19 DEF StoreFails, Answer, IInv, RecordInv
  <2>4. SingleUseInv'
    BY <1>19 DEF StoreFails, Answer, IInv, SingleUseInv, LockInv
  <2> QED BY <2>1, <2>2, <2>3, <2>4 DEF IInv
<1>20. CASE UNCHANGED vars
  BY <1>20 DEF vars, IInv, Shape, LockInv, VerdictInv, RecordInv, DrainedInv, SingleUseInv
<1> QED
  BY <1>1, <1>2, <1>3, <1>4, <1>5, <1>6, <1>7, <1>8, <1>9, <1>10, <1>11, <1>12, <1>13, <1>14, <1>15, <1>16, <1>17, <1>18, <1>19, <1>20
     DEF Next, Operator, Cancel, Shutdown, Submit, Progress

\* The invariant holds in every behaviour of the manager.
THEOREM Invariance == Spec => []IInv
<1>1. Init => TypeOK
  BY PairingAssumption, EmittedType DEF Init, TypeOK, Windows, PCs, Replies, Expiries
<1>2. Init => Shape /\ LockInv /\ VerdictInv /\ RecordInv /\ DrainedInv /\ SingleUseInv
  BY PairingAssumption
     DEF Init, Windows, Shape, LockInv, VerdictInv, RecordInv, DrainedInv, SingleUseInv
<1> QED
  BY <1>1, <1>2, Inductive, PTL DEF Spec, IInv

-----------------------------------------------------------------------------
(* What follows from it.                                                   *)

\* No device row without the code of a window and, where required, the approval.
THEOREM ApprovalTheorem == Spec => []EnrolledWasApproved
<1>1. IInv => EnrolledWasApproved
  BY DEF IInv, TypeOK, RecordInv, EnrolledWasApproved
<1> QED
  BY <1>1, Invariance, PTL

\* A window enrols at most one device, provided that approval is required or the
\* database never fails.
THEOREM SingleUseTheorem == RequireApproval \/ ~StoreMayFail => (Spec => []CodeSingleUse)
<1> SUFFICES ASSUME RequireApproval \/ ~StoreMayFail PROVE Spec => []CodeSingleUse
  OBVIOUS
<1>1. IInv => CodeSingleUse
  BY DEF IInv, TypeOK, RecordInv, SingleUseInv, CodeSingleUse
<1> QED
  BY <1>1, Invariance, PTL

\* Every undecided waiter can still be answered by the operator.
THEOREM NoOrphanTheorem == Spec => []NoOrphanedWaiter
<1>1. IInv => NoOrphanedWaiter
  BY PairingAssumption DEF IInv, TypeOK, Shape, VerdictInv, NoOrphanedWaiter
<1> QED
  BY <1>1, Invariance, PTL

\* Phones and database agree.
THEOREM ReplyTheorem == Spec => []ReplyMatchesStore
<1>1. IInv => ReplyMatchesStore
  BY DEF IInv, TypeOK, RecordInv, ReplyMatchesStore
<1> QED
  BY <1>1, Invariance, PTL

\* No window survives MaxAttempts wrong codes.
THEOREM AttemptsTheorem == Spec => []AttemptsBound
<1>1. IInv => AttemptsBound
  BY PairingAssumption DEF IInv, TypeOK, Windows, Shape, AttemptsBound
<1> QED
  BY <1>1, Invariance, PTL

\* A phone told "denied" was denied, cancelled or shut down.
THEOREM DenialTheorem == Spec => []DeniedMeansDeclined
<1>1. IInv => DeniedMeansDeclined
  BY DEF IInv, RecordInv, DeniedMeansDeclined
<1> QED
  BY <1>1, Invariance, PTL

-----------------------------------------------------------------------------
(* The manager implements Enrollment.                                      *)

\* Where the refinement mapping puts a submission.
LEMMA PhaseOf ==
  \A s \in Submissions :
    Phase[s] = IF s \in enrolled THEN "enrolled"
               ELSE IF pc[s] = "ready" THEN "away"
               ELSE IF pc[s] \in {"done", "denied", "timedout"} THEN "refused"
               ELSE IF pc[s] \in {"approved", "persist", "audit"} THEN "approved"
               ELSE IF decision[s] = "undecided" THEN "offered"
               ELSE IF decision[s] = "approved" THEN "approved" ELSE "refused"
BY DEF Phase

\* Phones that stay where they are, or are refused, make a step of Enrollment.
LEMMA RefuseStep ==
  ASSUME \A s \in Submissions :
           \/ Phase'[s] = Phase[s]
           \/ Phase[s] \in {"away", "offered", "approved"} /\ Phase'[s] = "refused"
  PROVE  E!Next
<1> DEFINE S == {s \in Submissions : Phase'[s] # Phase[s]}
<1>1. Phase' = [s \in Submissions |-> Phase'[s]]
  BY DEF Phase
<1>2. E!Becomes(S, {"away", "offered", "approved"}, "refused")
  BY <1>1 DEF E!Becomes
<1> QED
  BY <1>2 DEF E!Next, E!Refuse

\* One phone that goes on makes a step of Enrollment.
LEMMA BecomesStep ==
  ASSUME NEW s \in Submissions, NEW from, NEW to, Phase[s] \in from, Phase'[s] = to,
         \A t \in Submissions \ {s} : Phase'[t] = Phase[t]
  PROVE  E!Becomes({s}, from, to)
<1>1. Phase' = [t \in Submissions |-> Phase'[t]]
  BY DEF Phase
<1> QED
  BY <1>1 DEF E!Becomes

\* Tearing a window down refuses the pending phone at most, provided it is undecided.
LEMMA CloseRefuses ==
  ASSUME TypeOK, CloseLocked, NEW s \in Submissions, decision'[s] # decision[s]
  PROVE  pending = s /\ decision[s] = "undecided" /\ decision'[s] = "denied"
BY DEF TypeOK, CloseLocked, ResolvePending

\* Without approval nobody waits for a decision, and no decision comes before its wait.
WaitInv ==
  \A s \in Submissions :
    /\ ~RequireApproval => pc[s] \notin {"parked", "approved"}
    /\ pc[s] = "ready" => decision[s] = "undecided"

\* A decision is made only for a phone that waits.
LEMMA WaitStep == IInv /\ WaitInv /\ [Next]_vars => WaitInv'
<1> SUFFICES ASSUME IInv, WaitInv, [Next]_vars PROVE WaitInv'
  OBVIOUS
<1>1. /\ TypeOK
      /\ pending # NoSub => pc[pending] # "ready"
  BY DEF IInv, TypeOK, Shape, RecordInv
<1>2. ASSUME NEW s \in Submissions PROVE ~RequireApproval => pc'[s] \notin {"parked", "approved"}
  BY <1>1 DEF TypeOK, WaitInv, Next, Operator, Begin, Cancel, TearDown, Resolve,
       Shutdown, Lapse, Expire, Restart, Submit, SubmitRefused, SubmitExpired, SubmitWrongCode,
       WrongCode, SubmitBadProof, SubmitAdmitted, ApprovalTimeout, TimerFires, Progress, Wake,
       ResumeAs, GiveUp, Deny, EndUnpaired, Grant, UpsertDevice, FinishPaired, StoreFails,
       Answer, vars
<1>3. ASSUME NEW s \in Submissions, pc'[s] = "ready" PROVE decision'[s] = "undecided"
  <2>1. pc[s] = "ready"
    BY <1>1, <1>3 DEF TypeOK, Next, Operator, Begin, Cancel, TearDown, Resolve,
       Shutdown, Lapse, Expire, Restart, Submit, SubmitRefused, SubmitExpired, SubmitWrongCode,
       WrongCode, SubmitBadProof, SubmitAdmitted, ApprovalTimeout, TimerFires, Progress, Wake,
       ResumeAs, GiveUp, Deny, EndUnpaired, Grant, UpsertDevice, FinishPaired, StoreFails,
       Answer, vars
  <2>2. pending # s
    BY <1>1, <2>1, PairingAssumption
  <2>3. CloseLocked => decision'[s] = decision[s]
    BY <1>1, <2>2, CloseRefuses
  <2>4. decision'[s] = decision[s]
    BY <1>1, <2>1, <2>2, <2>3 DEF TypeOK, Next, Operator, Begin, Cancel, TearDown, Resolve,
       Shutdown, Lapse, Expire, Restart, Submit, SubmitRefused, SubmitExpired, SubmitWrongCode,
       WrongCode, SubmitBadProof, SubmitAdmitted, ApprovalTimeout, TimerFires, Progress, Wake,
       ResumeAs, GiveUp, Deny, EndUnpaired, Grant, UpsertDevice, FinishPaired, StoreFails, vars
  <2> QED BY <2>1, <2>4 DEF WaitInv
<1> QED
  BY <1>2, <1>3 DEF WaitInv

\* Every step of the manager is a step of Enrollment.
LEMMA EnrollmentStep == IInv /\ WaitInv /\ [Next]_vars => [E!Next]_Phase
<1> SUFFICES ASSUME IInv, WaitInv, [Next]_vars PROVE [E!Next]_Phase
  OBVIOUS
<1> DEFINE Stays(s) == Phase'[s] = Phase[s]
           TurnedAway(s) == Phase[s] \in {"away", "offered", "approved"} /\ Phase'[s] = "refused"
<1>0. /\ TypeOK
      /\ \A s \in Submissions : s \in enrolled => pc[s] \in {"audit", "done"}
  BY DEF IInv, RecordInv
<1>a. \A s \in Submissions :
        Phase'[s] = IF s \in enrolled' THEN "enrolled"
                    ELSE IF pc'[s] = "ready" THEN "away"
                    ELSE IF pc'[s] \in {"done", "denied", "timedout"} THEN "refused"
                    ELSE IF pc'[s] \in {"approved", "persist", "audit"} THEN "approved"
                    ELSE IF decision'[s] = "undecided" THEN "offered"
                    ELSE IF decision'[s] = "approved" THEN "approved" ELSE "refused"
  BY DEF Phase
<1> USE PhaseOf, <1>0, <1>a DEF manager, history
<1>1. CASE Begin \/ Lapse
  <2>1. UNCHANGED <<pc, decision, enrolled>>
    BY <1>1 DEF Begin, Lapse
  <2> QED BY <2>1 DEF Phase
<1>2. CASE TearDown
  <2>1. UNCHANGED <<pc, enrolled>> /\ CloseLocked
    BY <1>2 DEF TearDown
  <2>2. \A s \in Submissions : Stays(s) \/ TurnedAway(s)
    BY <2>1, CloseRefuses
  <2> QED BY <2>2, RefuseStep
<1>3. ASSUME Resolve("denied") PROVE E!Next
  <2>1. \A s \in Submissions : Stays(s) \/ TurnedAway(s)
    BY <1>3 DEF Resolve, TypeOK
  <2> QED BY <2>1, RefuseStep
<1>4. ASSUME Resolve("approved") PROVE [E!Next]_Phase
  <2>1. /\ pending \in Submissions
        /\ decision[pending] = "undecided"
        /\ decision' = [decision EXCEPT ![pending] = "approved"]
        /\ UNCHANGED <<pc, enrolled>>
    BY <1>4 DEF Resolve, TypeOK
  <2>2. \A t \in Submissions \ {pending} : Stays(t)
    BY <2>1 DEF TypeOK
  <2>3. CASE Phase[pending] = "offered"
    <3>1. Phase'[pending] = "approved"
      BY <2>1, <2>3 DEF TypeOK
    <3>2. E!Approve(pending)
      BY <2>1, <2>2, <2>3, <3>1, BecomesStep DEF E!Approve
    <3> QED BY <2>1, <3>2 DEF E!Next
  <2>4. CASE Phase[pending] # "offered"
    <3>1. Stays(pending)
      BY <2>1, <2>4 DEF TypeOK
    <3> QED BY <2>2, <3>1, RefuseStep
  <2> QED BY <2>3, <2>4
<1>5. CASE Expire
  <2>1. UNCHANGED <<pc, enrolled>> /\ (CloseLocked \/ UNCHANGED decision)
    BY <1>5 DEF Expire
  <2>2. \A s \in Submissions : Stays(s) \/ TurnedAway(s)
    BY <2>1, CloseRefuses
  <2> QED BY <2>2, RefuseStep
<1>6. CASE Restart
  <2>1. \A s \in Submissions : Stays(s) \/ TurnedAway(s)
    BY <1>6 DEF Restart, TypeOK
  <2> QED BY <2>1, RefuseStep
<1>7. ASSUME NEW s \in Submissions, Submit(s), ~SubmitAdmitted(s) PROVE E!Next
  <2>1. \E r : Answer(s, r) /\ pc[s] = "ready" /\ UNCHANGED enrolled
                /\ (CloseLocked \/ UNCHANGED decision)
    BY <1>7 DEF Submit, SubmitRefused, SubmitExpired, SubmitWrongCode, WrongCode, SubmitBadProof
  <2>2. \A t \in Submissions : Stays(t) \/ TurnedAway(t)
    BY <2>1, CloseRefuses DEF Answer, TypeOK
  <2> QED BY <2>2, RefuseStep
<1>8. ASSUME NEW s \in Submissions, SubmitAdmitted(s) PROVE E!Next
  <2>1. /\ Phase[s] = "away"
        /\ Phase'[s] = IF RequireApproval THEN "offered" ELSE "approved"
    <3>1. /\ pc[s] = "ready" /\ decision'[s] = "undecided" /\ s \notin enrolled'
          /\ s \notin enrolled
          /\ pc'[s] = IF RequireApproval THEN "parked" ELSE "persist"
      BY <1>8, PairingAssumption DEF SubmitAdmitted, TypeOK, WaitInv
    <3> QED BY <3>1
  <2>2. \A t \in Submissions \ {s} : Stays(t)
    <3>1. /\ UNCHANGED <<decision, enrolled>>
          /\ \A t \in Submissions \ {s} : pc'[t] = pc[t]
      BY <1>8 DEF SubmitAdmitted, TypeOK
    <3> QED BY <3>1
  <2>3. \A t \in Submissions : Phase[t] \notin {"offered", "approved"}
    <3>1. /\ LockFree /\ window # 0 /\ pending = NoSub
          /\ \A t \in Submissions : won[t] # window => pc[t] \in {"ready", "done"}
      BY <1>8 DEF SubmitAdmitted, CodeShown, IInv, Shape
    <3>2. \A t \in Submissions : pc[t] \notin {"persist", "audit"}
      BY <3>1, PairingAssumption DEF LockFree, IInv, LockInv
    <3>3. ASSUME RequireApproval, NEW t \in Submissions PROVE pc[t] \in {"ready", "done"}
      <4> HIDE <1>0, <1>a, PhaseOf
      <4>1. won[t] # 0 /\ won[t] = window => pending = t
        BY <3>3 DEF IInv, SingleUseInv
      <4>2. t # NoSub
        BY PairingAssumption
      <4> QED BY <3>1, <4>1, <4>2
    <3>4. ASSUME ~RequireApproval, NEW t \in Submissions PROVE pc[t] \notin {"parked", "approved"}
      BY <3>4 DEF WaitInv
    <3> QED BY <3>2, <3>3, <3>4 DEF TypeOK, PCs
  <2>4. E!Admit(s)
    BY <2>1, <2>2, <2>3, BecomesStep DEF E!Admit
  <2> QED BY <2>4 DEF E!Next
<1>9. ASSUME NEW s \in Submissions, ApprovalTimeout(s) PROVE E!Next
  <2>1. \A t \in Submissions : Stays(t) \/ TurnedAway(t)
    BY <1>9 DEF ApprovalTimeout, TimerFires, TypeOK
  <2> QED BY <2>1, RefuseStep
<1>10. ASSUME NEW s \in Submissions, Wake(s) \/ Grant(s) PROVE E!Next
  <2>1. /\ UNCHANGED <<decision, enrolled>> /\ s \notin enrolled
        /\ \A t \in Submissions \ {s} : pc'[t] = pc[t]
        /\ \/ pc[s] = "parked" /\ decision[s] = "approved" /\ pc'[s] = "approved"
           \/ pc[s] = "parked" /\ decision[s] = "denied" /\ pc'[s] = "denied"
           \/ pc[s] = "approved" /\ pc'[s] = "persist"
    BY <1>10 DEF Wake, ResumeAs, Grant, TypeOK
  <2>2. \A t \in Submissions : Stays(t)
    BY <2>1
  <2> QED BY <2>2, RefuseStep
<1>11. ASSUME NEW s \in Submissions, GiveUp(s) \/ Deny(s) PROVE E!Next
  <2>1. \E r : Answer(s, r) /\ pc[s] \in {"timedout", "denied"} /\ UNCHANGED enrolled
                /\ CloseLocked
    BY <1>11 DEF GiveUp, Deny, EndUnpaired
  <2>2. \A t \in Submissions \ {s} : Stays(t) \/ TurnedAway(t)
    <3>1. \A t \in Submissions \ {s} : pc'[t] = pc[t]
      BY <2>1 DEF Answer, TypeOK
    <3> QED BY <2>1, <3>1, CloseRefuses
  <2>3. Stays(s)
    <3>1. pc'[s] = "done"
      BY <2>1 DEF Answer, TypeOK
    <3> QED BY <2>1, <3>1
  <2> QED BY <2>2, <2>3, RefuseStep
<1>12. ASSUME NEW s \in Submissions, UpsertDevice(s) PROVE E!Next
  <2>1. Phase[s] = "approved" /\ Phase'[s] = "enrolled"
    <3>1. pc[s] = "persist" /\ s \notin enrolled /\ s \in enrolled'
      BY <1>12 DEF UpsertDevice
    <3> QED BY <3>1
  <2>2. \A t \in Submissions \ {s} : Stays(t)
    <3>1. /\ UNCHANGED decision
          /\ \A t \in Submissions \ {s} : pc'[t] = pc[t] /\ (t \in enrolled' <=> t \in enrolled)
      BY <1>12 DEF UpsertDevice, TypeOK
    <3> QED BY <3>1
  <2>3. E!Enroll(s)
    BY <2>1, <2>2, BecomesStep DEF E!Enroll
  <2> QED BY <2>3 DEF E!Next
<1>13. ASSUME NEW s \in Submissions, FinishPaired(s) PROVE E!Next
  <2>1. \E r : Answer(s, r) /\ s \in enrolled /\ UNCHANGED enrolled /\ CloseLocked
    BY <1>13 DEF FinishPaired, IInv, RecordInv
  <2>2. \A t \in Submissions \ {s} : Stays(t) \/ TurnedAway(t)
    <3>1. \A t \in Submissions \ {s} : pc'[t] = pc[t]
      BY <2>1 DEF Answer, TypeOK
    <3> QED BY <2>1, <3>1, CloseRefuses
  <2>3. Stays(s)
    BY <2>1
  <2> QED BY <2>2, <2>3, RefuseStep
<1>14. ASSUME NEW s \in Submissions, StoreFails(s) PROVE E!Next
  <2>1. \A t \in Submissions : Stays(t) \/ TurnedAway(t)
    BY <1>14 DEF StoreFails, Answer, TypeOK
  <2> QED BY <2>1, RefuseStep
<1>15. CASE UNCHANGED vars
  BY <1>15 DEF vars, Phase
<1> QED
  BY <1>1, <1>2, <1>3, <1>4, <1>5, <1>6, <1>7, <1>8, <1>9, <1>10, <1>11, <1>12, <1>13, <1>14,
     <1>15 DEF Next, Operator, Cancel, Shutdown, Progress

\* The manager is an Enrollment, with or without approval, whatever the timers, the
\* database and the operator do.
THEOREM EnrollmentTheorem == Spec => ImplementsEnrollment
<1>1. Init => E!Init
  BY DEF Init, E!Init, Phase
<1>2. Init => WaitInv
  BY DEF Init, WaitInv
<1> QED
  BY <1>1, <1>2, Invariance, WaitStep, EnrollmentStep, PTL DEF Spec, ImplementsEnrollment, E!Spec

-----------------------------------------------------------------------------
(***************************************************************************)
(* Its terminals: PairCLI.                                                 *)
(***************************************************************************)

\* A command of a terminal is an operation of the manager, or changes nothing in it.
LEMMA CommandStep == ASSUME NEW t \in Terminals, RunCommand(t) PROVE [Next]_vars
<1>1. CASE RunBegin(t)
  BY <1>1 DEF RunBegin, Refused, Next, Operator
<1>2. ASSUME NEW name, NEW answer \in {"approved", "denied"}, RunResolve(t, name, answer)
      PROVE  [Next]_vars
  BY <1>2 DEF RunResolve, Refused, Next, Operator
<1>3. CASE RunCancel(t)
  BY <1>3 DEF RunCancel, Next, Operator
<1> QED
  BY <1>1, <1>2, <1>3 DEF RunCommand

\* Every step of the composition is a step of the manager or leaves it alone.
LEMMA CLIStep == [CLINext]_cliVars => [Next]_vars
<1> SUFFICES ASSUME [CLINext]_cliVars PROVE [Next]_vars
  OBVIOUS
<1>1. CASE Manager
  BY <1>1 DEF Manager, Next
<1>2. CASE ServiceRestart
  BY <1>2 DEF ServiceRestart, Next
<1>3. ASSUME NEW t \in Terminals, RunCommand(t) PROVE [Next]_vars
  BY <1>3, CommandStep
<1>4. ASSUME NEW t \in Terminals,
             \/ Start(t) \/ BeginReplied(t) \/ ReadEvent(t) \/ SayYes(t)
             \/ SayNo(t) \/ CallReplied(t) \/ Interrupt(t) \/ Leave(t)
      PROVE  [Next]_vars
  <2>1. UNCHANGED vars
    BY <1>4
       DEF Start, BeginReplied, ReadEvent, SayYes, SayNo, CallReplied, Interrupt, Leave
  <2> QED BY <2>1
<1>5. CASE UNCHANGED cliVars
  BY <1>5 DEF cliVars
<1> QED
  BY <1>1, <1>2, <1>3, <1>4, <1>5 DEF CLINext

\* What holds of the manager alone holds of it with its terminals.
LEMMA Behaves == CLISpec => Spec
<1>1. CLIInit => Init
  BY DEF CLIInit
<1> QED
  BY <1>1, CLIStep, PTL DEF CLISpec, Spec

\* With any number of terminals, and however their prompts are answered, only a
\* phone with a window's code that was approved, where required, is enrolled.
THEOREM TerminalApproval == CLISpec => []EnrolledWasApproved
BY Behaves, ApprovalTheorem, PTL

-----------------------------------------------------------------------------
(* Types.                                                                  *)

\* What the manager emits reaches every queue as events.
LEMMA BroadcastTypes ==
  ASSUME TypeOK', events \in [Terminals -> Seq(Event)], Broadcast
  PROVE  events' \in [Terminals -> Seq(Event)]
<1>1. emitted' \in Seq(Event)
  BY DEF TypeOK
<1> QED
  BY <1>1 DEF Broadcast

\* A prompt shows a phone: the event it was opened for names one.
PromptInv == \A t \in Terminals : place[t] = "prompting" => shown[t] \in Submissions

CLIInv == CLITypeOK /\ PromptInv

\* Every step keeps the types.
LEMMA CLITypeStep == CLIInv /\ TypeOK' /\ [CLINext]_cliVars => CLIInv'
<1> SUFFICES ASSUME CLIInv, TypeOK', [CLINext]_cliVars PROVE CLIInv'
  OBVIOUS
<1> USE DEF CLIInv, PromptInv, CLITypeOK, Places, Moves, Connected
<1>0. began \in [Terminals -> 0 .. MaxWindows] /\ opened' \in 0 .. MaxWindows
  BY DEF TypeOK
<1>1. CASE Manager
  BY <1>1, BroadcastTypes DEF Manager
<1>2. CASE ServiceRestart
  BY <1>2 DEF ServiceRestart
<1>3. ASSUME NEW t \in Terminals, RunCommand(t) PROVE CLIInv'
  <2>1. /\ commands # << >> /\ commands' = Tail(commands)
        /\ UNCHANGED <<place, shown, said>>
    BY <1>3 DEF RunCommand, RunBegin, RunResolve, RunCancel, Executes
  <2>2. commands' \in Seq(Command)
    BY <2>1
  <2>3. Broadcast \/ UNCHANGED events
    BY <1>3 DEF RunCommand, RunBegin, RunResolve, RunCancel, Refused
  <2>4. began' = began \/ began' = [began EXCEPT ![t] = opened']
    BY <1>3 DEF RunCommand, RunBegin, RunResolve, RunCancel, Refused
  <2>5. events' \in [Terminals -> Seq(Event)]
    BY <2>3, BroadcastTypes
  <2> QED BY <1>0, <2>1, <2>2, <2>4, <2>5
<1>4. ASSUME NEW t \in Terminals, NEW name \in {"begin", "approve", "deny", "cancel"},
             Sends(t, name)
      PROVE  commands' \in Seq(Command)
  <2>1. [from |-> t, name |-> name] \in Command
    BY DEF Command
  <2> QED BY <1>4, <2>1 DEF Sends
<1>5. ASSUME NEW t \in Terminals, Start(t) PROVE CLIInv'
  BY <1>4, <1>5 DEF Start
<1>6. ASSUME NEW t \in Terminals, BeginReplied(t) \/ CallReplied(t) \/ Leave(t) PROVE CLIInv'
  BY <1>6 DEF BeginReplied, CallReplied, Leave
<1>7. ASSUME NEW t \in Terminals, ReadEvent(t) PROVE CLIInv'
  <2>1. Head(events[t]) \in Event /\ Tail(events[t]) \in Seq(Event)
    BY <1>7 DEF ReadEvent
  <2>2. /\ Head(events[t]).sub \in Submissions \cup {NoSub}
        /\ Head(events[t]).name = "pair.request" => Head(events[t]).sub \in Submissions
    BY <2>1 DEF Event
  <2> QED BY <1>7, <2>1, <2>2 DEF ReadEvent, After
<1>8. ASSUME NEW t \in Terminals, SayYes(t) PROVE CLIInv'
  BY <1>4, <1>8 DEF SayYes
<1>9. ASSUME NEW t \in Terminals, SayNo(t) PROVE CLIInv'
  BY <1>4, <1>9 DEF SayNo
<1>10. ASSUME NEW t \in Terminals, Interrupt(t) PROVE CLIInv'
  BY <1>4, <1>10 DEF Interrupt
<1>11. CASE UNCHANGED cliVars
  BY <1>11 DEF cliVars, terminal
<1> QED
  BY <1>1, <1>2, <1>3, <1>5, <1>6, <1>7, <1>8, <1>9, <1>10, <1>11 DEF CLINext

\* The types hold when no command has been started.
LEMMA CLIInvInit == TypeOK /\ CLIInit => CLIInv
BY PairingAssumption DEF CLIInit, CLIInv, PromptInv, CLITypeOK, Places

\* The manager and its terminals keep their types.
THEOREM CLITypes == CLISpec => []CLITypeOK
<1>2. CLISpec => []TypeOK
  BY Behaves, TypeCorrect, PTL
<1>3. CLISpec => []CLIInv
  BY CLIInvInit, <1>2, CLITypeStep, PTL DEF CLISpec
<1> QED
  BY <1>3, PTL DEF CLIInv

-----------------------------------------------------------------------------
(* The order of commands, when runs do not overlap.                        *)

Begins(i) == commands[i].name = "begin"

Beginning == \E i \in DOMAIN commands : Begins(i)

\* One run is connected; nothing is queued behind a pair.begin but another one; a run
\* that waits for its pair.begin has the last; one whose window is open has the newest.
AloneInv ==
  \A t, u \in Terminals : Connected(t) /\ Connected(u) => t = u

QueueInv ==
  \A i \in DOMAIN commands :
    /\ place[commands[i].from] # "shell"
    /\ Begins(i) =>
         /\ began[commands[i].from] = 0
         /\ \A j \in DOMAIN commands :
              /\ i < j => Begins(j)
              /\ commands[j] = commands[i] => i = j

RunInv ==
  \A t \in Terminals :
    /\ place[t] = "shell" => began[t] = 0 /\ events[t] = << >>
    /\ place[t] = "beginning" /\ Beginning => commands[Len(commands)].from = t
    /\ Connected(t) /\ place[t] # "beginning" => began[t] # 0
    /\ Connected(t) /\ began[t] # 0 => began[t] = opened /\ ~Beginning

OrderInv == AloneInv /\ QueueInv /\ RunInv

\* A command that is sent is appended to the queue of commands.
LEMMA Sent ==
  ASSUME commands \in Seq(Command), NEW i \in DOMAIN commands
  PROVE  /\ commands[i].from \in Terminals
         /\ commands[i] = [from |-> commands[i].from, name |-> commands[i].name]
<1>1. commands[i] \in Command
  OBVIOUS
<1> QED
  BY <1>1 DEF Command

\* Appending leaves the other commands in their places.
LEMMA Queued ==
  ASSUME commands \in Seq(Command), NEW c \in Command, commands' = Append(commands, c)
  PROVE  /\ Len(commands) \in Nat
         /\ DOMAIN commands = 1 .. Len(commands)
         /\ DOMAIN commands' = 1 .. (Len(commands) + 1)
         /\ commands' # << >>
         /\ Len(commands') = Len(commands) + 1
         /\ commands'[Len(commands) + 1] = c
         /\ \A i \in DOMAIN commands : commands'[i] = commands[i]
OBVIOUS

\* Executing the oldest command moves the others up by one.
LEMMA Dequeued ==
  ASSUME commands \in Seq(Command), commands # << >>, commands' = Tail(commands)
  PROVE  /\ Len(commands) \in Nat \ {0}
         /\ DOMAIN commands = 1 .. Len(commands)
         /\ DOMAIN commands' = 1 .. (Len(commands) - 1)
         /\ Len(commands') = Len(commands) - 1
         /\ Head(commands) = commands[1]
         /\ \A i \in DOMAIN commands' : commands'[i] = commands[i + 1]
OBVIOUS

\* A run sends a command other than pair.begin.
LEMMA OrderSent ==
  ASSUME CLITypeOK, OrderInv, NEW t \in Terminals, NEW name \in {"approve", "deny", "cancel"},
         Connected(t), place[t] # "beginning", Connected(t)',
         place'[t] # "beginning", Sends(t, name),
         \A u \in Terminals \ {t} : place'[u] = place[u],
         UNCHANGED <<opened, events, began>>
  PROVE  OrderInv' /\ ~Beginning'
<1> DEFINE c == [from |-> t, name |-> name]
<1>1. c \in Command /\ commands \in Seq(Command) /\ commands' = Append(commands, c)
  BY DEF Command, CLITypeOK, Sends
<1> HIDE DEF c
<1>2. c.from = t /\ c.name # "begin"
  BY DEF c
<1>3. ~Beginning
  BY DEF OrderInv, RunInv
<1>4. \A i \in DOMAIN commands' : \/ i \in DOMAIN commands /\ commands'[i] = commands[i]
                                 \/ commands'[i] = c
  BY <1>1, Queued
<1>5. ~Beginning'
  BY <1>2, <1>3, <1>4 DEF Beginning, Begins
<1>6. place[t] # "shell" /\ place'[t] # "shell"
  BY DEF Connected
<1>7. AloneInv'
  BY DEF AloneInv, OrderInv, Connected
<1>8. QueueInv'
  <2> SUFFICES ASSUME NEW i \in DOMAIN commands' PROVE place'[commands'[i].from] # "shell"
    <3>1. \A j \in DOMAIN commands' : ~Begins(j)'
      BY <1>5 DEF Beginning
    <3> QED BY <3>1 DEF QueueInv
  <2>1. \A j \in DOMAIN commands : commands[j].from \in Terminals
    BY <1>1, Sent
  <2>2. \A u \in Terminals : place[u] # "shell" => place'[u] # "shell"
    BY <1>6
  <2>3. CASE commands'[i] = c
    BY <1>2, <1>6, <2>3
  <2>4. CASE i \in DOMAIN commands /\ commands'[i] = commands[i]
    BY <2>1, <2>2, <2>4 DEF OrderInv, QueueInv
  <2> QED BY <1>4, <2>3, <2>4
<1>9. RunInv'
  BY <1>5, <1>6 DEF RunInv, OrderInv, Connected
<1> QED
  BY <1>5, <1>7, <1>8, <1>9 DEF OrderInv

\* The service executes the oldest command.
LEMMA OrderExecuted ==
  ASSUME CLITypeOK, TypeOK', OrderInv, NEW t \in Terminals, RunCommand(t)
  PROVE  OrderInv'
<1>1. /\ commands \in Seq(Command) /\ commands # << >> /\ commands' = Tail(commands)
      /\ Head(commands).from = t
      /\ UNCHANGED <<place, shown, said>>
  BY DEF CLITypeOK, RunCommand, RunBegin, RunResolve, RunCancel, Executes
<1>2. /\ \A i \in DOMAIN commands' : i + 1 \in DOMAIN commands /\ commands'[i] = commands[i + 1]
      /\ 1 \in DOMAIN commands /\ Head(commands) = commands[1]
      /\ DOMAIN commands \subseteq Nat /\ DOMAIN commands' \subseteq Nat
  BY <1>1, Dequeued
<1>3. Beginning' => /\ Beginning
                    /\ commands'[Len(commands')] = commands[Len(commands)]
                    /\ Len(commands) \in DOMAIN commands /\ Len(commands) # 1
  BY <1>1, <1>2, Dequeued DEF Beginning, Begins
<1>4. \A i \in DOMAIN commands' : Begins(i)' = Begins(i + 1)
  BY <1>2 DEF Begins
<1>5. AloneInv'
  BY <1>1 DEF AloneInv, OrderInv, Connected
<1>6. \A u \in Terminals : place[u] = "shell" => events'[u] = << >>
  BY <1>1 DEF RunCommand, RunBegin, RunResolve, RunCancel, Broadcast, Refused, OrderInv, RunInv,
              Connected
<1>7. CASE Begins(1) /\ Begin /\ began' = [began EXCEPT ![t] = opened']
  <2>1. Head(commands) = [from |-> t, name |-> "begin"]
    BY <1>1, <1>2, <1>7 DEF RunCommand, RunBegin, RunResolve, RunCancel, Executes, Begins
  <2>2. began \in [Terminals -> 0 .. MaxWindows] /\ began[t] = 0
    BY <1>1, <1>2, <1>7 DEF CLITypeOK, OrderInv, QueueInv
  <2>3. \A i \in DOMAIN commands : i # 1 => commands[i].from \in Terminals \ {t}
    <3> SUFFICES ASSUME NEW i \in DOMAIN commands, i # 1, commands[i].from = t PROVE FALSE
      BY <1>1, Sent
    <3>1. 1 < i /\ Begins(i)
      BY <1>2, <1>7, Dequeued, <1>1 DEF OrderInv, QueueInv
    <3>2. commands[i] = commands[1]
      BY <1>1, <1>2, <2>1, <3>1, Sent DEF Begins
    <3> QED BY <1>2, <1>7, <3>2 DEF OrderInv, QueueInv
  <2>4. QueueInv'
    BY <1>1, <1>2, <1>4, <1>7, <2>2, <2>3 DEF OrderInv, QueueInv
  <2>5. Connected(t) => ~Beginning'
    BY <1>1, <1>2, <1>3, <1>7, <2>2, <2>3 DEF OrderInv, RunInv, Beginning
  <2>6. \A u \in Terminals \ {t} : Connected(u) => began[u] = 0 /\ place[u] = "beginning"
    BY <1>2, <1>7 DEF OrderInv, RunInv, Beginning
  <2>7. place[t] # "shell"
    BY <1>1, <1>2 DEF OrderInv, QueueInv
  <2>8. began'[t] = opened' /\ opened' # 0 /\ \A u \in Terminals \ {t} : began'[u] = began[u]
    BY <1>7, <2>2 DEF Begin, CLITypeOK, TypeOK
  <2>9. RunInv'
    BY <1>1, <1>3, <1>6, <2>5, <2>6, <2>7, <2>8 DEF RunInv, OrderInv, Connected
  <2> QED BY <1>5, <2>4, <2>9 DEF OrderInv
<1>8. CASE began' = began /\ opened' = opened
  <2>1. QueueInv'
    BY <1>1, <1>2, <1>4, <1>8 DEF OrderInv, QueueInv
  <2>2. RunInv'
    BY <1>1, <1>3, <1>6, <1>8 DEF RunInv, OrderInv, Connected
  <2> QED BY <1>5, <2>1, <2>2 DEF OrderInv
<1> QED
  <2>1. CASE RunBegin(t)
    BY <1>2, <1>7, <1>8, <2>1 DEF RunBegin, Executes, Begins, Refused, vars, history
  <2>2. ASSUME NEW name, NEW answer, RunResolve(t, name, answer) PROVE OrderInv'
    BY <1>8, <2>2 DEF RunResolve, Resolve, Refused, vars, history
  <2>3. CASE RunCancel(t)
    BY <1>8, <2>3 DEF RunCancel, Cancel, TearDown
  <2> QED BY <2>1, <2>2, <2>3 DEF RunCommand

\* A run starts when no other is connected.
LEMMA OrderStart ==
  ASSUME ~Shared, CLITypeOK, OrderInv, NEW t \in Terminals, Start(t)
  PROVE  OrderInv'
<1> DEFINE c == [from |-> t, name |-> "begin"]
<1>1. c \in Command /\ commands \in Seq(Command) /\ commands' = Append(commands, c)
  BY DEF Command, CLITypeOK, Start, Sends
<1> HIDE DEF c
<1>2. c.from = t /\ c.name = "begin"
  BY DEF c
<1>3. /\ place[t] = "shell" /\ place' = [place EXCEPT ![t] = "beginning"]
      /\ \A u \in Terminals : ~Connected(u)
      /\ UNCHANGED <<opened, events, began>>
  BY DEF Start, Moves, vars, history
<1>4. /\ place'[t] = "beginning"
      /\ \A u \in Terminals \ {t} : place'[u] = place[u] /\ ~Connected(u)'
  BY <1>3 DEF CLITypeOK, Connected
<1>5. AloneInv'
  BY <1>4 DEF AloneInv
<1>6. \A i \in DOMAIN commands : commands[i].from \in Terminals \ {t}
  BY <1>1, <1>3, Sent DEF OrderInv, QueueInv
<1>7. QueueInv'
  <2>1. \A i \in DOMAIN commands' : i # Len(commands) + 1 => i \in DOMAIN commands /\ i < Len(commands) + 1
    BY <1>1, Queued
  <2>2. \A i \in DOMAIN commands : commands'[i] = commands[i]
    BY <1>1, Queued
  <2>3. commands'[Len(commands) + 1] = c
    BY <1>1, Queued
  <2>4. began'[t] = 0 /\ began' = began
    BY <1>3 DEF OrderInv, RunInv
  <2>5. DOMAIN commands' \subseteq Nat /\ Len(commands) \in Nat
    BY <1>1, Queued
  <2>6. ASSUME NEW i \in DOMAIN commands', i # Len(commands) + 1
        PROVE  /\ place'[commands'[i].from] # "shell"
               /\ commands'[i].name = "begin" =>
                    /\ began'[commands'[i].from] = 0
                    /\ \A j \in DOMAIN commands' :
                         /\ i < j => commands'[j].name = "begin"
                         /\ commands'[j] = commands'[i] => i = j
    <3>1. i \in DOMAIN commands /\ i < Len(commands) + 1
      BY <2>1, <2>6
    <3>2. commands'[i] = commands[i] /\ commands[i].from \in Terminals \ {t}
      BY <1>6, <2>2, <3>1
    <3>3. ASSUME Begins(i), NEW j \in DOMAIN commands'
          PROVE  /\ i < j => commands'[j].name = "begin"
                 /\ commands'[j] = commands'[i] => i = j
      <4>1. CASE j = Len(commands) + 1
        BY <1>2, <2>3, <3>2, <4>1
      <4>2. CASE j # Len(commands) + 1
        BY <2>1, <2>2, <3>1, <3>3, <4>2 DEF OrderInv, QueueInv, Begins
      <4> QED BY <4>1, <4>2
    <3> QED BY <1>4, <2>2, <2>4, <3>1, <3>2, <3>3 DEF OrderInv, QueueInv, Begins
  <2>7. ASSUME NEW j \in DOMAIN commands', j # Len(commands) + 1
        PROVE  j < Len(commands) + 1 /\ commands'[j] # c
    BY <1>2, <1>6, <2>1, <2>2, <2>7
  <2> QED BY <1>2, <1>4, <2>3, <2>4, <2>5, <2>6, <2>7 DEF QueueInv, Begins
<1>8. commands'[Len(commands')].from = t
  BY <1>1, <1>2, Queued
<1>9. RunInv'
  BY <1>3, <1>4, <1>8 DEF RunInv, OrderInv, Connected
<1> QED
  BY <1>5, <1>7, <1>9 DEF OrderInv

\* A run ends, hears or learns something, and the queue of commands stays.
LEMMA OrderKept ==
  ASSUME CLITypeOK, OrderInv, UNCHANGED <<opened, began, commands>>,
         \A t \in Terminals : /\ Connected(t)' => Connected(t)
                              /\ place[t] # "shell" => place'[t] # "shell"
                              /\ place'[t] = "beginning" => place[t] = "beginning"
                              /\ place'[t] # "beginning" /\ place[t] = "beginning" /\ Connected(t)'
                                   => began[t] # 0
                              /\ place'[t] = "shell" => events'[t] = << >>
  PROVE  OrderInv'
<1>1. \A i \in DOMAIN commands : commands[i].from \in Terminals
  BY Sent DEF CLITypeOK
<1>2. AloneInv'
  BY DEF AloneInv, OrderInv
<1>3. QueueInv'
  BY <1>1 DEF QueueInv, OrderInv, Begins
<1>4. RunInv'
  BY DEF RunInv, OrderInv, Beginning, Begins
<1> QED
  BY <1>2, <1>3, <1>4 DEF OrderInv

\* A run whose window is open sends a command.
LEMMA OrderTalk ==
  ASSUME CLITypeOK, OrderInv, NEW t \in Terminals, SayYes(t) \/ SayNo(t) \/ Interrupt(t)
  PROVE  OrderInv' /\ ~Beginning'
<1>1. \E name \in {"approve", "deny", "cancel"} : Sends(t, name)
  BY DEF SayYes, SayNo, Interrupt
<1>2. /\ Connected(t) /\ place[t] # "beginning" /\ Connected(t)' /\ place'[t] # "beginning"
      /\ \A u \in Terminals \ {t} : place'[u] = place[u]
      /\ UNCHANGED <<opened, events, began>>
  BY DEF CLITypeOK, SayYes, SayNo, Interrupt, Moves, Connected, vars, history
<1> QED
  BY <1>1, <1>2, OrderSent

\* The order is kept by every step.
LEMMA OrderStep == ~Shared /\ CLITypeOK /\ TypeOK' /\ OrderInv /\ [CLINext]_cliVars => OrderInv'
<1> SUFFICES ASSUME ~Shared, CLITypeOK, TypeOK', OrderInv, [CLINext]_cliVars PROVE OrderInv'
  OBVIOUS
<1>0. place \in [Terminals -> Places]
  BY DEF CLITypeOK
<1>1. CASE Manager
  <2>1. opened' = opened
    BY <1>1 DEF Manager, Lapse, Expire, Submit, SubmitRefused, SubmitExpired, SubmitWrongCode,
                WrongCode, SubmitBadProof, SubmitAdmitted, ApprovalTimeout, TimerFires, Progress,
                Wake, ResumeAs, GiveUp, Deny, EndUnpaired, Grant, UpsertDevice, FinishPaired,
                StoreFails, history
  <2> QED BY <1>1, <2>1, OrderKept DEF Manager, Broadcast, Connected
<1>2. CASE ServiceRestart
  <2>1. commands' = << >> /\ UNCHANGED <<opened, began>>
    BY <1>2 DEF ServiceRestart, Restart, history
  <2>2. \A t \in Terminals : ~Connected(t)' /\ events'[t] = << >> /\ place'[t] # "beginning"
    BY <1>2 DEF ServiceRestart, Connected
  <2>3. \A t \in Terminals : place'[t] = "shell" => place[t] = "shell"
    BY <1>2 DEF ServiceRestart, Connected
  <2>4. DOMAIN commands' = {}
    BY <2>1
  <2> QED BY <2>1, <2>2, <2>3, <2>4 DEF OrderInv, AloneInv, QueueInv, RunInv, Beginning
<1>3. ASSUME NEW t \in Terminals, RunCommand(t) PROVE OrderInv'
  BY <1>3, OrderExecuted
<1>4. ASSUME NEW t \in Terminals, Start(t) PROVE OrderInv'
  BY <1>4, OrderStart
<1>5. ASSUME NEW t \in Terminals, BeginReplied(t) PROVE OrderInv'
  BY <1>0, <1>5, OrderKept DEF BeginReplied, Moves, Connected, vars, history, OrderInv, RunInv
<1>6. ASSUME NEW t \in Terminals, CallReplied(t) \/ Leave(t) PROVE OrderInv'
  BY <1>0, <1>6, OrderKept DEF CallReplied, Leave, Moves, Connected, vars, history, OrderInv, RunInv
<1>7. ASSUME NEW t \in Terminals, ReadEvent(t) PROVE OrderInv'
  <2>1. events \in [Terminals -> Seq(Event)]
    BY DEF CLITypeOK
  <2> QED BY <1>0, <1>7, <2>1, OrderKept
          DEF ReadEvent, After, Moves, Connected, vars, history, OrderInv, RunInv
<1>8. ASSUME NEW t \in Terminals, SayYes(t) \/ SayNo(t) \/ Interrupt(t) PROVE OrderInv'
  BY <1>8, OrderTalk
<1>9. CASE UNCHANGED cliVars
  BY <1>9, OrderKept DEF cliVars, terminal, vars, history, Connected, OrderInv, RunInv
<1> QED
  BY <1>1, <1>2, <1>3, <1>4, <1>5, <1>6, <1>7, <1>8, <1>9 DEF CLINext

-----------------------------------------------------------------------------
(* The window a command meets, when runs do not overlap.                   *)

\* A command other than pair.begin was sent by the run whose window is the newest.
LatestInv ==
  \A i \in DOMAIN commands : Begins(i) \/ began[commands[i].from] = opened

\* The queue of commands loses its oldest or stays, and no window is opened.
LEMMA LatestKept ==
  ASSUME CLITypeOK, LatestInv, UNCHANGED <<began, opened>>,
         UNCHANGED commands \/ (commands # << >> /\ commands' = Tail(commands))
  PROVE  LatestInv'
<1> SUFFICES ASSUME NEW i \in DOMAIN commands'
             PROVE  commands'[i].name = "begin" \/ began[commands'[i].from] = opened
  BY DEF LatestInv, Begins
<1>1. \E j \in DOMAIN commands : commands'[i] = commands[j]
  <2>1. CASE UNCHANGED commands
    BY <2>1
  <2>2. CASE commands # << >> /\ commands' = Tail(commands)
    <3>1. commands \in Seq(Command)
      BY DEF CLITypeOK
    <3>2. /\ Len(commands) \in Nat /\ i \in 1 .. (Len(commands) - 1)
          /\ DOMAIN commands = 1 .. Len(commands) /\ commands'[i] = commands[i + 1]
      BY <2>2, <3>1, Dequeued
    <3>3. i + 1 \in DOMAIN commands
      BY <3>2
    <3> QED BY <3>2, <3>3
  <2> QED BY <2>1, <2>2
<1> QED
  BY <1>1 DEF LatestInv, Begins

\* A run sends a command: pair.begin, or another one while its window is the newest.
LEMMA LatestSent ==
  ASSUME CLITypeOK, LatestInv, UNCHANGED <<began, opened>>, NEW t \in Terminals,
         NEW name \in {"begin", "approve", "deny", "cancel"}, Sends(t, name),
         name = "begin" \/ began[t] = opened
  PROVE  LatestInv'
<1> DEFINE c == [from |-> t, name |-> name]
<1>1. c \in Command /\ commands \in Seq(Command) /\ commands' = Append(commands, c)
  BY DEF Command, CLITypeOK, Sends
<1>2. c.from = t /\ c.name = name
  OBVIOUS
<1> HIDE DEF c
<1>3. \A i \in DOMAIN commands' : \/ i \in DOMAIN commands /\ commands'[i] = commands[i]
                                 \/ commands'[i] = c
  BY <1>1, Queued
<1> QED
  BY <1>2, <1>3 DEF LatestInv, Begins

\* It is kept by every step: a pair.begin has nothing but others behind it.
LEMMA LatestStep ==
  CLITypeOK /\ OrderInv /\ LatestInv /\ [CLINext]_cliVars => LatestInv'
<1> SUFFICES ASSUME CLITypeOK, OrderInv, LatestInv, [CLINext]_cliVars PROVE LatestInv'
  OBVIOUS
<1>1. CASE Manager
  <2>1. opened' = opened
    BY <1>1 DEF Manager, Lapse, Expire, Submit, SubmitRefused, SubmitExpired, SubmitWrongCode,
                WrongCode, SubmitBadProof, SubmitAdmitted, ApprovalTimeout, TimerFires, Progress,
                Wake, ResumeAs, GiveUp, Deny, EndUnpaired, Grant, UpsertDevice, FinishPaired,
                StoreFails, history
  <2> QED BY <1>1, <2>1, LatestKept DEF Manager
<1>2. CASE ServiceRestart
  <2>1. DOMAIN commands' = {}
    BY <1>2 DEF ServiceRestart
  <2> QED BY <2>1 DEF LatestInv
<1>3. ASSUME NEW t \in Terminals, RunCommand(t) PROVE LatestInv'
  <2>1. commands # << >> /\ commands' = Tail(commands) /\ commands \in Seq(Command)
    BY <1>3 DEF RunCommand, RunBegin, RunResolve, RunCancel, Executes, CLITypeOK
  <2>2. CASE RunBegin(t)
    <3>1. 1 \in DOMAIN commands /\ commands[1].name = "begin"
      BY <2>1, <2>2, Dequeued DEF RunBegin, Executes
    <3>2. ASSUME NEW i \in DOMAIN commands' PROVE commands'[i].name = "begin"
      <4>1. i \in Nat /\ 1 < i + 1 /\ i + 1 \in DOMAIN commands /\ commands'[i] = commands[i + 1]
        BY <2>1, Dequeued
      <4> QED BY <3>1, <4>1 DEF OrderInv, QueueInv, Begins
    <3> QED BY <3>2 DEF LatestInv, Begins
  <2>3. ASSUME NEW name, NEW answer, RunResolve(t, name, answer) PROVE LatestInv'
    BY <2>1, <2>3, LatestKept DEF RunResolve, Resolve, Refused, vars, history
  <2>4. CASE RunCancel(t)
    BY <2>1, <2>4, LatestKept DEF RunCancel, Cancel, TearDown
  <2> QED BY <1>3, <2>2, <2>3, <2>4 DEF RunCommand
<1>4. ASSUME NEW t \in Terminals, Start(t) PROVE LatestInv'
  BY <1>4, LatestSent DEF Start, vars, history
<1>5. ASSUME NEW t \in Terminals,
             BeginReplied(t) \/ ReadEvent(t) \/ CallReplied(t) \/ Leave(t)
      PROVE  LatestInv'
  BY <1>5, LatestKept DEF BeginReplied, ReadEvent, CallReplied, Leave, vars, history
<1>6. ASSUME NEW t \in Terminals, SayYes(t) \/ SayNo(t) \/ Interrupt(t) PROVE LatestInv'
  <2>1. \E name \in {"approve", "deny", "cancel"} : Sends(t, name)
    BY <1>6 DEF SayYes, SayNo, Interrupt
  <2>2. Connected(t) /\ place[t] # "beginning" /\ UNCHANGED <<began, opened>>
    BY <1>6 DEF SayYes, SayNo, Interrupt, Moves, Connected, vars, history
  <2>3. began[t] = opened
    BY <2>2 DEF OrderInv, RunInv
  <2> QED BY <2>1, <2>2, <2>3, LatestSent
<1>7. CASE UNCHANGED cliVars
  BY <1>7, LatestKept DEF cliVars, terminal, vars, history
<1> QED
  BY <1>1, <1>2, <1>3, <1>4, <1>5, <1>6, <1>7 DEF CLINext

\* For any number of runs, phones and windows, and whatever fails: as long as runs do not
\* overlap, what a run has sent meets its own window or none (cmd_pair's pair.cancel).
THEOREM MeetTheorem == ~Shared => (CLISpec => CommandsMeetTheirWindow)
<1> SUFFICES ASSUME ~Shared PROVE CLISpec => CommandsMeetTheirWindow
  OBVIOUS
<1>1. CLISpec => [](IInv /\ TypeOK)
  BY Behaves, Invariance, TypeCorrect, PTL
<1>2. CLISpec => []CLIInv
  BY <1>1, CLIInvInit, CLITypeStep, PTL DEF CLISpec
<1>3. CLIInit => OrderInv /\ LatestInv
  BY DEF CLIInit, OrderInv, AloneInv, QueueInv, RunInv, LatestInv, Connected, Beginning
<1>4. ~Shared /\ CLIInv /\ TypeOK' /\ OrderInv /\ LatestInv /\ [CLINext]_cliVars
        => OrderInv' /\ LatestInv'
  BY OrderStep, LatestStep DEF CLIInv
<1>5. IInv /\ CLIInv /\ LatestInv /\ [CLINext]_cliVars
        => [\A t \in Terminals :
              RunResolve(t, "approve", "approved") \/ RunResolve(t, "deny", "denied")
                \/ RunCancel(t) => window \in {0, began[t]}]_cliVars
  <2> SUFFICES ASSUME IInv, CLIInv, LatestInv, NEW t \in Terminals,
                      \/ RunResolve(t, "approve", "approved")
                      \/ RunResolve(t, "deny", "denied")
                      \/ RunCancel(t)
               PROVE  window \in {0, began[t]}
    OBVIOUS
  <2>1. commands # << >> /\ commands \in Seq(Command)
        /\ Head(commands) \in {[from |-> t, name |-> "approve"], [from |-> t, name |-> "deny"],
                               [from |-> t, name |-> "cancel"]}
    BY DEF RunResolve, RunCancel, Executes, CLIInv, CLITypeOK
  <2>2. 1 \in DOMAIN commands /\ Head(commands) = commands[1]
    BY <2>1
  <2>3. commands[1].from = t /\ commands[1].name # "begin"
    BY <2>1, <2>2
  <2>4. began[t] = opened
    BY <2>2, <2>3 DEF LatestInv, Begins
  <2> QED BY <2>4 DEF IInv, Shape
<1> QED
  BY <1>1, <1>2, <1>3, <1>4, <1>5, PTL DEF CLISpec, CommandsMeetTheirWindow

-----------------------------------------------------------------------------
(* Submissions in flight, when approval is required.                       *)

InFlight(s) == pc[s] \notin {"ready", "done"}

OnlyBegins == \A i \in DOMAIN commands : Begins(i)

\* One phone is in flight at a time, and none while the window takes codes.  While a
\* pair.begin waits, that phone holds the lock, or is parked and nobody answers it.
FlightInv ==
  /\ \A s, t \in Submissions : InFlight(s) /\ InFlight(t) => s = t
  /\ \A s \in Submissions : InFlight(s) => state # "open"
  /\ Beginning =>
       /\ \A s \in Submissions : InFlight(s) =>
            \/ lock = s
            \/ pc[s] = "parked" /\ decision[s] = "undecided" /\ OnlyBegins
       /\ LockFree /\ state = "open" => OnlyBegins

\* A step of the manager that leaves the phones in flight in their places, but for those
\* that are answered, or moves one on that holds the lock.
LEMMA FlightKept ==
  ASSUME FlightInv, TypeOK, TypeOK', state' \in {state, "idle"},
         UNCHANGED commands,
         \A s \in Submissions : InFlight(s)' =>
           /\ InFlight(s)
           /\ Beginning => \/ lock' = s
                           \/ lock # s /\ pc'[s] = pc[s] /\ decision'[s] = decision[s],
         LockFree' => LockFree \/ state' # "open"
  PROVE  FlightInv'
<1>1. Beginning' = Beginning /\ OnlyBegins' = OnlyBegins
  BY DEF Beginning, OnlyBegins, Begins
<1> QED
  BY <1>1 DEF FlightInv

\* The manager's own steps keep it.
LEMMA FlightManager ==
  ASSUME RequireApproval, IInv, TypeOK', WaitInv, FlightInv, Manager
  PROVE  FlightInv'
<1>1. commands' = commands /\ TypeOK
  BY DEF Manager, IInv
<1>2. \A s \in Submissions : /\ lock = s <=> pc[s] \in {"persist", "audit"}
                             /\ lock # NoSub /\ InFlight(s) => lock = s
  <2> SUFFICES ASSUME NEW s \in Submissions, lock # NoSub, InFlight(s) PROVE lock = s
    BY DEF IInv, LockInv
  <2>1. lock \in Submissions /\ pc[lock] \in {"persist", "audit"}
    BY DEF IInv, TypeOK, LockInv
  <2> QED BY <2>1 DEF FlightInv, InFlight
<1>3. state = "open" => pending = NoSub
  BY DEF IInv, Shape
<1>4. \A s \in Submissions : Beginning /\ InFlight(s) =>
        \/ lock = s
        \/ pc[s] = "parked" /\ decision[s] = "undecided" /\ LockFree
  BY <1>2 DEF FlightInv, LockFree
<1>5. CASE Lapse
  BY <1>1, <1>4, <1>5, FlightKept DEF Lapse, InFlight, LockFree
<1>6. CASE Expire
  BY <1>1, <1>3, <1>4, <1>6, FlightKept
     DEF Expire, CloseLocked, NoWindow, ResolvePending, InFlight, LockFree
<1>7. ASSUME NEW s \in Submissions, SubmitAdmitted(s) PROVE FlightInv'
  <2>1. /\ pc[s] = "ready" /\ pc' = [pc EXCEPT ![s] = "parked"]
        /\ lock' = lock /\ LockFree /\ state = "open" /\ state' = "awaiting"
        /\ decision' = decision /\ decision[s] = "undecided"
    BY <1>7 DEF SubmitAdmitted, WaitInv
  <2>2. \A t \in Submissions : ~InFlight(t)
    BY <2>1 DEF FlightInv
  <2>3. Beginning' = Beginning /\ OnlyBegins' = OnlyBegins /\ (Beginning => OnlyBegins)
    BY <1>1, <2>1 DEF Beginning, OnlyBegins, Begins, FlightInv
  <2>4. \A t \in Submissions : InFlight(t)' => t = s
    BY <1>1, <2>1, <2>2 DEF InFlight, TypeOK
  <2>5. pc'[s] = "parked" /\ decision'[s] = "undecided"
    BY <1>1, <2>1 DEF TypeOK
  <2> QED BY <2>1, <2>3, <2>4, <2>5 DEF FlightInv
<1>8. ASSUME NEW s \in Submissions,
             \/ SubmitRefused(s) \/ SubmitExpired(s) \/ SubmitBadProof(s)
             \/ \E code \in 0 .. opened : SubmitWrongCode(s, code)
      PROVE  FlightInv'
  <2>1. /\ pc' = [pc EXCEPT ![s] = "done"] /\ lock' = lock /\ state' \in {state, "idle"}
        /\ decision' = decision \/ (state = "open" /\ CloseLocked)
    BY <1>8 DEF SubmitRefused, SubmitExpired, SubmitBadProof, SubmitWrongCode, WrongCode,
                CloseLocked, NoWindow, Answer, manager
  <2>2. decision' = decision
    BY <1>3, <2>1 DEF CloseLocked, ResolvePending
  <2> QED BY <1>1, <1>4, <2>1, <2>2, FlightKept DEF InFlight, LockFree, TypeOK
<1>9. ASSUME NEW s \in Submissions, Served, ApprovalTimeout(s) PROVE FlightInv'
  <2>1. /\ pc[s] = "parked" /\ pc' = [pc EXCEPT ![s] = "timedout"] /\ state' = state
        /\ lock # s /\ lock' = lock
    BY <1>2, <1>9 DEF ApprovalTimeout, TimerFires, manager
  <2>2. ~Beginning
    <3>1. Beginning => commands # << >>
      BY DEF Beginning
    <3> QED BY <1>2, <1>4, <1>9, <2>1, <3>1 DEF Served, LockFree, InFlight
  <2> QED BY <1>1, <2>1, <2>2, FlightKept DEF InFlight, LockFree, TypeOK
<1>10. ASSUME NEW s \in Submissions, Wake(s) PROVE FlightInv'
  <2>1. /\ pc[s] = "parked" /\ pc' = [pc EXCEPT ![s] = decision[s]]
        /\ decision[s] # "undecided" /\ UNCHANGED <<state, lock, decision>>
    BY <1>10 DEF Wake, ResumeAs, manager
  <2>2. ~Beginning
    BY <1>2, <1>4, <2>1 DEF InFlight
  <2> QED BY <1>1, <2>1, <2>2, FlightKept DEF InFlight, LockFree, TypeOK
<1>11. ASSUME NEW s \in Submissions, GiveUp(s) \/ Deny(s) PROVE FlightInv'
  <2>1. /\ pc[s] \in {"timedout", "denied"} /\ pc' = [pc EXCEPT ![s] = "done"]
        /\ LockFree /\ lock' = lock /\ state' = "idle"
    BY <1>11 DEF GiveUp, Deny, EndUnpaired, Answer, CloseLocked, NoWindow
  <2>2. \A t \in Submissions : ~InFlight(t)'
    BY <1>1, <2>1 DEF InFlight, FlightInv, TypeOK
  <2> QED BY <1>1, <2>1, <2>2, FlightKept DEF LockFree
<1>12. ASSUME NEW s \in Submissions, Grant(s) PROVE FlightInv'
  <2>1. /\ pc[s] = "approved" /\ pc' = [pc EXCEPT ![s] = "persist"] /\ lock' = s
        /\ state' = state
    BY <1>12 DEF Grant, manager
  <2>2. \A t \in Submissions : InFlight(t)' => t = s /\ InFlight(t)
    BY <1>1, <2>1 DEF InFlight, FlightInv, TypeOK
  <2>3. ~LockFree'
    BY <2>1, PairingAssumption DEF LockFree
  <2> QED BY <1>1, <2>1, <2>2, <2>3, FlightKept
<1>13. ASSUME NEW s \in Submissions, UpsertDevice(s) \/ FinishPaired(s) \/ StoreFails(s)
       PROVE  FlightInv'
  <2>1. /\ pc[s] \in {"persist", "audit"} /\ lock = s /\ state' \in {state, "idle"}
        /\ \/ pc' = [pc EXCEPT ![s] = "audit"] /\ lock' = lock
           \/ pc' = [pc EXCEPT ![s] = "done"]
    BY <1>2, <1>13 DEF UpsertDevice, FinishPaired, StoreFails, Answer, CloseLocked, NoWindow, manager
  <2>2. \A t \in Submissions : InFlight(t)' => t = s /\ InFlight(t) /\ lock' = s
    BY <1>1, <2>1 DEF InFlight, FlightInv, TypeOK
  <2>3. state' # "open"
    BY <2>1 DEF FlightInv, InFlight
  <2> QED BY <1>1, <2>1, <2>2, <2>3, FlightKept
<1> QED
  BY <1>5, <1>6, <1>7, <1>8, <1>9, <1>10, <1>11, <1>12, <1>13 DEF Manager, Submit, Progress

\* So do the commands: the one that opens a window finds nobody in flight.
LEMMA FlightExecuted ==
  ASSUME IInv, CLITypeOK, OrderInv, FlightInv, NEW t \in Terminals, RunCommand(t)
  PROVE  FlightInv'
<1>1. /\ commands \in Seq(Command) /\ commands # << >> /\ commands' = Tail(commands)
      /\ commands[1] = Head(commands)
  BY DEF CLITypeOK, RunCommand, RunBegin, RunResolve, RunCancel, Executes
<1>2. /\ \A i \in DOMAIN commands' : i + 1 \in DOMAIN commands /\ commands'[i] = commands[i + 1]
      /\ 1 \in DOMAIN commands /\ \A i \in DOMAIN commands : i # 1 => 1 < i
  BY <1>1, Dequeued
<1>3. /\ Beginning' => Beginning
      /\ OnlyBegins => OnlyBegins'
      /\ Begins(1) => Beginning /\ OnlyBegins
  BY <1>2 DEF Beginning, OnlyBegins, Begins, OrderInv, QueueInv
<1>4. ASSUME LockFree, NEW s \in Submissions, InFlight(s), Beginning
      PROVE  OnlyBegins /\ state = "awaiting"
  BY <1>4, PairingAssumption DEF FlightInv, LockFree, IInv, VerdictInv, Shape
<1>5. CASE UNCHANGED vars
  BY <1>3, <1>5 DEF vars, manager, FlightInv, InFlight, LockFree
<1>6. CASE RunBegin(t) /\ Begin
  <2>1. Begins(1) /\ LockFree /\ state = "idle" /\ pc' = pc
    BY <1>1, <1>6 DEF RunBegin, Executes, Begins, Begin
  <2>2. \A s \in Submissions : ~InFlight(s)
    BY <1>3, <1>4, <2>1
  <2> QED BY <1>3, <2>1, <2>2 DEF FlightInv, InFlight
<1>7. CASE ~Begins(1) /\ LockFree /\ pc' = pc /\ state' # "open"
  <2>1. Beginning' => \A s \in Submissions : ~InFlight(s)
    BY <1>2, <1>3, <1>4, <1>7 DEF OnlyBegins
  <2> QED BY <1>7, <2>1 DEF FlightInv, InFlight
<1> QED
  <2>1. CASE RunBegin(t)
    BY <1>5, <1>6, <2>1 DEF RunBegin, Refused
  <2>2. ASSUME NEW name \in {"approve", "deny"}, NEW answer, RunResolve(t, name, answer)
        PROVE  FlightInv'
    BY <1>1, <1>5, <1>7, <2>2 DEF RunResolve, Executes, Begins, Resolve, Refused, manager
  <2>3. CASE RunCancel(t)
    BY <1>1, <1>7, <2>3 DEF RunCancel, Executes, Begins, Cancel, TearDown, CloseLocked, NoWindow
  <2> QED BY <2>1, <2>2, <2>3 DEF RunCommand

\* And a run that starts.
LEMMA FlightStart ==
  ASSUME IInv, CLITypeOK, FlightInv, NEW t \in Terminals, Start(t)
  PROVE  FlightInv'
<1> DEFINE c == [from |-> t, name |-> "begin"]
<1>1. /\ c \in Command /\ commands \in Seq(Command) /\ commands' = Append(commands, c)
      /\ UNCHANGED vars /\ Settled
  BY DEF Command, CLITypeOK, Start, Sends
<1>2. LockFree => OnlyBegins'
  <2>1. commands = << >> => \A i \in DOMAIN commands' : commands'[i] = c
    BY <1>1
  <2> QED BY <1>1, <2>1 DEF Settled, OnlyBegins, Begins
<1>3. ASSUME NEW s \in Submissions, InFlight(s), ~LockFree PROVE lock = s
  <2>1. lock \in Submissions /\ pc[lock] \in {"persist", "audit"}
    BY <1>3 DEF IInv, TypeOK, LockInv, LockFree
  <2> QED BY <1>3, <2>1 DEF FlightInv, InFlight
<1> QED
  BY <1>1, <1>2, <1>3 DEF FlightInv, Settled, InFlight, LockFree, vars, manager

\* It is kept by every step.
LEMMA FlightStep ==
  /\ ~Shared /\ RequireApproval /\ IInv /\ TypeOK' /\ WaitInv /\ CLITypeOK /\ OrderInv /\ FlightInv
  /\ [CLINext]_cliVars
  => FlightInv'
<1> SUFFICES ASSUME ~Shared, RequireApproval, IInv, TypeOK', WaitInv, CLITypeOK, OrderInv, FlightInv,
                    [CLINext]_cliVars
             PROVE  FlightInv'
  OBVIOUS
<1>0. ASSUME UNCHANGED vars, UNCHANGED commands \/ ~Beginning' PROVE FlightInv'
  BY <1>0 DEF vars, manager, FlightInv, InFlight, LockFree, Beginning, OnlyBegins, Begins
<1>1. CASE Manager
  BY <1>1, FlightManager
<1>2. CASE ServiceRestart
  <2>1. DOMAIN commands' = {} /\ state' = "idle"
    BY <1>2 DEF ServiceRestart, Restart, NoWindow
  <2>2. \A s \in Submissions : ~InFlight(s)'
    BY <1>2 DEF ServiceRestart, Restart, InFlight
  <2> QED BY <2>1, <2>2 DEF FlightInv, Beginning
<1>3. ASSUME NEW t \in Terminals, RunCommand(t) PROVE FlightInv'
  BY <1>3, FlightExecuted
<1>4. ASSUME NEW t \in Terminals, Start(t) PROVE FlightInv'
  BY <1>4, FlightStart
<1>5. ASSUME NEW t \in Terminals, BeginReplied(t) \/ ReadEvent(t) \/ CallReplied(t) \/ Leave(t)
      PROVE  FlightInv'
  BY <1>0, <1>5 DEF BeginReplied, ReadEvent, CallReplied, Leave
<1>6. ASSUME NEW t \in Terminals, SayYes(t) \/ SayNo(t) \/ Interrupt(t) PROVE FlightInv'
  BY <1>0, <1>6, OrderTalk DEF SayYes, SayNo, Interrupt
<1>7. CASE UNCHANGED cliVars
  BY <1>0, <1>7 DEF cliVars, terminal
<1> QED
  BY <1>1, <1>2, <1>3, <1>4, <1>5, <1>6, <1>7 DEF CLINext

-----------------------------------------------------------------------------
(* What is approved was shown.                                             *)

Asks(e) == e.name = "pair.request"

Waits(t) == \E i \in DOMAIN commands : Begins(i) /\ commands[i].from = t

\* A run whose window is open hears of the phones of that window only; a run that hears
\* of one before will find the window taken; an answer is for a phone of the newest.
HeardInv ==
  \A t \in Terminals :
    /\ Connected(t) /\ began[t] # 0 =>
         \A i \in DOMAIN events[t] : Asks(events[t][i]) => won[events[t][i].sub] = began[t]
    /\ place[t] = "prompting" => won[shown[t]] = began[t]
    /\ Connected(t) /\ Waits(t) /\ (\E i \in DOMAIN events[t] : Asks(events[t][i])) =>
         \E s \in Submissions : pc[s] = "parked"

AnswerInv ==
  \A i \in DOMAIN commands :
    commands[i].name = "approve" => \E s \in said : won[s] = opened

ShownInv == HeardInv /\ AnswerInv /\ ApprovedWasShown

\* What is in a connection's queue was there, or has just been emitted.
LEMMA Heard ==
  ASSUME CLITypeOK, TypeOK', Broadcast, NEW t \in Terminals, Connected(t),
         NEW i \in DOMAIN events'[t]
  PROVE  \/ i \in DOMAIN events[t] /\ events'[t][i] = events[t][i]
         \/ \E j \in DOMAIN emitted' : events'[t][i] = emitted'[j]
<1>1. events[t] \in Seq(Event) /\ emitted' \in Seq(Event)
  BY DEF CLITypeOK, TypeOK
<1>2. events'[t] = events[t] \o emitted'
  BY DEF Broadcast
<1>3. CASE i <= Len(events[t])
  BY <1>1, <1>2, <1>3
<1>4. CASE i > Len(events[t])
  <2>1. i - Len(events[t]) \in DOMAIN emitted' /\ events'[t][i] = emitted'[i - Len(events[t])]
    BY <1>1, <1>2, <1>4
  <2> QED BY <2>1
<1> QED
  BY <1>1, <1>2, <1>3, <1>4

\* Only an admitted phone is announced as a request.
LEMMA Announced ==
  ASSUME Manager
  PROVE  /\ UNCHANGED <<opened, granted, place, commands, shown, began, said>>
         /\ Broadcast
         /\ \/ won' = won /\ \A j \in DOMAIN emitted' : ~Asks(emitted'[j])
            \/ \E s \in Submissions : SubmitAdmitted(s)
<1>1. Broadcast /\ UNCHANGED <<place, commands, shown, began, said>>
  BY DEF Manager
<1> DEFINE Q == /\ UNCHANGED <<opened, granted, won>>
                /\ \A j \in DOMAIN emitted' : ~Asks(emitted'[j])
<1>2. ASSUME emitted' = << >> \/ emitted' = <<Closed>>
      PROVE  \A j \in DOMAIN emitted' : ~Asks(emitted'[j])
  BY <1>2 DEF Closed, event, Asks
<1>3. ASSUME Lapse \/ Expire PROVE Q
  BY <1>2, <1>3 DEF Lapse, Expire, history
<1>4. ASSUME NEW s \in Submissions, Submit(s), ~SubmitAdmitted(s) PROVE Q
  BY <1>2, <1>4 DEF Submit, SubmitRefused, SubmitExpired, SubmitWrongCode, WrongCode, SubmitBadProof,
                    history
<1>5. ASSUME NEW s \in Submissions, ApprovalTimeout(s) PROVE Q
  BY <1>2, <1>5 DEF ApprovalTimeout, TimerFires, history
<1>6. ASSUME NEW s \in Submissions, Progress(s), ~FinishPaired(s) PROVE Q
  BY <1>2, <1>6 DEF Progress, Wake, ResumeAs, GiveUp, Deny, EndUnpaired, Grant, UpsertDevice,
                    StoreFails, history
<1>7. ASSUME NEW s \in Submissions, FinishPaired(s) PROVE Q
  BY <1>7 DEF FinishPaired, history, event, Closed, Asks
<1>8. ASSUME NEW s \in Submissions, SubmitAdmitted(s) PROVE UNCHANGED <<opened, granted>>
  BY <1>8 DEF SubmitAdmitted
<1> QED
  BY <1>1, <1>3, <1>4, <1>5, <1>6, <1>7, <1>8 DEF Manager

\* While a pair.begin waits nobody answers a parked phone.
LEMMA ParkedStays ==
  ASSUME IInv, FlightInv, Manager, Beginning, NEW s \in Submissions, pc[s] = "parked"
  PROVE  pc'[s] = "parked"
<1>1. TypeOK /\ lock # s /\ (lock # NoSub => lock \in Submissions /\ InFlight(lock))
  BY DEF IInv, TypeOK, LockInv, InFlight
<1>2. decision[s] = "undecided" /\ LockFree
  BY <1>1 DEF FlightInv, InFlight, LockFree
<1>3. ~Served
  BY <1>2 DEF Served, Beginning
<1>4. ASSUME NEW t \in Submissions, Submit(t) PROVE pc'[s] = "parked"
  BY <1>1, <1>4 DEF TypeOK, Submit, SubmitRefused, SubmitExpired, SubmitWrongCode, WrongCode,
                    SubmitBadProof, SubmitAdmitted, Answer
<1>5. ASSUME NEW t \in Submissions, Progress(t) PROVE pc'[s] = "parked"
  BY <1>1, <1>2, <1>5 DEF TypeOK, Progress, Wake, ResumeAs, GiveUp, Deny, EndUnpaired, Answer, Grant,
                          UpsertDevice, FinishPaired, StoreFails
<1> QED
  BY <1>3, <1>4, <1>5 DEF Manager, Lapse, Expire

\* The manager's own steps keep what was shown ahead of what is granted.
LEMMA ShownManager ==
  ASSUME RequireApproval, IInv, TypeOK', CLIInv, OrderInv, FlightInv, ShownInv, Manager
  PROVE  ShownInv'
<1>1. /\ UNCHANGED <<opened, granted, place, commands, shown, began, said>> /\ Broadcast
      /\ \/ won' = won /\ \A j \in DOMAIN emitted' : ~Asks(emitted'[j])
         \/ \E s \in Submissions : SubmitAdmitted(s)
  BY Announced
<1>2. /\ \A t \in Terminals : Connected(t)' = Connected(t) /\ Waits(t)' = Waits(t)
      /\ Beginning' = Beginning
      /\ \A t \in Terminals : Waits(t) => Beginning
  BY <1>1 DEF Connected, Waits, Beginning, Begins
<1>3. ApprovedWasShown'
  BY <1>1 DEF ShownInv, ApprovedWasShown
<1>4. CLITypeOK /\ PromptInv
  BY DEF CLIInv
<1>5. CASE won' = won /\ \A j \in DOMAIN emitted' : ~Asks(emitted'[j])
  <2>1. AnswerInv'
    BY <1>1, <1>5 DEF ShownInv, AnswerInv
  <2>2. ASSUME NEW t \in Terminals, Connected(t), NEW i \in DOMAIN events'[t], Asks(events'[t][i])
        PROVE  i \in DOMAIN events[t] /\ events'[t][i] = events[t][i]
    BY <1>1, <1>4, <1>5, <2>2, Heard
  <2>3. HeardInv'
    BY <1>1, <1>2, <1>5, <2>2, ParkedStays DEF ShownInv, HeardInv
  <2> QED BY <1>3, <2>1, <2>3 DEF ShownInv
<1>6. ASSUME NEW s \in Submissions, SubmitAdmitted(s) PROVE ShownInv'
  <2>1. /\ pc[s] = "ready" /\ state = "open" /\ won' = [won EXCEPT ![s] = window]
        /\ pc' = [pc EXCEPT ![s] = "parked"] /\ emitted' = <<event("pair.request", s)>>
    BY <1>6 DEF SubmitAdmitted
  <2>2. /\ won[s] = 0 /\ window = opened /\ opened # 0
        /\ won \in [Submissions -> 0 .. MaxWindows] /\ pc \in [Submissions -> PCs]
    BY <2>1 DEF IInv, TypeOK, RecordInv, Shape
  <2>3. pc'[s] = "parked" /\ won'[s] = opened /\ \A u \in Submissions \ {s} : won'[u] = won[u]
    BY <2>1, <2>2
  <2>4. \A j \in DOMAIN emitted' : emitted'[j] = event("pair.request", s)
    BY <2>1
  <2>5. AnswerInv'
    BY <1>1, <1>4, <2>2, <2>3 DEF ShownInv, AnswerInv, CLITypeOK
  <2>6. ASSUME NEW t \in Terminals, Connected(t), began[t] # 0, NEW i \in DOMAIN events'[t],
               Asks(events'[t][i])
        PROVE  won'[events'[t][i].sub] = began[t]
    <3>1. began[t] = opened
      BY <2>6 DEF OrderInv, RunInv
    <3>2. CASE i \in DOMAIN events[t] /\ events'[t][i] = events[t][i]
      <4>1. events[t] \in Seq(Event)
        BY <1>4 DEF CLITypeOK
      <4>2. events[t][i] \in Event
        BY <3>2, <4>1
      <4>3. events[t][i].sub \in Submissions
        BY <2>6, <3>2, <4>2 DEF Event, Asks
      <4> QED BY <2>2, <2>3, <2>6, <3>1, <3>2, <4>3 DEF ShownInv, HeardInv
    <3>3. CASE events'[t][i] = event("pair.request", s)
      BY <2>3, <3>1, <3>3 DEF event
    <3> QED BY <1>1, <1>4, <2>4, <2>6, <3>2, <3>3, Heard
  <2>7. ASSUME NEW t \in Terminals, place[t] = "prompting" PROVE won'[shown[t]] = began[t]
    <3>1. shown[t] \in Submissions /\ won[shown[t]] = began[t] /\ began[t] # 0
      BY <1>4, <2>7 DEF PromptInv, ShownInv, HeardInv, OrderInv, RunInv, Connected
    <3> QED BY <2>2, <2>3, <3>1
  <2>8. HeardInv'
    BY <1>1, <1>2, <2>3, <2>6, <2>7 DEF HeardInv
  <2> QED BY <1>3, <2>5, <2>8 DEF ShownInv
<1> QED
  BY <1>1, <1>5, <1>6

\* A command is executed: pair.begin finds no phone of an earlier window in the queue of
\* its run, and pair.approve the phone that was shown.
LEMMA ShownExecuted ==
  ASSUME RequireApproval, IInv, TypeOK', CLIInv, OrderInv, FlightInv, ShownInv,
         NEW t \in Terminals, RunCommand(t)
  PROVE  ShownInv'
<1>1. /\ commands \in Seq(Command) /\ commands # << >> /\ commands' = Tail(commands)
      /\ commands[1] = Head(commands) /\ Head(commands).from = t
      /\ UNCHANGED <<place, shown, said>>
      /\ CLITypeOK /\ TypeOK
  BY DEF CLIInv, CLITypeOK, RunCommand, RunBegin, RunResolve, RunCancel, Executes
<1>2. \A i \in DOMAIN commands' : i + 1 \in DOMAIN commands /\ commands'[i] = commands[i + 1]
  BY <1>1, Dequeued
<1>3. 1 \in DOMAIN commands /\ \A i \in DOMAIN commands : i # 1 => 1 < i
  BY <1>1, Dequeued
<1>4. \A u \in Terminals : (Waits(u)' => Waits(u)) /\ Connected(u)' = Connected(u)
  BY <1>1, <1>2 DEF Waits, Begins, Connected
<1>5. ASSUME UNCHANGED <<opened, won>> PROVE AnswerInv'
  BY <1>1, <1>2, <1>5 DEF ShownInv, AnswerInv
<1>6. ASSUME UNCHANGED <<opened, won, began, pc>>,
             events' = events \/ (Broadcast /\ \A j \in DOMAIN emitted' : ~Asks(emitted'[j]))
      PROVE  HeardInv' /\ AnswerInv'
  <2>1. ASSUME NEW u \in Terminals, Connected(u), NEW i \in DOMAIN events'[u], Asks(events'[u][i])
        PROVE  i \in DOMAIN events[u] /\ events'[u][i] = events[u][i]
    BY <1>1, <1>6, <2>1, Heard
  <2>2. HeardInv'
    BY <1>1, <1>4, <1>6, <2>1 DEF ShownInv, HeardInv
  <2> QED BY <1>5, <1>6, <2>2
<1>7. CASE RunBegin(t)
  <2>1. Begins(1) /\ granted' = granted
    BY <1>1, <1>7 DEF RunBegin, Executes, Begins, Begin, Refused, vars, history
  <2>2. ApprovedWasShown'
    BY <1>1, <2>1 DEF ShownInv, ApprovedWasShown
  <2>3. CASE Refused
    BY <1>6, <2>2, <2>3 DEF Refused, vars, history, ShownInv
  <2>4. CASE Begin /\ Broadcast /\ began' = [began EXCEPT ![t] = opened']
    <3>1. /\ Beginning /\ \A i \in DOMAIN commands : Begins(i)
          /\ Waits(t) /\ began[t] = 0
      BY <1>1, <1>3, <2>1 DEF Beginning, Waits, OrderInv, QueueInv
    <3>2. AnswerInv'
      BY <1>2, <3>1 DEF AnswerInv, Begins
    <3>3. /\ UNCHANGED <<won, pc>> /\ LockFree /\ state = "idle"
          /\ emitted' = <<event("pair.opened", NoSub)>>
      BY <2>4 DEF Begin
    <3>4. \A j \in DOMAIN emitted' : ~Asks(emitted'[j])
      BY <3>3 DEF event, Asks
    <3>5. ASSUME NEW u \in Terminals, Connected(u), NEW i \in DOMAIN events'[u], Asks(events'[u][i])
          PROVE  i \in DOMAIN events[u] /\ events'[u][i] = events[u][i]
      BY <1>1, <2>4, <3>4, <3>5, Heard
    <3>6. \A s \in Submissions : pc[s] # "parked"
      <4> SUFFICES ASSUME NEW s \in Submissions, pc[s] = "parked" PROVE FALSE
        OBVIOUS
      <4>1. decision[s] = "undecided"
        BY <3>1, <3>3, PairingAssumption DEF FlightInv, InFlight, LockFree
      <4> QED BY <3>3, <4>1, PairingAssumption DEF IInv, VerdictInv, Shape
    <3>7. \A u \in Terminals : Connected(u) => place[u] = "beginning" /\ began[u] = 0
      BY <3>1 DEF OrderInv, RunInv
    <3>8. \A u \in Terminals : place[u] = "prompting" => Connected(u)
      BY DEF Connected
    <3>9. \A u \in Terminals \ {t} : began'[u] = began[u]
      BY <1>1, <2>4 DEF CLITypeOK
    <3>10. HeardInv'
      BY <1>1, <1>4, <3>1, <3>3, <3>5, <3>6, <3>7, <3>8, <3>9 DEF ShownInv, HeardInv
    <3> QED BY <2>2, <3>2, <3>10 DEF ShownInv
  <2> QED BY <1>7, <2>3, <2>4 DEF RunBegin
<1>8. ASSUME NEW name, NEW answer, RunResolve(t, name, answer),
             answer = "approved" => name = "approve"
      PROVE  ShownInv'
  <2>1. CASE Refused
    BY <1>1, <1>6, <2>1 DEF Refused, vars, history, ShownInv, ApprovedWasShown
  <2>2. CASE Resolve(answer) /\ Broadcast /\ UNCHANGED began
    <3>1. HeardInv' /\ AnswerInv'
      BY <1>6, <2>2 DEF Resolve
    <3>2. CASE answer # "approved"
      BY <1>1, <2>2, <3>1, <3>2 DEF Resolve, ShownInv, ApprovedWasShown
    <3>3. CASE answer = "approved"
      <4>1. /\ commands[1].name = "approve" /\ pending \in Submissions
            /\ state = "awaiting" /\ granted' = granted \cup {pending}
        BY <1>1, <1>8, <2>2, <3>3 DEF RunResolve, Executes, Resolve, TypeOK
      <4>2. PICK s \in said : won[s] = opened
        BY <1>3, <4>1 DEF ShownInv, AnswerInv
      <4>3. won[pending] = opened /\ opened # 0
        BY <4>1, PairingAssumption DEF IInv, TypeOK, Shape
      <4>4. s \in Submissions
        BY <1>1 DEF CLITypeOK
      <4>5. pending = s
        BY <4>1, <4>2, <4>3, <4>4 DEF IInv, SingleUseInv
      <4> QED BY <1>1, <3>1, <4>1, <4>5 DEF ShownInv, ApprovedWasShown
    <3> QED BY <3>2, <3>3
  <2> QED BY <1>8, <2>1, <2>2 DEF RunResolve
<1>9. CASE RunCancel(t)
  <2>1. /\ UNCHANGED <<opened, won, began, pc, granted>> /\ Broadcast
        /\ emitted' = <<Closed>>
    BY <1>9 DEF RunCancel, Cancel, TearDown
  <2>2. \A j \in DOMAIN emitted' : ~Asks(emitted'[j])
    BY <2>1 DEF Closed, event, Asks
  <2> QED BY <1>1, <1>6, <2>1, <2>2 DEF ShownInv, ApprovedWasShown
<1> QED
  BY <1>7, <1>8, <1>9 DEF RunCommand

\* A run moves on without a word to the service.
LEMMA ShownKept ==
  ASSUME ShownInv, UNCHANGED <<vars, began, said>>,
         \A i \in DOMAIN commands' :
           commands'[i].name # "approve" \/ (i \in DOMAIN commands /\ commands'[i] = commands[i]),
         \A t \in Terminals :
           /\ Connected(t)' /\ began[t] # 0 =>
                Connected(t) /\ \A i \in DOMAIN events'[t] : \E j \in DOMAIN events[t] :
                                  events'[t][i] = events[t][j]
           /\ place'[t] = "prompting" => won[shown'[t]] = began[t]
           /\ Connected(t)' /\ Waits(t)' /\ (\E i \in DOMAIN events'[t] : Asks(events'[t][i])) =>
                Connected(t) /\ Waits(t) /\ \E i \in DOMAIN events[t] : Asks(events[t][i])
  PROVE  ShownInv'
<1>1. HeardInv'
  BY DEF ShownInv, HeardInv, vars, history
<1>2. AnswerInv'
  BY DEF ShownInv, AnswerInv, vars, history
<1> QED
  BY <1>1, <1>2 DEF ShownInv, ApprovedWasShown, vars, history

\* It is kept by every step.
LEMMA ShownStep ==
  /\ ~Shared /\ RequireApproval /\ IInv /\ TypeOK' /\ CLIInv /\ OrderInv /\ FlightInv /\ ShownInv
  /\ [CLINext]_cliVars
  => ShownInv'
<1> SUFFICES ASSUME ~Shared, RequireApproval, IInv, TypeOK', CLIInv, OrderInv, FlightInv, ShownInv,
                    [CLINext]_cliVars
             PROVE  ShownInv'
  OBVIOUS
<1>0. CLITypeOK /\ PromptInv /\ commands \in Seq(Command)
  BY DEF CLIInv, CLITypeOK
<1>1. CASE Manager
  BY <1>1, ShownManager
<1>2. CASE ServiceRestart
  <2>1. DOMAIN commands' = {} /\ UNCHANGED <<granted, said>>
    BY <1>2 DEF ServiceRestart, Restart, history
  <2>2. \A t \in Terminals : ~Connected(t)' /\ place'[t] # "prompting"
    BY <1>2 DEF ServiceRestart, Connected
  <2> QED BY <2>1, <2>2 DEF ShownInv, HeardInv, AnswerInv, ApprovedWasShown
<1>3. ASSUME NEW t \in Terminals, RunCommand(t) PROVE ShownInv'
  BY <1>3, ShownExecuted
<1>4. ASSUME NEW t \in Terminals, Start(t) PROVE ShownInv'
  <2> DEFINE c == [from |-> t, name |-> "begin"]
  <2>1. c \in Command /\ commands' = Append(commands, c)
    BY <1>4 DEF Command, Start, Sends
  <2>2. /\ place[t] = "shell" /\ place' = [place EXCEPT ![t] = "beginning"]
        /\ \A u \in Terminals : ~Connected(u)
        /\ UNCHANGED <<vars, events, shown, began, said>>
    BY <1>4 DEF Start, Moves
  <2>3. began[t] = 0 /\ events[t] = << >>
    BY <2>2 DEF OrderInv, RunInv
  <2>4. \A u \in Terminals \ {t} : ~Connected(u)'
    BY <1>0, <2>2 DEF CLITypeOK, Connected
  <2>5. \A u \in Terminals : place'[u] # "prompting"
    BY <1>0, <2>2, <2>4 DEF CLITypeOK, Connected
  <2>6. DOMAIN events'[t] = {}
    BY <2>2, <2>3
  <2>7. \A i \in DOMAIN commands' :
          commands'[i].name # "approve" \/ (i \in DOMAIN commands /\ commands'[i] = commands[i])
    BY <1>0, <2>1, Queued
  <2> QED BY <2>2, <2>3, <2>4, <2>5, <2>6, <2>7, ShownKept
<1>5. ASSUME NEW t \in Terminals, BeginReplied(t) \/ CallReplied(t) \/ Leave(t) PROVE ShownInv'
  <2>1. /\ UNCHANGED <<vars, began, said, commands, events, shown>>
        /\ \A u \in Terminals : /\ Connected(u)' => Connected(u)
                                /\ place'[u] = "prompting" => place[u] = "prompting"
    BY <1>0, <1>5 DEF CLITypeOK, BeginReplied, CallReplied, Leave, Moves, Connected
  <2> QED BY <2>1, ShownKept DEF ShownInv, HeardInv, Waits, Begins
<1>6. ASSUME NEW t \in Terminals, ReadEvent(t) PROVE ShownInv'
  <2>1. /\ UNCHANGED <<vars, began, said, commands>> /\ place[t] = "watching"
        /\ events[t] # << >> /\ events' = [events EXCEPT ![t] = Tail(@)]
        /\ shown' = [shown EXCEPT ![t] = Head(events[t]).sub]
        /\ place' = [place EXCEPT ![t] = After(Head(events[t]).name)]
    BY <1>6 DEF ReadEvent, Moves
  <2>2. events \in [Terminals -> Seq(Event)] /\ shown \in [Terminals -> Submissions \cup {NoSub}]
    BY <1>0 DEF CLITypeOK
  <2>3. /\ \A u \in Terminals : Connected(u)' => Connected(u)
        /\ \A u \in Terminals \ {t} : place'[u] = place[u]
        /\ place'[t] = "prompting" => Asks(Head(events[t]))
        /\ Connected(t) /\ began[t] # 0 /\ ~Beginning
    BY <1>0, <2>1 DEF CLITypeOK, Connected, After, Asks, OrderInv, RunInv
  <2>4. 1 \in DOMAIN events[t] /\ events[t][1] = Head(events[t])
    BY <2>1, <2>2
  <2>5. \A u \in Terminals : \A i \in DOMAIN events'[u] : \E j \in DOMAIN events[u] :
          events'[u][i] = events[u][j]
    <3>1. \A i \in DOMAIN events'[t] : i + 1 \in DOMAIN events[t] /\ events'[t][i] = events[t][i + 1]
      BY <2>1, <2>2
    <3> QED BY <2>1, <2>2, <3>1
  <2>6. \A u \in Terminals : place'[u] = "prompting" => won[shown'[u]] = began[u]
    BY <2>1, <2>2, <2>3, <2>4 DEF ShownInv, HeardInv
  <2>7. \A u \in Terminals : Waits(u)' = Waits(u)
    BY <2>1 DEF Waits, Begins
  <2> QED BY <2>1, <2>3, <2>5, <2>6, <2>7, ShownKept
<1>7. ASSUME NEW t \in Terminals, SayNo(t) \/ Interrupt(t) PROVE ShownInv'
  <2>1. \E name \in {"deny", "cancel"} :
          commands' = Append(commands, [from |-> t, name |-> name])
    BY <1>7 DEF SayNo, Interrupt, Sends
  <2>2. \A i \in DOMAIN commands' :
          commands'[i].name # "approve" \/ (i \in DOMAIN commands /\ commands'[i] = commands[i])
    BY <1>0, <2>1, Queued DEF Command
  <2>3. /\ UNCHANGED <<vars, began, said, events, shown>>
        /\ \A u \in Terminals : /\ Connected(u)' => Connected(u)
                                /\ place'[u] = "prompting" => place[u] = "prompting"
    BY <1>0, <1>7 DEF CLITypeOK, SayNo, Interrupt, Moves, Connected
  <2>4. \A u \in Terminals : ~Waits(u)'
    BY <1>0, <1>7, OrderTalk DEF Beginning, Waits
  <2> QED BY <2>2, <2>3, <2>4, ShownKept DEF ShownInv, HeardInv
<1>8. ASSUME NEW t \in Terminals, SayYes(t) PROVE ShownInv'
  <2>1. /\ place[t] = "prompting" /\ place' = [place EXCEPT ![t] = "approving"]
        /\ commands' = Append(commands, [from |-> t, name |-> "approve"])
        /\ said' = said \cup {shown[t]} /\ UNCHANGED <<vars, events, shown, began>>
    BY <1>8 DEF SayYes, Moves, Sends
  <2>2. won[shown[t]] = opened
    <3>1. Connected(t) /\ began[t] # 0
      BY <2>1 DEF Connected, OrderInv, RunInv
    <3> QED BY <2>1, <3>1 DEF OrderInv, RunInv, ShownInv, HeardInv
  <2>3. \A u \in Terminals : ~Waits(u)'
    BY <1>0, <1>8, OrderTalk DEF Beginning, Waits
  <2>4. \A u \in Terminals : /\ Connected(u)' => Connected(u)
                             /\ place'[u] = "prompting" => place[u] = "prompting"
    BY <1>0, <2>1 DEF CLITypeOK, Connected
  <2>5. HeardInv'
    BY <2>1, <2>3, <2>4 DEF ShownInv, HeardInv, vars, history
  <2>6. \A i \in DOMAIN commands' : \/ i \in DOMAIN commands /\ commands'[i] = commands[i]
                                   \/ i = Len(commands) + 1
    BY <1>0, <2>1, Queued DEF Command
  <2>7. AnswerInv'
    BY <2>1, <2>2, <2>6 DEF ShownInv, AnswerInv, vars, history
  <2>8. ApprovedWasShown'
    BY <2>1 DEF ShownInv, ApprovedWasShown, vars, history
  <2> QED BY <2>5, <2>7, <2>8 DEF ShownInv
<1>9. CASE UNCHANGED cliVars
  <2>1. UNCHANGED <<vars, began, said, commands, events, shown, place>>
    BY <1>9 DEF cliVars, terminal
  <2> QED BY <2>1, ShownKept DEF ShownInv, HeardInv, Waits, Begins, Connected
<1> QED
  BY <1>1, <1>2, <1>3, <1>4, <1>5, <1>6, <1>7, <1>8, <1>9 DEF CLINext

\* All of it, for runs that do not overlap.  Without approval nothing is ever pending.
RunsInv ==
  ~Shared => /\ OrderInv
             /\ IF RequireApproval THEN FlightInv /\ ShownInv ELSE granted = {}

\* The whole invariant is kept by every step.
LEMMA RunsStep ==
  IInv /\ TypeOK' /\ WaitInv /\ CLIInv /\ RunsInv /\ [CLINext]_cliVars => RunsInv'
<1>1. ASSUME IInv, ~RequireApproval, granted = {}, [Next]_vars PROVE granted' = {}
  <2>1. pending = NoSub
    BY <1>1 DEF IInv, Shape
  <2> QED BY <1>1, <2>1
          DEF Next, Operator, Begin, Cancel, TearDown, Resolve, Shutdown, Lapse, Expire, Restart,
              Submit, SubmitRefused, SubmitExpired, SubmitWrongCode, WrongCode, SubmitBadProof,
              SubmitAdmitted, ApprovalTimeout, TimerFires, Progress, Wake, ResumeAs, GiveUp, Deny,
              EndUnpaired, Grant, UpsertDevice, FinishPaired, StoreFails, vars, history
<1> QED
  BY <1>1, CLIStep, OrderStep, FlightStep, ShownStep DEF RunsInv, CLIInv

\* And holds when no run has been started.
LEMMA RunsInit == CLIInit => RunsInv
<1> SUFFICES ASSUME CLIInit PROVE RunsInv
  OBVIOUS
<1>1. DOMAIN commands = {} /\ ~Beginning
  BY DEF CLIInit, Beginning
<1>2. OrderInv
  BY <1>1 DEF CLIInit, OrderInv, AloneInv, QueueInv, RunInv, Connected
<1>3. FlightInv
  BY <1>1 DEF CLIInit, Init, FlightInv, InFlight
<1>4. ShownInv /\ granted = {}
  BY <1>1 DEF CLIInit, Init, ShownInv, HeardInv, AnswerInv, ApprovedWasShown, Connected
<1> QED
  BY <1>2, <1>3, <1>4 DEF RunsInv

\* With any number of runs of the command, phones and windows, and whatever fails: as
\* long as runs do not overlap, a phone is approved only if the operator saw it.
THEOREM ShownTheorem == CLISpec => [](~Shared => ApprovedWasShown)
<1>1. CLISpec => [](IInv /\ TypeOK)
  BY Behaves, Invariance, TypeCorrect, PTL
<1>2. CLISpec => []WaitInv
  <2>1. Init => WaitInv
    BY DEF Init, WaitInv
  <2>2. Spec => []WaitInv
    BY <2>1, WaitStep, Invariance, PTL DEF Spec
  <2> QED BY <2>2, Behaves, PTL
<1>3. CLISpec => []CLIInv
  BY <1>1, CLIInvInit, CLITypeStep, PTL DEF CLISpec
<1>4. CLISpec => []RunsInv
  BY <1>1, <1>2, <1>3, RunsInit, RunsStep, PTL DEF CLISpec
<1>5. RunsInv => (~Shared => ApprovedWasShown)
  BY DEF RunsInv, ShownInv, ApprovedWasShown
<1> QED
  BY <1>4, <1>5, PTL

-----------------------------------------------------------------------------
(***************************************************************************)
(* Its advertiser: Advertiser.                                             *)
(***************************************************************************)

(* The contract of the manager with its listeners.                         *)

Announces ==
  \E i \in DOMAIN emitted' : emitted'[i].name \in {"pair.opened", "pair.closed"}

\* A step that announces pair.closed alone, or after pair.completed, announces it.
LEMMA ClosedAnnounces ==
  ASSUME \/ emitted' = <<Closed>>
         \/ emitted' = <<event("pair.opened", NoSub)>>
         \/ \E s \in Submissions : emitted' = <<event("pair.completed", s), Closed>>
  PROVE  Announces
<1>1. CASE emitted' = <<Closed>>
  <2>1. 1 \in DOMAIN emitted' /\ emitted'[1].name = "pair.closed"
    BY <1>1 DEF Closed, event
  <2> QED BY <2>1 DEF Announces
<1>2. CASE emitted' = <<event("pair.opened", NoSub)>>
  <2>1. 1 \in DOMAIN emitted' /\ emitted'[1].name = "pair.opened"
    BY <1>2 DEF event
  <2> QED BY <2>1 DEF Announces
<1>3. ASSUME NEW s \in Submissions, emitted' = <<event("pair.completed", s), Closed>>
      PROVE  Announces
  <2>1. 2 \in DOMAIN emitted' /\ emitted'[2].name = "pair.closed"
    BY <1>3 DEF Closed, event
  <2> QED BY <2>1 DEF Announces
<1> QED
  BY <1>1, <1>2, <1>3

\* Every step of the manager that opens or ends a window announces it.
LEMMA OpennessAnnounced == ManagerSteps => IsOpen' = IsOpen \/ Announces
<1> SUFFICES ASSUME ManagerSteps PROVE IsOpen' = IsOpen \/ Announces
  OBVIOUS
<1> USE DEF IsOpen
<1>1. CASE Operator
  <2>1. CASE Begin
    BY <2>1, ClosedAnnounces DEF Begin
  <2>2. CASE Cancel
    BY <2>2, ClosedAnnounces DEF Cancel, TearDown
  <2>3. ASSUME NEW a, Resolve(a) PROVE IsOpen' = IsOpen
    BY <2>3 DEF Resolve, manager
  <2> QED BY <1>1, <2>1, <2>2, <2>3 DEF Operator
<1>2. CASE Shutdown
  BY <1>2, ClosedAnnounces DEF Shutdown, TearDown
<1>3. CASE Lapse
  BY <1>3 DEF Lapse
<1>4. CASE Expire
  BY <1>4, ClosedAnnounces DEF Expire
<1>5. ASSUME NEW s \in Submissions, Submit(s) PROVE IsOpen' = IsOpen \/ Announces
  <2>1. CASE SubmitRefused(s)
    BY <2>1 DEF SubmitRefused, manager
  <2>2. CASE SubmitExpired(s)
    BY <2>2, ClosedAnnounces DEF SubmitExpired
  <2>3. ASSUME NEW code \in 0 .. opened, SubmitWrongCode(s, code)
        PROVE  IsOpen' = IsOpen \/ Announces
    BY <2>3, ClosedAnnounces DEF SubmitWrongCode, WrongCode
  <2>4. CASE SubmitBadProof(s)
    BY <2>4, ClosedAnnounces DEF SubmitBadProof
  <2>5. CASE SubmitAdmitted(s)
    BY <2>5 DEF SubmitAdmitted
  <2> QED BY <1>5, <2>1, <2>2, <2>3, <2>4, <2>5 DEF Submit
<1>6. ASSUME NEW s \in Submissions, ApprovalTimeout(s) PROVE IsOpen' = IsOpen
  BY <1>6 DEF ApprovalTimeout, TimerFires, manager
<1>7. ASSUME NEW s \in Submissions, Progress(s) PROVE IsOpen' = IsOpen \/ Announces
  <2>1. CASE GiveUp(s) \/ Deny(s) \/ FinishPaired(s)
    BY <2>1, ClosedAnnounces DEF GiveUp, Deny, FinishPaired
  <2>2. CASE Wake(s) \/ Grant(s) \/ UpsertDevice(s) \/ StoreFails(s)
    BY <2>2 DEF Wake, ResumeAs, Grant, UpsertDevice, StoreFails, manager
  <2> QED BY <1>7, <2>1, <2>2 DEF Progress
<1> QED
  BY <1>1, <1>2, <1>3, <1>4, <1>5, <1>6, <1>7 DEF ManagerSteps

-----------------------------------------------------------------------------
(* The flag.                                                               *)

\* Nothing is heard before the registration; a registration is not repeated.
FlagInv ==
  /\ tasks \in Nat
  /\ phase \in {"starting", "registering"} => ~heard
  /\ FlagSettles

\* Steps of the manager and of the advertiser keep the flag right or a task queued.
LEMMA FlagStep == FlagInv /\ [AdvNext]_allVars => FlagInv'
<1> SUFFICES ASSUME FlagInv, [AdvNext]_allVars PROVE FlagInv'
  OBVIOUS
<1> USE DEF FlagInv, FlagSettles
<1>1. CASE ManagerSteps
  <2>1. UNCHANGED <<phase, flag>> /\ OnPairingEvent
    BY <1>1 DEF ManagerSteps
  <2>2. CASE Announces /\ phase = "on"
    <3>1. {i \in DOMAIN emitted' : emitted'[i].name \in {"pair.opened", "pair.closed"}} # {}
      BY <2>2 DEF Announces
    <3>2. tasks' = tasks + 1
      BY <2>1, <2>2, <3>1 DEF OnPairingEvent, Notify
    <3> QED BY <2>1, <2>2, <3>2
  <2>3. CASE phase # "on"
    BY <2>1, <2>3 DEF OnPairingEvent, Notify
  <2>4. CASE ~Announces
    <3>1. IsOpen' = IsOpen
      BY <1>1, <2>4, OpennessAnnounced
    <3>2. {i \in DOMAIN emitted' : emitted'[i].name \in {"pair.opened", "pair.closed"}} = {}
      BY <2>4 DEF Announces
    <3>3. UNCHANGED <<tasks, heard>>
      BY <2>1, <3>2 DEF OnPairingEvent, Notify
    <3> QED BY <2>1, <3>1, <3>3
  <2> QED BY <2>2, <2>3, <2>4
<1>2. CASE Refresh
  <2>1. IsOpen' = IsOpen /\ phase' = phase /\ tasks' = tasks - 1 /\ tasks > 0
    BY <1>2 DEF Refresh, IsOpen, vars, manager
  <2>2. phase = "on" => flag' = IsOpen
    BY <1>2 DEF Refresh
  <2>3. heard' = heard /\ tasks' \in Nat
    BY <1>2 DEF Refresh
  <2> QED BY <2>1, <2>2, <2>3
<1>3. CASE StartRegistering \/ StartFails \/ StopListening \/ Unregister
  BY <1>3 DEF StartRegistering, StartFails, StopListening, Unregister
<1>4. CASE Registered
  BY <1>4 DEF Registered
<1>5. CASE AdvRestart
  BY <1>5 DEF AdvRestart
<1>6. CASE UNCHANGED allVars
  BY <1>6 DEF allVars, vars, manager, advertiser, IsOpen
<1> QED
  BY <1>1, <1>2, <1>3, <1>4, <1>5, <1>6 DEF AdvNext

\* Once an event has been heard and no refresh is outstanding, the flag is right.
THEOREM FlagTheorem == AdvSpec => []FlagSettles
<1>1. AdvInit => FlagInv
  BY DEF AdvInit, FlagInv, FlagSettles
<1>2. FlagInv => FlagSettles
  BY DEF FlagInv
<1> QED
  BY <1>1, <1>2, FlagStep, PTL DEF AdvSpec

-----------------------------------------------------------------------------
(* The advertiser only listens: with it, the manager does what it does     *)
(* alone.                                                                  *)

LEMMA AdvertiserStep == [AdvNext]_allVars => [Next]_vars
BY DEF AdvNext, ManagerSteps, StartRegistering, Registered, StartFails, Refresh, StopListening,
       Unregister, AdvRestart, Next, allVars

\* Types of the manager and of the advertiser; the flag is a truth value since
\* IsOpen is.
THEOREM AdvTypes == AdvSpec => []AdvTypeOK
<1> DEFINE Own == /\ phase \in {"starting", "registering", "on", "closing", "off"}
                  /\ flag \in BOOLEAN
                  /\ tasks \in Nat
                  /\ heard \in BOOLEAN
<1>1. AdvInit => Init /\ Own
  <2> SUFFICES ASSUME AdvInit PROVE Init /\ Own
    OBVIOUS
  <2>1. Init /\ phase = "starting" /\ flag = FALSE /\ tasks = 0 /\ heard = FALSE
    BY DEF AdvInit
  <2>2. flag \in BOOLEAN /\ heard \in BOOLEAN
    BY <2>1
  <2> QED BY <2>1, <2>2
<1>2. Own /\ [AdvNext]_allVars => Own'
  <2> SUFFICES ASSUME Own, [AdvNext]_allVars PROVE Own'
    OBVIOUS
  <2>1. IsOpen \in BOOLEAN
    BY DEF IsOpen
  <2>2. CASE ManagerSteps
    <3>1. UNCHANGED <<phase, flag>>
      BY <2>2 DEF ManagerSteps
    <3>2. tasks' = tasks + 1 \/ tasks' = tasks
      BY <2>2 DEF ManagerSteps, OnPairingEvent, Notify
    <3>3. heard' = TRUE \/ heard' = heard
      BY <2>2 DEF ManagerSteps, OnPairingEvent, Notify
    <3>4. heard' \in BOOLEAN
      BY <3>3
    <3> QED BY <3>1, <3>2, <3>4
  <2>3. CASE Refresh
    BY <2>1, <2>3 DEF Refresh
  <2>4. CASE StartRegistering \/ Registered \/ StartFails \/ StopListening \/ Unregister
    BY <2>1, <2>4 DEF StartRegistering, Registered, StartFails, StopListening, Unregister
  <2>5. CASE AdvRestart
    BY <2>5 DEF AdvRestart
  <2>6. CASE UNCHANGED allVars
    BY <2>6 DEF allVars, advertiser
  <2> QED
    BY <2>2, <2>3, <2>4, <2>5, <2>6 DEF AdvNext
<1>3. TypeOK /\ Own => AdvTypeOK
  BY DEF AdvTypeOK
<1>4. AdvSpec => Spec
  BY <1>1, AdvertiserStep, PTL DEF AdvSpec, Spec
<1>5. AdvSpec => []Own
  BY <1>1, <1>2, PTL DEF AdvSpec
<1> QED
  BY <1>3, <1>4, <1>5, TypeCorrect, PTL

=============================================================================
