----------------------------- MODULE AuthProofs -----------------------------
(***************************************************************************)
(* Proofs about Auth, for any devices, messages, deliveries and skew, and  *)
(* any interleaving of sweeps, restarts and database failures.             *)
(***************************************************************************)
EXTENDS Auth, TLAPS

-----------------------------------------------------------------------------
(* The inductive invariant.                                                *)

\* What each delivery has behind it at each place.
PlaceInv ==
  \A r \in Deliveries :
    /\ pc[r] \in {"lookup", "check", "body", "touch", "handle"} => msg[r] \in Messages
    /\ r \in accepted => /\ msg[r] \in Messages
                         /\ copy[r] = "intact"
                         /\ pc[r] \in {"touch", "handle", "done"}
                         /\ reply[r] # "replayed_nonce"
    /\ r \in standing => r \in accepted
    /\ reply[r] # "none" \/ r \in handled => pc[r] = "done"

\* A timestamp check that passed lies in the past, within the skew of the stamp,
\* and a nonce is recorded no earlier than the check.
ClockInv ==
  /\ cutoff <= clock
  /\ \A r \in Deliveries :
       /\ r \in accepted \/ pc[r] = "body" =>
            /\ now[r] <= clock
            /\ now[r] <= stamp[msg[r]] + Skew
            /\ stamp[msg[r]] <= now[r] + Skew
       /\ r \in accepted => now[r] <= at[r] /\ at[r] <= clock

\* The nonce of an accepted delivery is on record until 2 * Skew after its check.
Remembered ==
  \A r \in standing : row[msg[r]] >= now[r] + 2 * Skew \/ clock >= now[r] + 2 * Skew

\* A row stands for an accepted delivery.
RowInv ==
  \A m \in Messages : row[m] # 0 => \E q \in accepted : msg[q] = m

\* A delivery that arrived under an untrusted device gets no further than the
\* lookup of its device.
BarredInv ==
  \A r \in barred :
    /\ msg[r] \in Messages
    /\ pc[r] \in {"lookup", "check", "done"}
    /\ pc[r] = "lookup" => device[Owner[msg[r]]] # "trusted"
    /\ pc[r] = "check" => found[r] # "trusted"
    /\ r \notin handled

IInv ==
  /\ TypeOK
  /\ PlaceInv
  /\ ClockInv
  /\ Remembered
  /\ AcceptedAgainOnlyLate
  /\ RowInv
  /\ ReplayedMeansAccepted
  /\ BarredInv

-----------------------------------------------------------------------------
(* The invariant is inductive.                                             *)

\* Every step of a delivery, of the sweeper, of the operator and of the clock keeps
\* the invariant.
LEMMA Inductive == IInv /\ [Next]_vars => IInv'
<1> SUFFICES ASSUME IInv, [Next]_vars PROVE IInv'
  OBVIOUS
<1> USE AuthAssumption DEF tables, request, history, Times, Rows, PCs, Replies
<1>1. ASSUME Tick PROVE IInv'
  <2>1. (TypeOK /\ PlaceInv /\ ClockInv /\ Remembered)'
    BY <1>1 DEF Tick, IInv, TypeOK, PlaceInv, ClockInv, Remembered
  <2>2. (AcceptedAgainOnlyLate /\ RowInv /\ ReplayedMeansAccepted /\ BarredInv)'
    BY <1>1
       DEF Tick, IInv, TypeOK, AcceptedAgainOnlyLate, RowInv, ReplayedMeansAccepted, BarredInv
  <2> QED BY <2>1, <2>2 DEF IInv
<1>2. ASSUME SweepRead PROVE IInv'
  <2>1. (TypeOK /\ PlaceInv /\ ClockInv /\ Remembered)'
    BY <1>2 DEF SweepRead, IInv, TypeOK, PlaceInv, ClockInv, Remembered
  <2>2. (AcceptedAgainOnlyLate /\ RowInv /\ ReplayedMeansAccepted /\ BarredInv)'
    BY <1>2
       DEF SweepRead, IInv, TypeOK, AcceptedAgainOnlyLate, RowInv, ReplayedMeansAccepted,
           BarredInv
  <2> QED BY <2>1, <2>2 DEF IInv
<1>3. ASSUME SweepRun PROVE IInv'
  <2>1. (TypeOK /\ PlaceInv /\ ClockInv /\ AcceptedAgainOnlyLate)'
    BY <1>3 DEF SweepRun, DeleteRows, IInv, TypeOK, PlaceInv, ClockInv, AcceptedAgainOnlyLate
  <2>2. (RowInv /\ ReplayedMeansAccepted /\ BarredInv)'
    BY <1>3 DEF SweepRun, DeleteRows, IInv, TypeOK, RowInv, ReplayedMeansAccepted, BarredInv
  <2>3. Remembered'
    BY <1>3 DEF SweepRun, DeleteRows, IInv, TypeOK, Remembered, PlaceInv, ClockInv
  <2> QED BY <2>1, <2>2, <2>3 DEF IInv
<1>4. ASSUME SweepFails PROVE IInv'
  <2>1. (TypeOK /\ PlaceInv /\ ClockInv /\ Remembered)'
    BY <1>4 DEF SweepFails, IInv, TypeOK, PlaceInv, ClockInv, Remembered
  <2>2. (AcceptedAgainOnlyLate /\ RowInv /\ ReplayedMeansAccepted /\ BarredInv)'
    BY <1>4
       DEF SweepFails, IInv, TypeOK, AcceptedAgainOnlyLate, RowInv, ReplayedMeansAccepted,
           BarredInv
  <2> QED BY <2>1, <2>2 DEF IInv
<1>5. ASSUME NEW d \in Devices, UpsertDevice(d) PROVE IInv'
  <2>1. (TypeOK /\ PlaceInv /\ ClockInv /\ Remembered)'
    BY <1>5 DEF UpsertDevice, IInv, TypeOK, PlaceInv, ClockInv, Remembered
  <2>2. (AcceptedAgainOnlyLate /\ RowInv /\ ReplayedMeansAccepted /\ BarredInv)'
    BY <1>5
       DEF UpsertDevice, IInv, TypeOK, AcceptedAgainOnlyLate, RowInv, ReplayedMeansAccepted,
           BarredInv
  <2> QED BY <2>1, <2>2 DEF IInv
<1>6. ASSUME NEW d \in Devices, RevokeDevice(d) PROVE IInv'
  <2>1. (TypeOK /\ PlaceInv /\ ClockInv /\ Remembered)'
    BY <1>6 DEF RevokeDevice, IInv, TypeOK, PlaceInv, ClockInv, Remembered
  <2>2. (AcceptedAgainOnlyLate /\ RowInv /\ ReplayedMeansAccepted /\ BarredInv)'
    BY <1>6
       DEF RevokeDevice, IInv, TypeOK, AcceptedAgainOnlyLate, RowInv, ReplayedMeansAccepted,
           BarredInv
  <2> QED BY <2>1, <2>2 DEF IInv
<1>7. ASSUME NEW d \in Devices, DeleteDevice(d) PROVE IInv'
  <2>1. (TypeOK /\ PlaceInv /\ ClockInv /\ AcceptedAgainOnlyLate)'
    BY <1>7 DEF DeleteDevice, IInv, TypeOK, PlaceInv, ClockInv, AcceptedAgainOnlyLate
  <2>2. (RowInv /\ ReplayedMeansAccepted /\ BarredInv)'
    BY <1>7 DEF DeleteDevice, IInv, TypeOK, RowInv, ReplayedMeansAccepted, BarredInv
  <2>3. Remembered'
    BY <1>7 DEF DeleteDevice, IInv, TypeOK, Remembered, PlaceInv
  <2> QED BY <2>1, <2>2, <2>3 DEF IInv
<1>8. ASSUME NEW d \in Devices, DeleteDeviceHalf(d) PROVE IInv'
  <2>1. (TypeOK /\ PlaceInv /\ ClockInv /\ Remembered)'
    BY <1>8 DEF DeleteDeviceHalf, IInv, TypeOK, PlaceInv, ClockInv, Remembered
  <2>2. (AcceptedAgainOnlyLate /\ RowInv /\ ReplayedMeansAccepted /\ BarredInv)'
    BY <1>8
       DEF DeleteDeviceHalf, IInv, TypeOK, AcceptedAgainOnlyLate, RowInv,
           ReplayedMeansAccepted, BarredInv
  <2> QED BY <2>1, <2>2 DEF IInv
<1>9. ASSUME Restart PROVE IInv'
  <2>1. (TypeOK /\ PlaceInv /\ ClockInv /\ Remembered)'
    BY <1>9 DEF Restart, IInv, TypeOK, PlaceInv, ClockInv, Remembered
  <2>2. (AcceptedAgainOnlyLate /\ RowInv /\ ReplayedMeansAccepted /\ BarredInv)'
    BY <1>9
       DEF Restart, IInv, TypeOK, AcceptedAgainOnlyLate, RowInv, ReplayedMeansAccepted,
           BarredInv
  <2> QED BY <2>1, <2>2 DEF IInv
<1>10. ASSUME NEW r \in Deliveries, NEW m \in Messages, NEW c \in {"intact", "altered"}, Arrive(r, m, c) PROVE IInv'
  <2>1. (TypeOK /\ PlaceInv)'
    BY <1>10 DEF Arrive, Step, IInv, TypeOK, PlaceInv
  <2>2. ClockInv'
    BY <1>10 DEF Arrive, Step, IInv, TypeOK, ClockInv, PlaceInv
  <2>3. Remembered'
    BY <1>10 DEF Arrive, Step, IInv, TypeOK, Remembered, PlaceInv
  <2>4. AcceptedAgainOnlyLate'
    BY <1>10 DEF Arrive, Step, IInv, TypeOK, AcceptedAgainOnlyLate, PlaceInv
  <2>5. RowInv'
    BY <1>10 DEF Arrive, Step, IInv, TypeOK, RowInv, PlaceInv
  <2>6. ReplayedMeansAccepted'
    BY <1>10 DEF Arrive, Step, IInv, TypeOK, ReplayedMeansAccepted, PlaceInv
  <2>7. BarredInv'
    BY <1>10 DEF Arrive, Step, IInv, TypeOK, BarredInv, PlaceInv
  <2> QED BY <2>1, <2>2, <2>3, <2>4, <2>5, <2>6, <2>7 DEF IInv
<1>11. ASSUME NEW r \in Deliveries, GetDevice(r) PROVE IInv'
  <2>1. (PlaceInv /\ ClockInv /\ Remembered /\ AcceptedAgainOnlyLate)'
    BY <1>11
       DEF GetDevice, Step, IInv, TypeOK, PlaceInv, ClockInv, Remembered, AcceptedAgainOnlyLate
  <2>2. (RowInv /\ ReplayedMeansAccepted /\ BarredInv)'
    BY <1>11 DEF GetDevice, Step, IInv, TypeOK, RowInv, ReplayedMeansAccepted, BarredInv
  <2>3. TypeOK'
    BY <1>11 DEF GetDevice, Step, IInv, TypeOK, PlaceInv
  <2> QED BY <2>1, <2>2, <2>3 DEF IInv
<1>12. ASSUME NEW r \in Deliveries, RefuseUnknown(r) PROVE IInv'
  <2>1. (TypeOK /\ PlaceInv /\ ClockInv /\ Remembered)'
    BY <1>12 DEF RefuseUnknown, Answer, Step, IInv, TypeOK, PlaceInv, ClockInv, Remembered
  <2>2. (AcceptedAgainOnlyLate /\ RowInv /\ ReplayedMeansAccepted /\ BarredInv)'
    BY <1>12
       DEF RefuseUnknown, Answer, Step, IInv, TypeOK, AcceptedAgainOnlyLate, RowInv,
           ReplayedMeansAccepted, BarredInv
  <2> QED BY <2>1, <2>2 DEF IInv
<1>13. ASSUME NEW r \in Deliveries, RefuseRevoked(r) PROVE IInv'
  <2>1. (TypeOK /\ PlaceInv /\ ClockInv /\ Remembered)'
    BY <1>13 DEF RefuseRevoked, Answer, Step, IInv, TypeOK, PlaceInv, ClockInv, Remembered
  <2>2. (AcceptedAgainOnlyLate /\ RowInv /\ ReplayedMeansAccepted /\ BarredInv)'
    BY <1>13
       DEF RefuseRevoked, Answer, Step, IInv, TypeOK, AcceptedAgainOnlyLate, RowInv,
           ReplayedMeansAccepted, BarredInv
  <2> QED BY <2>1, <2>2 DEF IInv
<1>14. ASSUME NEW r \in Deliveries, Refuse(r) PROVE IInv'
  <2>1. (TypeOK /\ PlaceInv /\ ClockInv /\ Remembered)'
    BY <1>14 DEF Refuse, Answer, Step, IInv, TypeOK, PlaceInv, ClockInv, Remembered
  <2>2. (AcceptedAgainOnlyLate /\ RowInv /\ ReplayedMeansAccepted /\ BarredInv)'
    BY <1>14
       DEF Refuse, Answer, Step, IInv, TypeOK, AcceptedAgainOnlyLate, RowInv,
           ReplayedMeansAccepted, BarredInv
  <2> QED BY <2>1, <2>2 DEF IInv
<1>15. ASSUME NEW r \in Deliveries, RefuseStale(r) PROVE IInv'
  <2>1. (TypeOK /\ PlaceInv /\ ClockInv /\ Remembered)'
    BY <1>15 DEF RefuseStale, Answer, Step, IInv, TypeOK, PlaceInv, ClockInv, Remembered
  <2>2. (AcceptedAgainOnlyLate /\ RowInv /\ ReplayedMeansAccepted /\ BarredInv)'
    BY <1>15
       DEF RefuseStale, Answer, Step, IInv, TypeOK, AcceptedAgainOnlyLate, RowInv,
           ReplayedMeansAccepted, BarredInv
  <2> QED BY <2>1, <2>2 DEF IInv
<1>16. ASSUME NEW r \in Deliveries, CheckTimestamp(r) PROVE IInv'
  <2>1. (TypeOK /\ PlaceInv /\ RowInv /\ ReplayedMeansAccepted)'
    BY <1>16
       DEF CheckTimestamp, PassTimestamp, Fresh, Step, IInv, TypeOK, PlaceInv, RowInv,
           ReplayedMeansAccepted
  <2>2. (BarredInv)'
    BY <1>16 DEF CheckTimestamp, PassTimestamp, Fresh, Step, IInv, TypeOK, BarredInv
  <2>3. ClockInv'
    BY <1>16 DEF CheckTimestamp, PassTimestamp, Fresh, Step, IInv, TypeOK, ClockInv, PlaceInv
  <2>4. Remembered'
    BY <1>16 DEF CheckTimestamp, PassTimestamp, Fresh, Step, IInv, TypeOK, Remembered, PlaceInv
  <2>5. AcceptedAgainOnlyLate'
    BY <1>16
       DEF CheckTimestamp, PassTimestamp, Fresh, Step, IInv, TypeOK, AcceptedAgainOnlyLate,
           PlaceInv
  <2> QED BY <2>1, <2>2, <2>3, <2>4, <2>5 DEF IInv
<1>17. ASSUME NEW r \in Deliveries, RefuseSignature(r) PROVE IInv'
  <2>1. (TypeOK /\ PlaceInv /\ ClockInv /\ Remembered)'
    BY <1>17 DEF RefuseSignature, Answer, Step, IInv, TypeOK, PlaceInv, ClockInv, Remembered
  <2>2. (AcceptedAgainOnlyLate /\ RowInv /\ ReplayedMeansAccepted /\ BarredInv)'
    BY <1>17
       DEF RefuseSignature, Answer, Step, IInv, TypeOK, AcceptedAgainOnlyLate, RowInv,
           ReplayedMeansAccepted, BarredInv
  <2> QED BY <2>1, <2>2 DEF IInv
<1>18. ASSUME NEW r \in Deliveries, ConsumeNonce(r) PROVE IInv'
  <2>1. (TypeOK /\ PlaceInv /\ ClockInv /\ RowInv)'
    BY <1>18 DEF ConsumeNonce, Spend, Answer, Step, IInv, TypeOK, PlaceInv, ClockInv, RowInv
  <2>2. (BarredInv)'
    BY <1>18 DEF ConsumeNonce, Spend, Answer, Step, IInv, TypeOK, BarredInv
  <2>3. Remembered'
    BY <1>18 DEF ConsumeNonce, Spend, Answer, Step, IInv, TypeOK, Remembered, PlaceInv
  <2>4. AcceptedAgainOnlyLate'
    BY <1>18
       DEF ConsumeNonce, Spend, Answer, Step, IInv, TypeOK, AcceptedAgainOnlyLate, Remembered
  <2>5. ReplayedMeansAccepted'
    BY <1>18
       DEF ConsumeNonce, Spend, Answer, Step, IInv, TypeOK, ReplayedMeansAccepted, PlaceInv,
           RowInv
  <2> QED BY <2>1, <2>2, <2>3, <2>4, <2>5 DEF IInv
<1>19. ASSUME NEW r \in Deliveries, TouchDevice(r) PROVE IInv'
  <2>1. (TypeOK /\ PlaceInv /\ ClockInv /\ Remembered)'
    BY <1>19 DEF TouchDevice, Step, IInv, TypeOK, PlaceInv, ClockInv, Remembered
  <2>2. (AcceptedAgainOnlyLate /\ RowInv /\ ReplayedMeansAccepted /\ BarredInv)'
    BY <1>19
       DEF TouchDevice, Step, IInv, TypeOK, AcceptedAgainOnlyLate, RowInv,
           ReplayedMeansAccepted, BarredInv
  <2> QED BY <2>1, <2>2 DEF IInv
<1>20. ASSUME NEW r \in Deliveries, Handle(r) PROVE IInv'
  <2>1. (TypeOK /\ PlaceInv /\ ClockInv /\ Remembered)'
    BY <1>20 DEF Handle, Answer, Step, IInv, TypeOK, PlaceInv, ClockInv, Remembered
  <2>2. (AcceptedAgainOnlyLate /\ RowInv /\ ReplayedMeansAccepted /\ BarredInv)'
    BY <1>20
       DEF Handle, Answer, Step, IInv, TypeOK, AcceptedAgainOnlyLate, RowInv,
           ReplayedMeansAccepted, BarredInv
  <2> QED BY <2>1, <2>2 DEF IInv
<1>21. ASSUME NEW r \in Deliveries, StoreFails(r) PROVE IInv'
  <2>1. (TypeOK /\ PlaceInv /\ ClockInv /\ Remembered)'
    BY <1>21 DEF StoreFails, Answer, Step, IInv, TypeOK, PlaceInv, ClockInv, Remembered
  <2>2. (AcceptedAgainOnlyLate /\ RowInv /\ ReplayedMeansAccepted /\ BarredInv)'
    BY <1>21
       DEF StoreFails, Answer, Step, IInv, TypeOK, AcceptedAgainOnlyLate, RowInv,
           ReplayedMeansAccepted, BarredInv
  <2> QED BY <2>1, <2>2 DEF IInv
<1>22. CASE UNCHANGED vars
  BY <1>22
     DEF vars, IInv, TypeOK, PlaceInv, ClockInv, Remembered, AcceptedAgainOnlyLate, RowInv,
         ReplayedMeansAccepted, BarredInv
<1> QED
  BY <1>1, <1>2, <1>3, <1>4, <1>5, <1>6, <1>7, <1>8, <1>9, <1>10, <1>11, <1>12, <1>13, <1>14, <1>15, <1>16, <1>17, <1>18, <1>19, <1>20, <1>21, <1>22 DEF Next, Admin, Serve

\* The invariant holds in every behaviour.
THEOREM Invariance == Spec => []IInv
<1>1. Init => IInv
  BY AuthAssumption DEF Init, Times, Rows, PCs, Replies, IInv, TypeOK, PlaceInv, ClockInv, Remembered, AcceptedAgainOnlyLate, RowInv, ReplayedMeansAccepted, BarredInv
<1> QED
  BY <1>1, Inductive, PTL DEF Spec

-----------------------------------------------------------------------------
(* What follows from it.                                                   *)

\* The tables, the deliveries and the history keep their types.
THEOREM TypeCorrect == Spec => []TypeOK
<1>1. IInv => TypeOK
  BY DEF IInv
<1> QED
  BY <1>1, Invariance, PTL

\* A message is accepted again only once the first acceptance is 2 * Skew old.
THEOREM AgainOnlyLate == Spec => []AcceptedAgainOnlyLate
<1>1. IInv => AcceptedAgainOnlyLate
  BY DEF IInv
<1> QED
  BY <1>1, Invariance, PTL

\* A delivery is called a replay only after an intact one was accepted.
THEOREM ReplayTheorem == Spec => []ReplayedMeansAccepted
<1>1. IInv => ReplayedMeansAccepted
  BY DEF IInv
<1> QED
  BY <1>1, Invariance, PTL

\* Requests that arrive after a revocation are not handled.
THEOREM CutOffTheorem == Spec => []RevokedIsCutOff
<1>1. IInv => RevokedIsCutOff
  BY DEF IInv, BarredInv, RevokedIsCutOff
<1> QED
  BY <1>1, Invariance, PTL

\* Of two acceptances of one message, one was checked in the last second of its
\* window or waited for its body after the check.
THEOREM PromptOnce == Spec => []PromptAcceptedOnce
<1>1. IInv => PromptAcceptedOnce
  <2> SUFFICES ASSUME IInv, NEW r \in standing, NEW q \in standing, r # q, msg[r] = msg[q]
               PROVE  \E x \in {r, q} : at[x] > now[x] \/ now[x] = stamp[msg[x]] + Skew
    BY DEF PromptAcceptedOnce
  <2>1. \A x \in {r, q} : /\ now[x] \in Nat /\ at[x] \in Nat /\ stamp[msg[x]] \in Nat
                          /\ now[x] <= at[x]
                          /\ now[x] <= stamp[msg[x]] + Skew
                          /\ stamp[msg[x]] <= now[x] + Skew
    BY DEF IInv, TypeOK, Times, PlaceInv, ClockInv
  <2>2. at[r] >= now[q] + 2 * Skew \/ at[q] >= now[r] + 2 * Skew
    BY DEF IInv, AcceptedAgainOnlyLate
  <2> QED BY <2>1, <2>2, AuthAssumption
<1> QED
  BY <1>1, Invariance, PTL

=============================================================================
