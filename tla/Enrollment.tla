----------------------------- MODULE Enrollment -----------------------------
(***************************************************************************)
(* What PairingManager (pairing.py) promises, without windows, codes,      *)
(* timers, locks and database calls: phones are offered to the operator    *)
(* one at a time, one that is approved may be enrolled, and a phone that   *)
(* has been refused is not enrolled any more.  Pairing implements it.      *)
(***************************************************************************)
CONSTANTS
  Phones,   \* the POST /v1/pair requests
  Approval  \* pairing.require_approval

VARIABLE phase  \* how far each request has come

Phases == {"away",      \* not admitted
           "offered",   \* shown to the operator, undecided
           "approved",  \* on its way to the database
           "enrolled",  \* in the device table, for ever
           "refused"}   \* for ever, whatever the answer

Init == phase = [s \in Phones |-> "away"]

Becomes(S, from, to) ==
  /\ \A s \in S : phase[s] \in from
  /\ phase' = [s \in Phones |-> IF s \in S THEN to ELSE phase[s]]

\* The right code, when no other phone is on its way.
Admit(s) ==
  /\ \A t \in Phones : phase[t] \notin {"offered", "approved"}
  /\ Becomes({s}, {"away"}, IF Approval THEN "offered" ELSE "approved")

Approve(s) == Becomes({s}, {"offered"}, "approved")

Enroll(s) == Becomes({s}, {"approved"}, "enrolled")

\* A wrong code, no, a timer, a closed window, a failing database or a crash; the last
\* two may befall a phone that was approved.
Refuse(S) == Becomes(S, {"away", "offered", "approved"}, "refused")

Next ==
  \/ \E s \in Phones : Admit(s) \/ Approve(s) \/ Enroll(s)
  \/ \E S \in SUBSET Phones : Refuse(S)

Spec == Init /\ [][Next]_phase

=============================================================================
