----------------------------- MODULE MCSession -----------------------------
(***************************************************************************)
(* Model-checking instance of Session.                                     *)
(***************************************************************************)
EXTENDS Session, TLC

CONSTANTS s1, s2, m, o

KindValue == (s1 :> "own") @@ (s2 :> "own") @@ (m :> "manager") @@ (o :> "other")

NumValue == (s1 :> 1) @@ (s2 :> 2) @@ (m :> 3) @@ (o :> 4)

=============================================================================
