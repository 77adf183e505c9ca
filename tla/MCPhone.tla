------------------------------ MODULE MCPhone ------------------------------
(***************************************************************************)
(* Model-checking instance of Phone.                                       *)
(***************************************************************************)
EXTENDS Phone, TLC

=============================================================================
