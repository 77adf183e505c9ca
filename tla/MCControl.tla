----------------------------- MODULE MCControl -----------------------------
(***************************************************************************)
(* Model-checking instance of Control.                                     *)
(***************************************************************************)
EXTENDS Control, TLC

=============================================================================
