---------------------------- MODULE MCAdvertiser ----------------------------
(***************************************************************************)
(* Model-checking instance of Advertiser.                                  *)
(***************************************************************************)
EXTENDS Advertiser, TLC

Symmetry == Permutations(Submissions)

=============================================================================
