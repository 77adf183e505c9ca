----------------------------- MODULE MCPairing -----------------------------
(***************************************************************************)
(* Model-checking instance of Pairing.  Submissions are interchangeable    *)
(* model values, so safety runs may use symmetry.                          *)
(***************************************************************************)
EXTENDS Pairing, TLC

Symmetry == Permutations(Submissions)

=============================================================================
