----------------------------- MODULE MCPairCLI -----------------------------
(***************************************************************************)
(* Model-checking instance of PairCLI.                                     *)
(***************************************************************************)
EXTENDS PairCLI, TLC

Symmetry == Permutations(Submissions) \cup Permutations(Terminals)

=============================================================================
