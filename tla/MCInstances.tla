---------------------------- MODULE MCInstances ----------------------------
(***************************************************************************)
(* Model-checking instance of Instances.                                   *)
(***************************************************************************)
EXTENDS Instances, TLC

Symmetry == Permutations(Processes)

=============================================================================
