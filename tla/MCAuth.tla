------------------------------- MODULE MCAuth -------------------------------
(***************************************************************************)
(* Model-checking instances of Auth.  Deliveries are interchangeable model *)
(* values, so safety runs may use symmetry; with one device it owns every  *)
(* message.                                                                *)
(***************************************************************************)
EXTENDS Auth, TLC

OneOwner == [m \in Messages |-> CHOOSE d \in Devices : TRUE]

Symmetry == Permutations(Deliveries)

=============================================================================
