-------------------------- MODULE MCConfiguration --------------------------
(***************************************************************************)
(* Model-checking instance of Configuration.                               *)
(***************************************************************************)
EXTENDS Configuration

CONSTANTS lan1, lan2

File(name, networks, targets) ==
  [valid |-> TRUE, name |-> name, networks |-> networks, targets |-> targets]

\* A bond of the two, and an InfiniBand card.
MacsValue == [i \in Interfaces |-> IF i = 1 THEN {1, Shared} ELSE {i, Shared, Wide}]

EditsValue ==
  { [File(Default, Default, Default) EXCEPT !.valid = FALSE],
    File("short", {lan1}, <<[mac |-> 1, broadcast |-> Default], [mac |-> 2, broadcast |-> lan1]>>),
    File(Default, Default, <<[mac |-> Wide, broadcast |-> lan1]>>) }

=============================================================================
