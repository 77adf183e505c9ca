\* More keys than the table holds, a burst of two, one token every two seconds.
SPECIFICATION Spec
CONSTANTS
  Keys = {k1, k2, k3, k4}
  PerMinute = 30
  Burst = 2
  MaxKeys = 3
  MaxTime = 5
  MaxHalvings = 1
SYMMETRY Symmetry
INVARIANTS
  TableBounded
  NeverStricter
  ExactUnlessHalved
