--------------------------- MODULE MCInteractions ---------------------------
(* Values for the model checker: two handlers of each kind.                *)
EXTENDS Interactions, TLC
CONSTANTS c1, c2, w1, w2, s1, s2
TwoClicks == {c1, c2}
TwoWatchers == {w1, w2}
TwoSubmits == {s1, s2}
Symmetry == Permutations(Clicks) \cup Permutations(Watchers) \cup Permutations(Submits)
=============================================================================
