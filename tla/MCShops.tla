------------------------------ MODULE MCShops -------------------------------
(* Values for the model checker: two interactions at a time, two languages. *)
EXTENDS Shops, TLC
CONSTANTS c1, c2
TwoCalls == {c1, c2}
TwoLangs == {KO, "en"}
CallSymmetry == Permutations(TwoCalls)
=============================================================================
