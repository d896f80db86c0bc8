------------------------------ MODULE MCDaily -------------------------------
(* Values for the model checker: days of two hours, and one guild, since   *)
(* what a pass does to one guild depends on another only by failing, which *)
(* any pass may.                                                           *)
EXTENDS Daily, TLC
CONSTANTS g1, c1, c2, p1, p2, i1
TwoCommands == {c1, c2}
OneGuild == {g1}
OneItem == {i1}
TwoPasses == {p1, p2}
Alike == Permutations(TwoCommands) \cup Permutations(TwoPasses)
=============================================================================
