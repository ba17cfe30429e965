---------------------------- MODULE MCRestaurant ----------------------------
(* Instances of Restaurant for TLC. *)
EXTENDS Restaurant, TLC

CONSTANTS d1, d2, d3, d4, d5, d6

FourDiners == {d1, d2, d3, d4}
SixDiners == {d1, d2, d3, d4, d5, d6}

\* The diner threads run the same code; the id only appears in the output.
Symmetric == Permutations(SixDiners)
=============================================================================
