------------------------- MODULE MCEventReservation -------------------------
(* Instances of EventReservation for TLC. *)
EXTENDS EventReservation, TLC

CONSTANTS w1, w2, w3, e1, e2

ThreeWorkers == {w1, w2, w3}
TwoEvents == {e1, e2}

\* Workers run the same code; events are told apart by their number only.
Symmetric == Permutations(ThreeWorkers) \cup Permutations(TwoEvents)
=============================================================================
