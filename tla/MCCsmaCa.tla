------------------------------ MODULE MCCsmaCa ------------------------------
(* Instances of CsmaCa for TLC. *)
EXTENDS CsmaCa
=============================================================================
