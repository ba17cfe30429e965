---------------------------- MODULE MCEcommerce ----------------------------
(* Instances of Ecommerce for TLC. *)
EXTENDS Ecommerce
=============================================================================
