-------------------------- MODULE MCSubscriptions --------------------------
(* A small instance of Subscriptions for TLC. *)
EXTENDS Subscriptions
=============================================================================
