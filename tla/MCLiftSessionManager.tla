------------------------ MODULE MCLiftSessionManager ------------------------
(* A small instance of LiftSessionManager for TLC. *)
EXTENDS LiftSessionManager
=============================================================================
