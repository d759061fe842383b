--------------------------- MODULE MCDoorAdapter ---------------------------
(* A small instance of DoorAdapter for TLC. *)
EXTENDS DoorAdapter
=============================================================================
