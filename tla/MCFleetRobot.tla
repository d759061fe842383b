---------------------------- MODULE MCFleetRobot ----------------------------
(* A small instance of FleetRobot for TLC. *)
EXTENDS FleetRobot
=============================================================================
