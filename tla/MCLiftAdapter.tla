--------------------------- MODULE MCLiftAdapter ---------------------------
(* Small instances of LiftAdapter for TLC. *)
EXTENDS LiftAdapter, TLC

SessionSymmetry == Permutations(Sessions)
=============================================================================
