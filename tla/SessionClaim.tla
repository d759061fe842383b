---------------------------- MODULE SessionClaim ----------------------------
(***************************************************************************)
(* What the lift adapter's session manager promises, without clocks or     *)
(* dictionaries: per lift, the session whose claim the adapter honours     *)
(* (claim) and the session the last state frame named (seen).  Every step  *)
(* keeps the two compatible, and a claim reaches another session only      *)
(* through Free.                                                           *)
(***************************************************************************)
CONSTANTS Lifts,     \* the lifts the node manages
          Sessions,  \* the non-empty session ids
          Free       \* no session: an absent entry, or "" on the wire

VARIABLES claim, seen

claimVars == <<claim, seen>>

Holder == Sessions \cup {Free}

ClaimInit ==
  /\ claim = [l \in Lifts |-> Free]
  /\ seen = [l \in Lifts |-> Free]

(* Nobody else holds the lift, as far as the adapter knows. *)
Claim(l, s) ==
  /\ claim[l] \in {Free, s}
  /\ seen[l] \in {Free, s}
  /\ claim' = [claim EXCEPT ![l] = s]
  /\ UNCHANGED seen

(* A claim ends: released by its session, or out of time. *)
Drop(ls) ==
  /\ claim' = [l \in Lifts |-> IF l \in ls THEN Free ELSE claim[l]]
  /\ UNCHANGED seen

(* A frame names the holder h; only a claim of h itself survives it. *)
See(l, h) ==
  /\ seen' = [seen EXCEPT ![l] = h]
  /\ claim' = [claim EXCEPT ![l] = IF claim[l] = h THEN h ELSE Free]

(* The process restarts and remembers nothing. *)
Forget ==
  /\ claim' = [l \in Lifts |-> Free]
  /\ seen' = [l \in Lifts |-> Free]

ClaimNext ==
  \/ \E l \in Lifts, s \in Sessions : Claim(l, s)
  \/ \E ls \in SUBSET Lifts : Drop(ls)
  \/ \E l \in Lifts, h \in Holder : See(l, h)
  \/ Forget

ClaimSpec == ClaimInit /\ [][ClaimNext]_claimVars
=============================================================================
