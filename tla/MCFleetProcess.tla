--------------------------- MODULE MCFleetProcess ---------------------------
(* Small instances of FleetProcess for TLC. *)
EXTENDS FleetProcess, TLC

AllEntries ==
  [fleet_name : FleetNames \cup {NotText},
   robots : {<<>>, <<"r1", Nameless>>, <<"r2", NoDict, "r1">>, <<"r1", "r2">>},
   traits : {"complete", "incomplete", "absent"},
   battery : {"complete", "absent"},
   nav_graph_name : Graphs \cup {Absent}]

AllFrames == {<<"r1", "r2">>, <<NoDict, "r2">>, <<"r2", Nameless, "r1">>}
=============================================================================
