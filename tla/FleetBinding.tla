---------------------------- MODULE FleetBinding ----------------------------
(***************************************************************************)
(* What the fleet adapter makes of /discovery, /building_map and the       *)
(* rmf_adapter module at start-up: adapter.py up to the handles, and       *)
(* binding.py.  A builder is its outcome: "ok", "BindingError", or         *)
(* "raises" for any other exception, which nothing in main() catches.      *)
(***************************************************************************)
EXTENDS FleetConfig, Naturals, Sequences

CONSTANTS Robots,   \* names of robots
          Nameless, \* a robot entry without a name
          NoDict    \* an entry that is no dictionary

ASSUME RobotAssumption == Nameless \notin Robots /\ NoDict \notin Robots

(* The robots an entry or a frame names. *)
Named(list) == {list[i] : i \in DOMAIN list} \cap Robots

IsOurs(entry, name) == entry # NoDict /\ entry.fleet_name = name

(* The first match. *)
FindOurFleet(fleets, name) ==
  LET First(i) == IsOurs(fleets[i], name) /\ \A j \in 1..(i - 1) : ~IsOurs(fleets[j], name)
  IN IF \E i \in DOMAIN fleets : First(i)
     THEN fleets[CHOOSE i \in DOMAIN fleets : First(i)]
     ELSE Absent

BuildRobotHandles(entry) == Named(entry.robots)

-----------------------------------------------------------------------------
FirstFailure(outcomes) ==
  LET First(i) == outcomes[i] # "ok" /\ \A j \in 1..(i - 1) : outcomes[j] = "ok"
  IN IF \E i \in DOMAIN outcomes : First(i)
     THEN outcomes[CHOOSE i \in DOMAIN outcomes : First(i)]
     ELSE "ok"

(* The fields are checked before rmf_adapter is used for the first time. *)
BuildVehicleTraits(rmf, traits) ==
  CASE traits = "absent" -> "raises"
    [] traits = "incomplete" -> "BindingError"
    [] rmf = "unsupported" -> "raises"
    [] OTHER -> "ok"

(* No check: a key that is not there is a KeyError. *)
BuildBatterySystem(battery) == IF battery = "complete" THEN "ok" ELSE "raises"

(* "graphs" are the names of the graphs on all levels of the building map. *)
BuildGraph(graphs, nav_graph_name) ==
  CASE nav_graph_name = Absent -> "raises"
    [] nav_graph_name \in graphs -> "ok"
    [] OTHER -> "BindingError"

BuildFleetConfiguration(rmf, entry, graphs) ==
  FirstFailure(<<BuildVehicleTraits(rmf, entry.traits),
                 BuildBatterySystem(entry.battery),
                 BuildGraph(graphs, entry.nav_graph_name)>>)

(* Adapter.make(node_name) *)
MakeAdapter(rmf) ==
  CASE rmf = "noNode" -> "BindingError"
    [] rmf = "unsupported" -> "raises"
    [] OTHER -> "ok"

(* The loop over the robots calls robot.get without a look at the type. *)
BindEasyFullControl(rmf, entry, graphs) ==
  FirstFailure(<<BuildFleetConfiguration(rmf, entry, graphs),
                 MakeAdapter(rmf),
                 IF \E i \in DOMAIN entry.robots : entry.robots[i] = NoDict
                 THEN "raises" ELSE "ok">>)

(* Robots without a name or without a handle are skipped. *)
PreparedByDiscovery(entry, handles) == Named(entry.robots) \cap handles

-----------------------------------------------------------------------------
(* from_config_files returns None for a file without a usable rmf_fleet     *)
(* block, or when one of the files does not parse.                          *)
BindFromYaml(rmf, hasConfigPath, hasNavGraph, rmfBlock, filesParse) ==
  FirstFailure(<<IF hasConfigPath /\ hasNavGraph THEN "ok" ELSE "BindingError",
                 IF rmf = "unsupported" THEN "raises" ELSE "ok",
                 IF rmfBlock \in {Absent, "noDict"} \/ ~filesParse THEN "BindingError" ELSE "ok",
                 MakeAdapter(rmf)>>)

(* Fault: the handles made on the way are not put into the caller's         *)
(* dictionary.                                                              *)
HandlesLeftAsTheyAre(handles, known) == handles

(* A known robot without a handle gets one. *)
HandlesFromYaml(handles, known) == handles \cup known
=============================================================================
