----------------------------- MODULE FleetConfig -----------------------------
(***************************************************************************)
(* config.py of the fleet adapter: which YAML documents and environments   *)
(* the loaders accept, and the FleetAdapterConfig they return.  A document *)
(* is reduced to what the loaders tell apart.                              *)
(***************************************************************************)
CONSTANTS FleetNames, \* texts a fleet is called by
          Absent,     \* a key that is not there
          NotText     \* a value that is no text, like the number 42

ASSUME NameAssumption ==
  /\ Absent \notin FleetNames
  /\ NotText \notin FleetNames
  /\ Absent # NotText

(* The quiksync block, or the environment.  A "defect" is a key that makes  *)
(* from_dict raise whatever the rest says.                                  *)
Blocks ==
  [fleet_name : FleetNames \cup {Absent, NotText},
   dynamic_mode : {"absent", "true", "false", "textTrue", "textFalse"},
   secret : {"value", "file", "lostFile", "absent"},
   defect : {"none", "unknownKey", "badNumber", "missingField"},
   base_url : {"http(s)", "other"}]

(* "rmf" is the rmf_fleet block: absent, no dictionary, or the value of its *)
(* "name" key.                                                              *)
Documents ==
  [form : {"lost", "noDict", "nested", "flat"},
   rmf : FleetNames \cup {Absent, NotText, "noDict"},
   block : Blocks]

(* from_env finds only fields of the dataclass, and all of them as text.    *)
Environments ==
  {b \in Blocks : /\ b.fleet_name # NotText
                  /\ b.dynamic_mode \in {"absent", "textTrue", "textFalse"}
                  /\ b.secret \in {"value", "absent"}
                  /\ b.defect # "unknownKey"}

-----------------------------------------------------------------------------
(* Python takes every text but the empty one for true. *)
Truthy(mode) == mode \in {"true", "textTrue", "textFalse"}

(* dynamic_mode.strip().lower() in ("1", "true", "yes", "on") *)
Coerced(mode) == mode \in {"true", "textTrue"}

FromDictRaises(block) ==
  \/ block.secret \in {"lostFile", "absent"}
  \/ block.defect # "none"
  \/ block.fleet_name = Absent

(* FleetAdapterConfig *)
Configs ==
  [fleet_name : FleetNames \cup {NotText}, dynamic_mode : BOOLEAN, base_url : {"http(s)", "other"}]

FromDict(block) ==
  [fleet_name |-> block.fleet_name,
   dynamic_mode |-> Coerced(block.dynamic_mode),
   base_url |-> block.base_url]

(* setdefault("dynamic_mode", True) *)
DynamicByDefault(block) ==
  [block EXCEPT !.dynamic_mode = IF @ = "absent" THEN "true" ELSE @]

(* An rmf_fleet key beside the keys of the flat form is an unknown key. *)
FlatBlock(doc) ==
  [DynamicByDefault(doc.block) EXCEPT !.defect = IF doc.rmf = Absent THEN @ ELSE "unknownKey"]

NamesDiffer(doc) ==
  /\ doc.rmf \in FleetNames
  /\ doc.block.fleet_name \in FleetNames
  /\ doc.rmf # doc.block.fleet_name

(* Fault: the two names are not compared. *)
FromYamlTakesAnyName(doc) ==
  CASE doc.form = "nested" ->
         \/ ~Truthy(doc.block.dynamic_mode) /\ doc.rmf = Absent
         \/ FromDictRaises(doc.block)
    [] doc.form = "flat" -> FromDictRaises(FlatBlock(doc))
    [] OTHER -> TRUE

FromYamlRaises(doc) ==
  CASE doc.form = "nested" ->
         \/ ~Truthy(doc.block.dynamic_mode) /\ doc.rmf = Absent
         \/ NamesDiffer(doc)
         \/ FromDictRaises(doc.block)
    [] doc.form = "flat" -> FromDictRaises(FlatBlock(doc))
    [] OTHER -> TRUE

FromYaml(doc) ==
  FromDict(IF doc.form = "nested" THEN doc.block ELSE FlatBlock(doc))

FromEnvRaises(env) == FromDictRaises(DynamicByDefault(env))

FromEnv(env) == FromDict(DynamicByDefault(env))

(* Raised by build_clients, which main calls outside its try. *)
WsBaseUrlRaises(config) == config.base_url = "other"
=============================================================================
