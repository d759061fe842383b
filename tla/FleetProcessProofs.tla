------------------------- MODULE FleetProcessProofs -------------------------
(* Proofs about FleetProcess, for any fleets, robots, documents and frames. *)
EXTENDS FleetProcess, TLAPS

(* Where the main thread has a bound fleet. *)
BoundPlaces == {"start", "spin", "stopping", "joining", "joined", "down"}

(* What the loader has made sure of: in YAML mode, the two names agree. *)
NamesAgree ==
  config # Absent /\ ~config.dynamic_mode /\ file # "noFile"
    /\ {file, config.fleet_name} \subseteq FleetNames => file = config.fleet_name

(* What discovery has made sure of. *)
EntryIsOurs == entry # Absent => config # Absent /\ entry.fleet_name = config.fleet_name

(* How far start-up has come at each place of the main thread. *)
Progress ==
  /\ main \in {"clients", "discover", "bind", "dry"} \cup BoundPlaces => config # Absent
  /\ main = "load" => config = Absent /\ file = "noFile"
  /\ main \in {"load", "clients", "discover"} => handles = {}
  /\ main = "discover" => config.dynamic_mode \/ dry
  /\ main = "bind" /\ config.dynamic_mode => entry # Absent /\ handles = Named(entry.robots)
  /\ main = "bind" /\ ~config.dynamic_mode => handles = {}
  /\ thread # "none" => main \in BoundPlaces \cup {"exited"} /\ config # Absent
  /\ blocked => thread # "none"

(* What binding has made sure of. *)
BoundFleet ==
  main \in BoundPlaces \/ thread # "none" =>
    /\ prepared = handles
    /\ {registered, config.fleet_name} \subseteq FleetNames => registered = config.fleet_name

(* The handlers have been called for the entries before the rest. *)
Handed ==
  /\ reached = {frame[i] : i \in 1..(Len(frame) - left)} \cap handles
  /\ thread = "none" => frame = <<>> /\ left = 0 /\ reached = {}

IInv == TypeOK /\ NamesAgree /\ EntryIsOurs /\ Progress /\ BoundFleet /\ Handed

-----------------------------------------------------------------------------
(* Lemmas about the operators                                               *)

(* Nothing fails only if no stage does. *)
LEMMA ThreeStages ==
  ASSUME NEW a, NEW b, NEW c, FirstFailure(<<a, b, c>>) = "ok"
  PROVE  a = "ok" /\ b = "ok" /\ c = "ok"
<1> DEFINE s == <<a, b, c>>
           First(i) == s[i] # "ok" /\ \A j \in 1..(i - 1) : s[j] = "ok"
<1>1. DOMAIN s = {1, 2, 3} /\ s[1] = a /\ s[2] = b /\ s[3] = c
  OBVIOUS
<1>2. ~\E i \in DOMAIN s : First(i)
  <2> SUFFICES ASSUME \E i \in DOMAIN s : First(i) PROVE FALSE
    OBVIOUS
  <2>1. First(CHOOSE i \in DOMAIN s : First(i))
    OBVIOUS
  <2> QED BY <2>1 DEF FirstFailure
<1>3. a = "ok"
  BY <1>1, <1>2
<1>4. b = "ok"
  BY <1>1, <1>2, <1>3
<1>5. c = "ok"
  BY <1>1, <1>2, <1>3, <1>4
<1> QED BY <1>3, <1>4, <1>5

LEMMA FourStages ==
  ASSUME NEW a, NEW b, NEW c, NEW d, FirstFailure(<<a, b, c, d>>) = "ok"
  PROVE  a = "ok" /\ b = "ok" /\ c = "ok" /\ d = "ok"
<1> DEFINE s == <<a, b, c, d>>
           First(i) == s[i] # "ok" /\ \A j \in 1..(i - 1) : s[j] = "ok"
<1>1. DOMAIN s = {1, 2, 3, 4} /\ s[1] = a /\ s[2] = b /\ s[3] = c /\ s[4] = d
  OBVIOUS
<1>2. ~\E i \in DOMAIN s : First(i)
  <2> SUFFICES ASSUME \E i \in DOMAIN s : First(i) PROVE FALSE
    OBVIOUS
  <2>1. First(CHOOSE i \in DOMAIN s : First(i))
    OBVIOUS
  <2> QED BY <2>1 DEF FirstFailure
<1>3. a = "ok"
  BY <1>1, <1>2
<1>4. b = "ok"
  BY <1>1, <1>2, <1>3
<1>5. c = "ok"
  BY <1>1, <1>2, <1>3, <1>4
<1>6. d = "ok"
  BY <1>1, <1>2, <1>3, <1>4, <1>5
<1> QED BY <1>3, <1>4, <1>5, <1>6

(* What discovery finds is one of the entries and bears our name. *)
LEMMA FoundIsOurs ==
  ASSUME NEW a, NEW b, NEW name, FindOurFleet(<<a, b>>, name) # Absent
  PROVE  /\ FindOurFleet(<<a, b>>, name) \in {a, b}
         /\ IsOurs(FindOurFleet(<<a, b>>, name), name)
<1> DEFINE s == <<a, b>>
           First(i) == IsOurs(s[i], name) /\ \A j \in 1..(i - 1) : ~IsOurs(s[j], name)
           chosen == CHOOSE i \in DOMAIN s : First(i)
<1>1. \E i \in DOMAIN s : First(i)
  BY DEF FindOurFleet
<1>2. FindOurFleet(s, name) = s[chosen]
  BY <1>1 DEF FindOurFleet
<1>3. chosen \in DOMAIN s /\ First(chosen)
  BY <1>1
<1>4. DOMAIN s = {1, 2} /\ s[1] = a /\ s[2] = b
  OBVIOUS
<1>5. s[chosen] \in {a, b}
  BY <1>3, <1>4
<1> QED BY <1>2, <1>3, <1>5

(* A configuration that loads has a name, and in YAML mode no other one      *)
(* than the rmf_fleet block.                                                *)
LEMMA LoadedNamesAgree ==
  ASSUME NEW doc \in Documents, ~FromYamlRaises(doc)
  PROVE  /\ FromYaml(doc) \in Configs
         /\ ~FromYaml(doc).dynamic_mode
              /\ {doc.rmf, FromYaml(doc).fleet_name} \subseteq FleetNames
              => doc.rmf = FromYaml(doc).fleet_name
<1>1. CASE doc.form = "nested"
  BY <1>1, NameAssumption
  DEF Documents, Blocks, Configs, FromYamlRaises, FromYaml, FromDictRaises, FromDict,
      NamesDiffer, Coerced, Truthy
<1>2. CASE doc.form = "flat"
  <2>1. /\ ~FromDictRaises(FlatBlock(doc))
        /\ FromYaml(doc) = FromDict(FlatBlock(doc))
    BY <1>2 DEF FromYamlRaises, FromYaml
  <2>2. doc.rmf = Absent
    BY <2>1 DEF FromDictRaises, FlatBlock, DynamicByDefault, Documents, Blocks
  <2>3. FromYaml(doc) \in Configs
    BY <2>1 DEF FromDictRaises, FromDict, FlatBlock, DynamicByDefault, Documents, Blocks,
                Configs, Coerced
  <2> QED BY <2>2, <2>3, NameAssumption
<1> QED BY <1>1, <1>2 DEF Documents, FromYamlRaises

LEMMA EnvironmentLoads ==
  ASSUME NEW env \in Environments, ~FromEnvRaises(env)
  PROVE  FromEnv(env) \in Configs
BY DEF Environments, Blocks, FromEnvRaises, FromEnv, FromDictRaises, FromDict,
       DynamicByDefault, Configs, Coerced

(* A robot the pump or the binding names is a robot. *)
LEMMA NamedAreRobots ==
  ASSUME NEW list
  PROVE  Named(list) \subseteq Robots
BY DEF Named

(* Before the first frame nothing has been handed on, whatever the handles.  *)
LEMMA NothingHanded ==
  ASSUME frame = <<>>, left = 0, reached = {}
  PROVE  \A H : reached = {frame[i] : i \in 1..(Len(frame) - left)} \cap H
<1>1. Len(frame) - left = 0
  OBVIOUS
<1>2. 1..(Len(frame) - left) = {}
  BY <1>1
<1> QED BY <1>2

-----------------------------------------------------------------------------
(* The invariant holds at first and is kept                                 *)

LEMMA InitInvariant == Init => IInv
<1> SUFFICES ASSUME Init PROVE IInv
  OBVIOUS
<1>1. TypeOK
  <2>1. frame = <<>> /\ left = 0
    BY DEF Init
  <2>2. Len(frame) = 0
    BY <2>1
  <2>3. left \in 0..Len(frame)
    BY <2>1, <2>2
  <2>4. polls \in 0..MaxPolls
    BY ProcessAssumption DEF Init
  <2> QED BY <2>3, <2>4, Zenon DEF Init, TypeOK, ThreadPlaces
<1>2. Handed
  BY NothingHanded DEF Init, Handed
<1> QED BY <1>1, <1>2 DEF Init, IInv, NamesAgree, EntryIsOurs, Progress, BoundFleet, BoundPlaces

(* Nothing but the main thread's place and the exit code changes.           *)
LEMMA ExitKeepsInvariant ==
  ASSUME IInv, NEW c \in {0, 1, 2, 3, 4, 6, 7}, Exit(c),
         polls' \in 0..MaxPolls,
         UNCHANGED <<framesSeen, loop, stopAsked, dispatch>>
  PROVE  IInv'
<1> USE DEF Exit, setup, loop, dispatch
<1>1. TypeOK'
  BY DEF IInv, TypeOK
<1>2. NamesAgree' /\ EntryIsOurs' /\ Handed'
  BY DEF IInv, NamesAgree, EntryIsOurs, Handed
<1>3. Progress' /\ BoundFleet'
  BY DEF IInv, Progress, BoundFleet, BoundPlaces
<1> QED BY <1>1, <1>2, <1>3 DEF IInv

LEMMA LoadKeepsInvariant ==
  ASSUME IInv, Load
  PROVE  IInv'
<1> USE DEF setup, loop, dispatch
<1>1. ASSUME NEW doc \in Yamls, ~FromYamlRaises(doc),
             config' = FromYaml(doc), file' = doc.rmf, main' = "clients",
             UNCHANGED <<code, dry, entry, registered, handles, prepared>>
      PROVE  IInv'
  <2>1. doc \in Documents
    BY ProcessAssumption
  <2>2. /\ config' \in Configs
        /\ ~config'.dynamic_mode /\ {file', config'.fleet_name} \subseteq FleetNames
             => file' = config'.fleet_name
    BY <1>1, <2>1, LoadedNamesAgree
  <2>3. file' \in FleetNames \cup {Absent, NotText, "noDict", "noFile"}
    BY <1>1, <2>1 DEF Documents
  <2>4. TypeOK'
    BY <1>1, <2>2, <2>3 DEF Load, IInv, TypeOK
  <2>5. entry = Absent
    BY DEF Load, IInv, EntryIsOurs, Progress
  <2>6. NamesAgree' /\ EntryIsOurs' /\ Handed'
    BY <1>1, <2>2, <2>5 DEF Load, IInv, NamesAgree, EntryIsOurs, Handed
  <2>7. config' # Absent
    BY <2>2, ProcessAssumption
  <2>8. Progress' /\ BoundFleet'
    BY <1>1, <2>7 DEF Load, IInv, Progress, BoundFleet, BoundPlaces
  <2> QED BY <2>4, <2>6, <2>8 DEF IInv
<1>2. ASSUME NEW env \in Envs, ~FromEnvRaises(env), config' = FromEnv(env), main' = "clients",
             UNCHANGED <<code, file, dry, entry, registered, handles, prepared>>
      PROVE  IInv'
  <2>1. config' \in Configs
    BY <1>2, EnvironmentLoads, ProcessAssumption
  <2>2. TypeOK'
    BY <1>2, <2>1 DEF Load, IInv, TypeOK
  <2>3. entry = Absent /\ file' = "noFile"
    BY <1>2 DEF Load, IInv, EntryIsOurs, Progress
  <2>4. NamesAgree' /\ EntryIsOurs' /\ Handed'
    BY <1>2, <2>3 DEF Load, IInv, NamesAgree, EntryIsOurs, Handed
  <2>5. config' # Absent
    BY <2>1, ProcessAssumption
  <2>6. Progress' /\ BoundFleet'
    BY <1>2, <2>5 DEF Load, IInv, Progress, BoundFleet, BoundPlaces
  <2> QED BY <2>2, <2>4, <2>6 DEF IInv
<1>3. ASSUME Exit(1)
      PROVE  IInv'
  BY <1>3, ExitKeepsInvariant DEF Load, IInv, TypeOK
<1> QED BY <1>1, <1>2, <1>3 DEF Load

LEMMA BuildClientsKeepsInvariant ==
  ASSUME IInv, BuildClients
  PROVE  IInv'
<1> USE DEF setup, loop, dispatch
<1>1. ASSUME Exit(1)
      PROVE  IInv'
  BY <1>1, ExitKeepsInvariant DEF BuildClients, IInv, TypeOK
<1>2. ASSUME dry' \in BOOLEAN,
             main' = (IF config.dynamic_mode \/ dry' THEN "discover" ELSE "bind"),
             UNCHANGED <<code, config, file, entry, registered, handles, prepared>>
      PROVE  IInv'
  <2>1. TypeOK'
    BY <1>2 DEF BuildClients, IInv, TypeOK
  <2>2. NamesAgree' /\ EntryIsOurs' /\ Handed'
    BY <1>2 DEF BuildClients, IInv, NamesAgree, EntryIsOurs, Handed
  <2>3. Progress' /\ BoundFleet'
    BY <1>2 DEF BuildClients, IInv, Progress, BoundFleet, BoundPlaces
  <2> QED BY <2>1, <2>2, <2>3 DEF IInv
<1> QED BY <1>1, <1>2 DEF BuildClients

LEMMA DiscoverKeepsInvariant ==
  ASSUME IInv, Discover
  PROVE  IInv'
<1> USE DEF setup, loop, dispatch
<1>1. ASSUME NEW c \in {1, 3, 4}, Exit(c)
      PROVE  IInv'
  BY <1>1, ExitKeepsInvariant DEF Discover, IInv, TypeOK
<1>2. ASSUME NEW a \in Entries \cup {NoDict}, NEW b \in Entries \cup {NoDict},
             FindOurFleet(<<a, b>>, config.fleet_name) # Absent,
             entry' = FindOurFleet(<<a, b>>, config.fleet_name),
             handles' = BuildRobotHandles(FindOurFleet(<<a, b>>, config.fleet_name)),
             main' = (IF dry THEN "dry" ELSE "bind"),
             UNCHANGED <<code, config, file, dry, registered, prepared>>
      PROVE  IInv'
  <2>1. /\ entry' \in Entries
        /\ entry'.fleet_name = config.fleet_name
        /\ handles' = Named(entry'.robots)
    BY <1>2, FoundIsOurs DEF IsOurs, BuildRobotHandles
  <2>2. TypeOK'
    BY <1>2, <2>1, NamedAreRobots DEF Discover, IInv, TypeOK
  <2>3. thread = "none"
    BY DEF Discover, IInv, Progress, BoundPlaces
  <2>4. NamesAgree' /\ EntryIsOurs'
    BY <1>2, <2>1 DEF Discover, IInv, NamesAgree, EntryIsOurs, Progress
  <2>5. Handed'
    BY <2>3, NothingHanded DEF Discover, IInv, Handed
  <2>6. Progress' /\ BoundFleet'
    BY <1>2, <2>1, <2>3, ProcessAssumption
    DEF Discover, IInv, Progress, BoundFleet, BoundPlaces
  <2> QED BY <2>2, <2>4, <2>5, <2>6 DEF IInv
<1> QED BY <1>1, <1>2 DEF Discover

LEMMA BindKeepsInvariant ==
  ASSUME IInv, Bind
  PROVE  IInv'
<1> USE DEF setup, loop, dispatch
<1>1. ASSUME NEW c \in {1, 6, 7}, Exit(c)
      PROVE  IInv'
  BY <1>1, ExitKeepsInvariant DEF Bind, IInv, TypeOK
<1>2. thread = "none"
  BY DEF Bind, IInv, Progress, BoundPlaces
<1>3. ASSUME main' = "start", registered' \in FleetNames \cup {Absent, NotText},
             prepared' \subseteq Robots, handles' = prepared',
             {registered', config.fleet_name} \subseteq FleetNames
               => registered' = config.fleet_name,
             UNCHANGED <<code, config, file, dry, entry>>
      PROVE  IInv'
  <2>1. TypeOK'
    BY <1>3 DEF Bind, IInv, TypeOK
  <2>2. NamesAgree' /\ EntryIsOurs' /\ Handed'
    BY <1>2, <1>3, NothingHanded DEF Bind, IInv, NamesAgree, EntryIsOurs, Handed
  <2>3. Progress' /\ BoundFleet'
    BY <1>2, <1>3 DEF Bind, IInv, Progress, BoundFleet, BoundPlaces
  <2> QED BY <2>1, <2>2, <2>3 DEF IInv
<1>4. ASSUME NEW outcome, Unbound(outcome)
      PROVE  IInv'
  BY <1>1, <1>4 DEF Unbound
<1>5. ASSUME BindDynamically
      PROVE  IInv'
  <2>1. ASSUME main' = "start", registered' = entry.fleet_name,
               prepared' = PreparedByDiscovery(entry, handles),
               UNCHANGED <<code, config, file, dry, entry, handles>>
        PROVE  IInv'
    <3>1. entry # Absent /\ handles = Named(entry.robots)
      BY <1>5 DEF Bind, BindDynamically, IInv, Progress
    <3>2. prepared' = handles /\ prepared' \subseteq Robots
      BY <2>1, <3>1, NamedAreRobots DEF PreparedByDiscovery
    <3>3. registered' = config.fleet_name /\ config \in Configs
      BY <2>1, <3>1 DEF IInv, EntryIsOurs, TypeOK
    <3>4. registered' \in FleetNames \cup {Absent, NotText}
      BY <3>3 DEF Configs
    <3> QED BY <1>3, <2>1, <3>2, <3>3, <3>4
  <2> QED BY <1>1, <1>4, <1>5, <2>1 DEF BindDynamically
<1>6. ASSUME BindByFile
      PROVE  IInv'
  <2>1. ASSUME NEW rmf \in RmfAdapters, NEW hasNavGraph \in BOOLEAN,
               NEW filesParse \in BOOLEAN, NEW known \in SUBSET Robots,
               BindFromYaml(rmf, file # "noFile", hasNavGraph, file, filesParse) = "ok",
               main' = "start", registered' = file, prepared' = known,
               handles' = HandlesFromYaml(handles, known),
               UNCHANGED <<code, config, file, dry, entry>>
        PROVE  IInv'
    <3>1. file # "noFile" /\ file \notin {Absent, "noDict"}
      <4>1. /\ (IF file # "noFile" /\ hasNavGraph THEN "ok" ELSE "BindingError") = "ok"
            /\ (IF file \in {Absent, "noDict"} \/ ~filesParse THEN "BindingError" ELSE "ok") = "ok"
        BY <2>1, FourStages DEF BindFromYaml
      <4> QED BY <4>1
    <3>2. handles' = prepared'
      BY <1>6, <2>1 DEF Bind, BindByFile, HandlesFromYaml, IInv, Progress
    <3>3. registered' \in FleetNames \cup {Absent, NotText}
      BY <2>1, <3>1 DEF IInv, TypeOK
    <3>4. {registered', config.fleet_name} \subseteq FleetNames => registered' = config.fleet_name
      BY <1>6, <2>1, <3>1 DEF Bind, BindByFile, IInv, NamesAgree, Progress
    <3> QED BY <1>3, <2>1, <3>2, <3>3, <3>4
  <2> QED BY <1>4, <1>6, <2>1 DEF BindByFile
<1> QED BY <1>1, <1>5, <1>6 DEF Bind

LEMMA SpawnKeepsInvariant ==
  ASSUME IInv, SpawnStatePump
  PROVE  IInv'
<1> USE DEF setup, dispatch
<1>1. ASSUME Exit(1), UNCHANGED thread
      PROVE  IInv'
  BY <1>1, ExitKeepsInvariant DEF SpawnStatePump, IInv, TypeOK, loop
<1>2. ASSUME main' = "spin", thread' = "new", UNCHANGED <<code, setup>>
      PROVE  IInv'
  <2>1. TypeOK'
    BY <1>2 DEF SpawnStatePump, IInv, TypeOK, ThreadPlaces
  <2>2. NamesAgree' /\ EntryIsOurs' /\ Handed'
    BY <1>2 DEF SpawnStatePump, IInv, NamesAgree, EntryIsOurs, Handed
  <2>3. Progress' /\ BoundFleet'
    BY <1>2 DEF SpawnStatePump, IInv, Progress, BoundFleet, BoundPlaces
  <2> QED BY <2>1, <2>2, <2>3 DEF IInv
<1> QED BY <1>1, <1>2 DEF SpawnStatePump

LEMMA DryRunKeepsInvariant ==
  ASSUME IInv, DryRun
  PROVE  IInv'
<1> USE DEF setup, loop, dispatch
<1>1. CASE DryFrame
  BY <1>1 DEF DryFrame, IInv, TypeOK, NamesAgree, EntryIsOurs, Progress, BoundFleet,
              BoundPlaces, Handed
<1>2. CASE DryPoll
  <2>1. ASSUME NEW c \in {0, 2}, Exit(c), UNCHANGED polls
        PROVE  IInv'
    BY <1>2, <2>1, ExitKeepsInvariant DEF DryPoll, IInv, TypeOK
  <2>2. ASSUME polls # 0, polls' = polls - 1, UNCHANGED <<main, code, setup>>
        PROVE  IInv'
    <3>1. polls' \in 0..MaxPolls
      BY <2>2, ProcessAssumption DEF IInv, TypeOK
    <3> QED BY <1>2, <2>2, <3>1
            DEF DryPoll, IInv, TypeOK, NamesAgree, EntryIsOurs, Progress, BoundFleet,
                BoundPlaces, Handed
  <2> QED BY <1>2, <2>1, <2>2 DEF DryPoll
<1> QED BY <1>1, <1>2 DEF DryRun

(* A step of the main thread after the spin, or of the pump thread, that     *)
(* leaves what binding set up.                                               *)
LEMMA ServingKeepsInvariant ==
  ASSUME IInv, TypeOK', Handed', UNCHANGED setup,
         main' = main \/ (main \in BoundPlaces /\ main' \in BoundPlaces \cup {"exited"}),
         thread' # "none" <=> thread # "none",
         blocked' => thread' # "none"
  PROVE  IInv'
<1> USE DEF setup
<1>1. NamesAgree' /\ EntryIsOurs'
  BY DEF IInv, NamesAgree, EntryIsOurs
<1>2. Progress' /\ BoundFleet'
  BY DEF IInv, Progress, BoundFleet, BoundPlaces
<1> QED BY <1>1, <1>2 DEF IInv

LEMMA ShutdownKeepsInvariant ==
  ASSUME IInv, Shutdown
  PROVE  IInv'
<1> USE DEF setup, loop, dispatch
<1>1. main \in BoundPlaces /\ main' \in BoundPlaces \cup {"exited"}
  BY DEF Shutdown, SpinEnds, RequestStop, JoinReturns, JoinExpires, RclpyShutdown, CloseClients,
         BoundPlaces
<1>2. UNCHANGED setup /\ UNCHANGED <<thread, dispatch>>
  BY DEF Shutdown, SpinEnds, RequestStop, JoinReturns, JoinExpires, RclpyShutdown, CloseClients
<1>3. /\ code' \in {Absent, 0, 1, 2, 3, 4, 6, 7}
      /\ stopAsked' \in ThreadPlaces \cup {"never"}
      /\ stopQueued' \in BOOLEAN
      /\ UNCHANGED <<polls, framesSeen, blocked, task>>
  <2>1. CASE RequestStop
    BY <2>1 DEF RequestStop, IsRunning, IInv, TypeOK
  <2>2. CASE SpinEnds
    BY <2>2 DEF SpinEnds, IInv, TypeOK
  <2>3. CASE JoinReturns \/ JoinExpires \/ RclpyShutdown \/ CloseClients
    BY <2>3 DEF JoinReturns, JoinExpires, RclpyShutdown, CloseClients, IInv, TypeOK
  <2> QED BY <2>1, <2>2, <2>3 DEF Shutdown
<1>4. TypeOK' /\ Handed'
  BY <1>1, <1>2, <1>3 DEF IInv, TypeOK, Handed, BoundPlaces
<1>5. blocked' => thread' # "none"
  BY <1>2, <1>3 DEF IInv, Progress
<1>6. thread' # "none" <=> thread # "none"
  BY <1>2
<1> QED BY <1>1, <1>2, <1>4, <1>5, <1>6, ServingKeepsInvariant

(* The steps of the pump thread outside the dispatch of a frame. *)
LEMMA LoopKeepsInvariant ==
  ASSUME IInv, UNCHANGED <<main, code, setup, polls, framesSeen, stopAsked, dispatch>>,
         thread # "none", thread' \in ThreadPlaces \ {"none"},
         stopQueued' \in BOOLEAN, blocked' \in BOOLEAN, task' \in {"none", "live", "ended"}
  PROVE  IInv'
<1> USE DEF setup, dispatch
<1>1. TypeOK'
  BY DEF IInv, TypeOK
<1>2. Handed'
  BY DEF IInv, Handed
<1>3. UNCHANGED setup /\ main' = main /\ thread' # "none"
  OBVIOUS
<1>4. blocked' => thread' # "none"
  BY <1>3
<1>5. thread' # "none" <=> thread # "none"
  BY <1>3
<1> QED BY <1>1, <1>2, <1>3, <1>4, <1>5, ServingKeepsInvariant

LEMMA PumpThreadKeepsInvariant ==
  ASSUME IInv, PumpThread
  PROVE  IInv'
<1> USE DEF setup, loop
<1>1. CASE MakeLoop \/ StartLoop \/ FirstIteration \/ SecondIteration \/ RunForever
  <2>1. CASE FirstIteration
    BY <2>1, LoopKeepsInvariant DEF FirstIteration, Loop, IInv, TypeOK, ThreadPlaces
  <2>2. CASE MakeLoop \/ StartLoop \/ SecondIteration \/ RunForever
    BY <2>2, LoopKeepsInvariant
    DEF MakeLoop, StartLoop, SecondIteration, RunForever, Loop, IInv, TypeOK, ThreadPlaces
  <2> QED BY <1>1, <2>1, <2>2
<1>2. CASE StopLoop \/ StopPump \/ ClosePump \/ PumpEnds
  BY <1>2, LoopKeepsInvariant
  DEF StopLoop, StopPump, ClosePump, PumpEnds, Loop, IInv, TypeOK, ThreadPlaces
<1>3. CASE CallBegins \/ CallReturns
  <2>1. CASE CallBegins
    BY <2>1, LoopKeepsInvariant DEF CallBegins, IInv, TypeOK
  <2>2. CASE CallReturns
    BY <2>2, LoopKeepsInvariant DEF CallReturns, IInv, TypeOK, Progress
  <2> QED BY <1>3, <2>1, <2>2
<1>4. ASSUME NEW place \in {"run", "stopping"}, Loop(place, place), UNCHANGED <<stopQueued, task>>,
             frame' \in Frames \cup {<<>>}, left' \in 0..Len(frame'), reached' \subseteq Robots, Handed'
      PROVE  IInv'
  <2>1. TypeOK'
    BY <1>4 DEF Loop, IInv, TypeOK
  <2>2. UNCHANGED setup /\ main' = main /\ thread' # "none" /\ thread # "none"
    BY <1>4 DEF Loop
  <2> QED BY <1>4, <2>1, <2>2, ServingKeepsInvariant
<1>5. \A f \in Frames : f \in Seq(Robots \cup {Nameless, NoDict}) /\ Len(f) \in Nat
  BY ProcessAssumption
<1>6. CASE ReceiveFrame
  <2>1. Len(frame') - left' = 0 /\ left' \in 0..Len(frame')
    BY <1>5, <1>6 DEF ReceiveFrame
  <2>2. 1..(Len(frame') - left') = {}
    BY <2>1
  <2>3. PICK place \in {"run", "stopping"} : Loop(place, place)
    BY <1>6 DEF ReceiveFrame
  <2>4. Handed'
    BY <1>6, <2>2, <2>3 DEF ReceiveFrame, Handed, Loop
  <2> QED BY <1>4, <1>6, <2>1, <2>3, <2>4 DEF ReceiveFrame
<1>7. CASE HandleRobot
  <2> DEFINE n == Len(frame) - left
             robot == frame[n + 1]
  <2>1. left \in 1..Len(frame) /\ Len(frame) \in Nat
    BY <1>5, <1>7 DEF HandleRobot, IInv, TypeOK
  <2>2. n \in Nat /\ left' = left - 1 /\ left' \in 0..Len(frame) /\ Len(frame) - left' = n + 1
    BY <1>7, <2>1 DEF HandleRobot
  <2>3. 1..(n + 1) = 1..n \cup {n + 1}
    BY <2>2
  <2>4. PICK place \in {"run", "stopping"} : Loop(place, place)
    BY <1>7 DEF HandleRobot
  <2>5. /\ frame' = frame /\ handles' = handles
        /\ reached' = reached \cup ({robot} \cap handles)
        /\ reached = {frame[i] : i \in 1..n} \cap handles
    BY <1>7, <2>4 DEF HandleRobot, Loop, IInv, Handed
  <2>6. reached' = {frame'[i] : i \in 1..(Len(frame') - left')} \cap handles'
    <3> HIDE DEF n
    <3> QED BY <2>2, <2>3, <2>5
  <2>7. Handed'
    BY <2>4, <2>6 DEF Handed, Loop
  <2>8. reached' \subseteq Robots /\ frame' \in Frames \cup {<<>>}
    BY <2>5 DEF IInv, TypeOK
  <2> QED BY <1>4, <1>7, <2>2, <2>4, <2>5, <2>7, <2>8 DEF HandleRobot
<1> QED BY <1>1, <1>2, <1>3, <1>6, <1>7 DEF PumpThread

-----------------------------------------------------------------------------
(* Every reachable state is as the invariant says. *)
THEOREM Invariance == Spec => []IInv
<1>1. IInv /\ [Next]_vars => IInv'
  <2> SUFFICES ASSUME IInv, [Next]_vars PROVE IInv'
    OBVIOUS
  <2>1. CASE StartUp
    BY <2>1, LoadKeepsInvariant, BuildClientsKeepsInvariant, DiscoverKeepsInvariant,
       BindKeepsInvariant, SpawnKeepsInvariant DEF StartUp
  <2>2. CASE UNCHANGED vars
    BY <2>2 DEF vars, setup, loop, dispatch, IInv, TypeOK, NamesAgree, EntryIsOurs, Progress,
                BoundFleet, Handed
  <2> QED BY <2>1, <2>2, DryRunKeepsInvariant, ShutdownKeepsInvariant, PumpThreadKeepsInvariant
          DEF Next
<1> QED BY <1>1, InitInvariant, PTL DEF Spec

(* The variables keep to their types. *)
THEOREM TypeCorrectness == Spec => []TypeOK
<1>1. IInv => TypeOK
  BY DEF IInv
<1> QED BY <1>1, Invariance, PTL

(* One fleet: in both modes, Open-RMF is given the fleet whose states the    *)
(* pump subscribes to (config.py:135, adapter.py _fetch_fleet_entry).        *)
THEOREM FleetIdentity == Spec => []OneFleet
<1>1. IInv => OneFleet
  BY DEF IInv, BoundFleet, OneFleet
<1> QED BY <1>1, Invariance, PTL

(* The robots prepared for registration are those the pump has handles for,  *)
(* in both modes (binding.py).                                               *)
THEOREM PreparedAreServed == Spec => []PreparedRobotsAreServed
<1>1. IInv => PreparedRobotsAreServed
  BY DEF IInv, BoundFleet, PreparedRobotsAreServed
<1> QED BY <1>1, Invariance, PTL

(* A frame reaches the handle of every robot it names, for frames of any     *)
(* length (state_pump.py _dispatch).                                         *)
THEOREM FramesReachRobots == Spec => []FrameReachesEveryRobot
<1>1. IInv => FrameReachesEveryRobot
  <2> SUFFICES ASSUME IInv, left = 0 PROVE reached = Named(frame) \cap handles
    BY DEF FrameReachesEveryRobot
  <2>1. frame \in Seq(Robots \cup {Nameless, NoDict})
    <3>1. <<>> \in Seq(Robots \cup {Nameless, NoDict})
      OBVIOUS
    <3> QED BY <3>1, ProcessAssumption DEF IInv, TypeOK
  <2>2. DOMAIN frame = 1..(Len(frame) - left)
    BY <2>1
  <2>3. handles \subseteq Robots
    BY DEF IInv, TypeOK
  <2> QED BY <2>2, <2>3 DEF IInv, Handed, Named
<1> QED BY <1>1, Invariance, PTL
-----------------------------------------------------------------------------
(* Stops                                                                    *)

(* A stop asked for in start2 or run finds a loop that is behind the one     *)
(* place where a queued stop is thrown away, and stays queued to its end; no *)
(* loop is made later, and none ends before a stop was asked for.            *)
StopQueuedInTime ==
  /\ stopAsked # "never" => main \in {"joining", "joined", "down", "exited"}
  /\ stopAsked \in {"start2", "run"} =>
       \/ stopQueued /\ thread \in {"start2", "gap", "run"}
       \/ thread \in {"stopping", "closing", "closed"}
  /\ stopQueued \/ thread \in {"stopping", "closing", "closed"} =>
       stopAsked \in {"start1", "start2", "run"}

(* What request_stop() finds decides on the stop: a loop in start2 or run    *)
(* serves on only with the stop among its callbacks; one that is not running *)
(* (new, made, gap) is never ended at all, and its stop is lost (adapter.py  *)
(* _StatePumpRunner).                                                        *)
THEOREM StopsTakeHold == Spec => []StopTakesHold
<1>1. Init => StopQueuedInTime
  BY DEF Init, StopQueuedInTime
<1>2. StopQueuedInTime /\ [Next]_vars => StopQueuedInTime'
  <2> SUFFICES ASSUME StopQueuedInTime, [Next]_vars PROVE StopQueuedInTime'
    OBVIOUS
  <2> USE DEF StopQueuedInTime
  <2>1. CASE StartUp
    <3>1. CASE SpawnStatePump
      BY <3>1, <2>1 DEF SpawnStatePump
    <3> QED BY <2>1, <3>1 DEF StartUp, Load, BuildClients, Discover, Bind, loop
  <2>2. CASE DryRun \/ UNCHANGED vars
    BY <2>2 DEF DryRun, DryFrame, DryPoll, vars, loop
  <2>3. CASE Shutdown
    <3>1. CASE RequestStop
      BY <3>1 DEF RequestStop, IsRunning
    <3> QED BY <2>3, <3>1 DEF Shutdown, SpinEnds, JoinReturns, JoinExpires, RclpyShutdown,
                              CloseClients, loop
  <2>4. CASE PumpThread
    <3>1. CASE FirstIteration \/ SecondIteration \/ RunForever \/ StopLoop
      BY <3>1 DEF FirstIteration, SecondIteration, RunForever, StopLoop, Loop
    <3>2. CASE MakeLoop \/ StartLoop \/ StopPump \/ ClosePump \/ PumpEnds
      BY <3>2 DEF MakeLoop, StartLoop, StopPump, ClosePump, PumpEnds, Loop
    <3>3. CASE ReceiveFrame \/ HandleRobot \/ CallBegins \/ CallReturns
      BY <3>3 DEF ReceiveFrame, HandleRobot, CallBegins, CallReturns, Loop
    <3> QED BY <2>4, <3>1, <3>2, <3>3 DEF PumpThread
  <2> QED BY <2>1, <2>2, <2>3, <2>4 DEF Next
<1>3. StopQueuedInTime => StopTakesHold
  BY DEF StopQueuedInTime, StopTakesHold
<1> QED BY <1>1, <1>2, <1>3, PTL DEF Spec

(* The half of StopHonoured that is not about progress: on a pump that was   *)
(* asked to stop in start2 or run, the join gives up only while a call holds *)
(* up its loop or its cancelled task goes through the close handshake.       *)
THEOREM JoinsExpireForCause ==
  Spec => [][JoinExpires /\ stopAsked \in {"start2", "run"} =>
               blocked \/ (thread = "closing" /\ task = "live")]_vars
<1>1. StopTakesHold =>
        (JoinExpires /\ stopAsked \in {"start2", "run"} =>
           blocked \/ (thread = "closing" /\ task = "live"))
  BY DEF StopTakesHold, JoinExpires
<1> QED BY <1>1, StopsTakeHold, PTL
=============================================================================
