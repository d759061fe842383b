---------------------------- MODULE FleetProcess ----------------------------
(***************************************************************************)
(* The fleet adapter as a process: main() and _run_full() from the         *)
(* configuration to the exit code, and the daemon thread on which          *)
(* _StatePumpRunner drives the state pump (adapter.py, state_pump.py).     *)
(* What a robot's handle does with a state is in FleetRobot; how the pump  *)
(* gets and keeps its connection is in Subscriptions.                      *)
(*                                                                         *)
(* The pump thread goes through the iterations of its event loop:          *)
(*   new     started, run() has not assigned _loop                         *)
(*   made    _loop is assigned and not running                             *)
(*   start1  run_until_complete(start()): the first iteration, up to the   *)
(*           moment the second one takes its batch of callbacks            *)
(*   start2  the second iteration, in which the pump's task begins         *)
(*   gap     run_until_complete is over, run_forever has not begun         *)
(*   run     run_forever                                                   *)
(*   stopping           the finally block, before pump.stop() begins       *)
(*   closing            pump.stop() waits for the task it has cancelled    *)
(*   closed             the loop is closed, the thread over                *)
(***************************************************************************)
EXTENDS FleetBinding, FiniteSets

CONSTANTS Graphs,     \* names of navigation graphs
          Yamls,      \* the documents --config may name
          Envs,       \* the environments used without --config
          Entries,    \* entries /discovery may list
          Frames,     \* sequences of robot entries a frame may carry
          MaxPolls    \* looks a dry run takes for a frame, thirty in the code

ASSUME ProcessAssumption ==
  /\ Yamls \subseteq Documents
  /\ Envs \subseteq Environments
  /\ Absent \notin Entries \cup Configs
  /\ \A e \in Entries : e.robots \in Seq(Robots \cup {Nameless, NoDict})
  /\ Frames \subseteq Seq(Robots \cup {Nameless, NoDict})
  /\ MaxPolls \in Nat

VARIABLES
  main,       \* where the main thread is
  code,       \* the exit code, once decided
  config,     \* the FleetAdapterConfig
  file,       \* the rmf_fleet block of the --config file; "noFile" without one
  dry,        \* dry_run
  entry,      \* fleet_entry
  registered, \* name of the fleet Open-RMF was given
  handles,    \* keys of the handles dictionary
  prepared,   \* robots whose handle has had prepare_registration
  polls,      \* looks left to a dry run
  framesSeen, \* frames_seen() > 0
  thread,     \* where the pump thread is
  stopQueued, \* loop.stop waits among the callbacks of the loop
  stopAsked,  \* history: where the pump thread was when request_stop() ran
  blocked,    \* the loop is inside a call that has not returned
  task,       \* the pump's task
  frame,      \* the frame under dispatch, or the last one
  left,       \* how many of its entries are still to be handled
  reached     \* history: the robots whose handle was given this frame

setup == <<config, file, dry, entry, registered, handles, prepared>>
dispatch == <<frame, left, reached>>
loop == <<thread, stopQueued, blocked, task>>
vars == <<main, code, setup, polls, framesSeen, loop, stopAsked, dispatch>>

Init ==
  /\ main = "load" /\ code = Absent
  /\ config = Absent /\ file = "noFile" /\ dry = FALSE
  /\ entry = Absent /\ registered = Absent
  /\ handles = {} /\ prepared = {}
  /\ polls = MaxPolls /\ framesSeen = FALSE
  /\ thread = "none" /\ stopQueued = FALSE /\ stopAsked = "never"
  /\ blocked = FALSE /\ task = "none"
  /\ frame = <<>> /\ left = 0 /\ reached = {}

-----------------------------------------------------------------------------
(* Start-up                                                                 *)

(* A return, or an exception nothing catches, which makes it 1. *)
Exit(c) == main' = "exited" /\ code' = c /\ UNCHANGED setup

Load ==
  /\ main = "load"
  /\ \/ \E doc \in Yamls :
          IF FromYamlRaises(doc)
          THEN Exit(1)
          ELSE /\ config' = FromYaml(doc)
               /\ file' = doc.rmf
               /\ main' = "clients"
               /\ UNCHANGED <<code, dry, entry, registered, handles, prepared>>
     \/ \E env \in Envs :
          IF FromEnvRaises(env)
          THEN Exit(1)
          ELSE /\ config' = FromEnv(env)
               /\ main' = "clients"
               /\ UNCHANGED <<code, file, dry, entry, registered, handles, prepared>>
  /\ UNCHANGED <<polls, framesSeen, loop, stopAsked, dispatch>>

(* build_clients; then --dry-run, or no rmf_adapter, decides on the mode. *)
BuildClients ==
  /\ main = "clients"
  /\ IF WsBaseUrlRaises(config)
     THEN Exit(1)
     ELSE /\ dry' \in BOOLEAN
          /\ main' = IF config.dynamic_mode \/ dry' THEN "discover" ELSE "bind"
          /\ UNCHANGED <<code, config, file, entry, registered, handles, prepared>>
  /\ UNCHANGED <<polls, framesSeen, loop, stopAsked, dispatch>>

(* _fetch_fleet_entry and build_robot_handles.  An answer that is not made   *)
(* of dictionaries and lists where these expect them raises.                *)
Discover ==
  /\ main = "discover"
  /\ \/ Exit(3) \/ Exit(1)
     \/ \E a, b \in Entries \cup {NoDict} :
          LET found == FindOurFleet(<<a, b>>, config.fleet_name)
          IN IF found = Absent
             THEN Exit(4)
             ELSE /\ entry' = found
                  /\ handles' = BuildRobotHandles(found)
                  /\ main' = IF dry THEN "dry" ELSE "bind"
                  /\ UNCHANGED <<code, config, file, dry, registered, prepared>>
  /\ UNCHANGED <<polls, framesSeen, loop, stopAsked, dispatch>>

RmfAdapters == {"ok", "noNode", "unsupported"}

Unbound(outcome) == outcome # "ok" /\ Exit(IF outcome = "BindingError" THEN 7 ELSE 1)

(* The dynamic branch of _run_full.  The exceptions of get_building_map are *)
(* no BindingErrors.                                                        *)
BindDynamically ==
  /\ config.dynamic_mode
  /\ \/ Exit(1)
     \/ \E rmf \in RmfAdapters, graphs \in SUBSET Graphs :
          LET outcome == BindEasyFullControl(rmf, entry, graphs)
          IN \/ Unbound(outcome)
             \/ /\ outcome = "ok"
                /\ main' = "start"
                /\ registered' = entry.fleet_name
                /\ prepared' = PreparedByDiscovery(entry, handles)
                /\ UNCHANGED <<code, config, file, dry, entry, handles>>

(* The YAML branch. *)
BindByFile ==
  /\ ~config.dynamic_mode
  /\ \E rmf \in RmfAdapters, hasNavGraph, filesParse \in BOOLEAN, known \in SUBSET Robots :
       LET outcome == BindFromYaml(rmf, file # "noFile", hasNavGraph, file, filesParse)
       IN \/ Unbound(outcome)
          \/ /\ outcome = "ok"
             /\ main' = "start"
             /\ registered' = file
             /\ prepared' = known
             /\ handles' = HandlesFromYaml(handles, known)
             /\ UNCHANGED <<code, config, file, dry, entry>>

(* _run_full up to adapter.start(); without rclpy it returns 6. *)
Bind ==
  /\ main = "bind"
  /\ Exit(6) \/ BindDynamically \/ BindByFile
  /\ UNCHANGED <<polls, framesSeen, loop, stopAsked, dispatch>>

(* adapter.start() and _spawn_state_pump *)
SpawnStatePump ==
  /\ main = "start"
  /\ \/ /\ Exit(1)
        /\ UNCHANGED thread
     \/ /\ main' = "spin"
        /\ thread' = "new"
        /\ UNCHANGED <<code, setup>>
  /\ UNCHANGED <<polls, framesSeen, stopQueued, stopAsked, blocked, task, dispatch>>

-----------------------------------------------------------------------------
(* Dry run: one thread, asyncio.run(_run_dry(...))                          *)

DryFrame ==
  /\ main = "dry"
  /\ framesSeen' = TRUE
  /\ UNCHANGED <<main, code, setup, polls, loop, stopAsked, dispatch>>

(* Fault: the look that sees nothing is never the last. *)
DryPollAgain ==
  /\ main = "dry"
  /\ IF framesSeen
     THEN Exit(0) /\ UNCHANGED polls
     ELSE polls' = polls - 1 /\ UNCHANGED <<main, code, setup>>
  /\ UNCHANGED <<framesSeen, loop, stopAsked, dispatch>>

(* After a tenth of a second: leave with a frame or with the last look. *)
DryPoll ==
  /\ main = "dry"
  /\ IF framesSeen \/ polls = 0
     THEN Exit(IF framesSeen THEN 0 ELSE 2) /\ UNCHANGED polls
     ELSE polls' = polls - 1 /\ UNCHANGED <<main, code, setup>>
  /\ UNCHANGED <<framesSeen, loop, stopAsked, dispatch>>

-----------------------------------------------------------------------------
(* Shutdown in the main thread                                              *)

(* executor.spin() ends: KeyboardInterrupt or a ROS shutdown, or another    *)
(* exception, which leaves main() after the finally blocks.                 *)
SpinEnds ==
  /\ main = "spin"
  /\ main' = "stopping"
  /\ code' \in {0, 1}
  /\ UNCHANGED <<setup, polls, framesSeen, loop, stopAsked, dispatch>>

IsRunning == thread \in {"start1", "start2", "run", "stopping", "closing"}

(* Fault: the loop counts as running only in run_forever. *)
RequestStopWhenServing ==
  /\ main = "stopping"
  /\ main' = "joining"
  /\ stopAsked' = thread
  /\ stopQueued' = (thread = "run")
  /\ UNCHANGED <<code, setup, polls, framesSeen, thread, blocked, task, dispatch>>

(* request_stop: nothing is done about a loop that is not running. *)
RequestStop ==
  /\ main = "stopping"
  /\ main' = "joining"
  /\ stopAsked' = thread
  /\ stopQueued' = IsRunning
  /\ UNCHANGED <<code, setup, polls, framesSeen, thread, blocked, task, dispatch>>

JoinReturns ==
  /\ main = "joining"
  /\ thread = "closed"
  /\ main' = "joined"
  /\ UNCHANGED <<code, setup, polls, framesSeen, loop, stopAsked, dispatch>>

(* Fault: join without a timeout. *)
JoinNeverExpires ==
  FALSE /\ UNCHANGED vars

(* The five seconds of join are long for everything but a call that holds   *)
(* up the loop, a loop that has not been told to stop, and the close        *)
(* handshake of a connection, for which websockets takes up to ten.         *)
JoinExpires ==
  /\ main = "joining"
  /\ \/ blocked
     \/ ~stopQueued /\ thread \notin {"stopping", "closing", "closed"}
     \/ thread = "closing" /\ task = "live"
  /\ main' = "joined"
  /\ UNCHANGED <<code, setup, polls, framesSeen, loop, stopAsked, dispatch>>

(* executor.shutdown(), rclpy.shutdown() *)
RclpyShutdown ==
  /\ main = "joined"
  /\ main' = "down"
  /\ UNCHANGED <<code, setup, polls, framesSeen, loop, stopAsked, dispatch>>

(* The clients are closed and the process exits, with the daemon thread.    *)
CloseClients ==
  /\ main = "down"
  /\ main' = "exited"
  /\ UNCHANGED <<code, setup, polls, framesSeen, loop, stopAsked, dispatch>>

-----------------------------------------------------------------------------
(* The pump thread                                                          *)

Loop(from, to) ==
  /\ main # "exited" /\ ~blocked
  /\ thread = from /\ thread' = to
  /\ UNCHANGED <<main, code, setup, polls, framesSeen, stopAsked, blocked>>

MakeLoop == Loop("new", "made") /\ UNCHANGED <<stopQueued, task, dispatch>>

StartLoop == Loop("made", "start1") /\ UNCHANGED <<stopQueued, task, dispatch>>

(* start() creates the task and is done, which queues the callback that     *)
(* ends run_until_complete.  A stop in the same batch as start() ends it    *)
(* at once and leaves that callback to end run_forever; a stop behind       *)
(* start() shares the second batch with the callback and is lost.           *)
FirstIteration ==
  /\ \/ Loop("start1", "gap") /\ stopQueued /\ UNCHANGED stopQueued
     \/ Loop("start1", "start2") /\ stopQueued' = FALSE
  /\ task' = "live"
  /\ UNCHANGED dispatch

(* A stop that comes in during this iteration stays queued. *)
SecondIteration == Loop("start2", "gap") /\ UNCHANGED <<stopQueued, task, dispatch>>

RunForever == Loop("gap", "run") /\ UNCHANGED <<stopQueued, task, dispatch>>

StopLoop ==
  /\ stopQueued /\ left = 0
  /\ Loop("run", "stopping")
  /\ stopQueued' = FALSE
  /\ UNCHANGED <<task, dispatch>>

(* pump.stop(): the WebSocket client is closed and the task cancelled. *)
StopPump ==
  /\ left = 0
  /\ Loop("stopping", "closing")
  /\ UNCHANGED <<stopQueued, task, dispatch>>

(* The task is gone, which takes a close handshake if it was connected;     *)
(* then loop.close().                                                       *)
ClosePump ==
  /\ Loop("closing", "closed")
  /\ task' = "ended"
  /\ UNCHANGED <<stopQueued, dispatch>>

(* The circuit breaker, or a token that cannot be had. *)
PumpEnds ==
  /\ task = "live" /\ left = 0
  /\ \E place \in {"start2", "run", "stopping"} : Loop(place, place)
  /\ task' = "ended"
  /\ UNCHANGED <<stopQueued, dispatch>>

(* A frame, until StopPump closes the WebSocket client: also one whose      *)
(* wake-up is ahead of pump.stop() among the callbacks.                     *)
ReceiveFrame ==
  /\ task = "live" /\ left = 0
  /\ \E place \in {"run", "stopping"} : Loop(place, place)
  /\ frame' \in Frames
  /\ left' = Len(frame')
  /\ reached' = {}
  /\ UNCHANGED <<stopQueued, task>>

(* Fault: an exception of one robot's handler ends the frame. *)
HandleRobotOrGiveUp ==
  LET robot == frame[Len(frame) - left + 1]
  IN /\ left > 0
     /\ \E place \in {"run", "stopping"} : Loop(place, place)
     /\ left' \in {left - 1, 0}
     /\ reached' = reached \cup ({robot} \cap handles)
     /\ UNCHANGED <<stopQueued, task, frame>>

(* One turn of the loop over the frame.  An entry that names no robot is    *)
(* skipped, a robot without a handle ignored; what on_state raises is       *)
(* logged.                                                                  *)
HandleRobot ==
  LET robot == frame[Len(frame) - left + 1]
  IN /\ left > 0
     /\ \E place \in {"run", "stopping"} : Loop(place, place)
     /\ left' = left - 1
     /\ reached' = reached \cup ({robot} \cap handles)
     /\ UNCHANGED <<stopQueued, task, frame>>

(* get_token, add_robot and update are called on the loop. *)
CallBegins ==
  /\ main # "exited" /\ ~blocked /\ task = "live"
  /\ thread \in {"start2", "run", "stopping"}
  /\ blocked' = TRUE
  /\ UNCHANGED <<main, code, setup, polls, framesSeen, thread, stopQueued, stopAsked, task, dispatch>>

CallReturns ==
  /\ main # "exited" /\ blocked
  /\ blocked' = FALSE
  /\ UNCHANGED <<main, code, setup, polls, framesSeen, thread, stopQueued, stopAsked, task, dispatch>>

-----------------------------------------------------------------------------
StartUp == Load \/ BuildClients \/ Discover \/ Bind \/ SpawnStatePump

DryRun == DryFrame \/ DryPoll

Shutdown ==
  \/ SpinEnds \/ RequestStop \/ JoinReturns \/ JoinExpires \/ RclpyShutdown \/ CloseClients

PumpThread ==
  \/ MakeLoop \/ StartLoop \/ FirstIteration \/ SecondIteration \/ RunForever
  \/ StopLoop \/ StopPump \/ ClosePump \/ PumpEnds
  \/ ReceiveFrame \/ HandleRobot
  \/ CallBegins \/ CallReturns

Next == StartUp \/ DryRun \/ Shutdown \/ PumpThread

Spec == Init /\ [][Next]_vars

(* Both threads run.  A step of the loop makes finitely many calls, and     *)
(* loop.stop and pump.stop() wait in a queue where frames do not get ahead  *)
(* of them again and again; a close handshake has a timeout.  Frames, the   *)
(* end of the spin, and the return of a call are owed to nobody.            *)
FairSpec ==
  /\ Spec
  /\ WF_vars(StartUp) /\ WF_vars(DryPoll)
  /\ WF_vars(RequestStop) /\ WF_vars(JoinReturns) /\ WF_vars(JoinExpires)
  /\ WF_vars(RclpyShutdown) /\ WF_vars(CloseClients)
  /\ WF_vars(MakeLoop) /\ WF_vars(StartLoop) /\ WF_vars(FirstIteration)
  /\ SF_vars(SecondIteration) /\ WF_vars(RunForever) /\ SF_vars(HandleRobot)
  /\ SF_vars(StopLoop) /\ SF_vars(StopPump) /\ WF_vars(ClosePump)

-----------------------------------------------------------------------------
ThreadPlaces ==
  {"none", "new", "made", "start1", "start2", "gap", "run", "stopping", "closing", "closed"}

TypeOK ==
  /\ main \in {"load", "clients", "discover", "bind", "start", "dry", "spin",
              "stopping", "joining", "joined", "down", "exited"}
  /\ code \in {Absent, 0, 1, 2, 3, 4, 6, 7}
  /\ config \in Configs \cup {Absent}
  /\ file \in FleetNames \cup {Absent, NotText, "noDict", "noFile"}
  /\ dry \in BOOLEAN
  /\ entry \in Entries \cup {Absent}
  /\ registered \in FleetNames \cup {Absent, NotText}
  /\ handles \subseteq Robots /\ prepared \subseteq Robots
  /\ polls \in 0..MaxPolls
  /\ framesSeen \in BOOLEAN
  /\ thread \in ThreadPlaces /\ stopAsked \in ThreadPlaces \cup {"never"}
  /\ stopQueued \in BOOLEAN /\ blocked \in BOOLEAN
  /\ task \in {"none", "live", "ended"}
  /\ frame \in Frames \cup {<<>>}
  /\ left \in 0..Len(frame)
  /\ reached \subseteq Robots

(* The fleet Open-RMF is given is the one the pump subscribes to and the     *)
(* callbacks address (config.py:135: a typo must not make the adapter        *)
(* register a fleet under one name and serve another), in both modes, as     *)
(* far as both names are text.                                               *)
OneFleet ==
  thread # "none" /\ {registered, config.fleet_name} \subseteq FleetNames =>
    registered = config.fleet_name

(* Every robot that waits for its first state to be registered is one the    *)
(* pump finds a handle for, and no handle takes states only to drop them.    *)
PreparedRobotsAreServed == thread # "none" => prepared = handles

(* When a frame has been handled, every robot in it that has a handle was    *)
(* given its state, whatever the other entries were and the other handlers   *)
(* raised.                                                                   *)
FrameReachesEveryRobot == left = 0 => reached = Named(frame) \cap handles

(* What becomes of a stop depends on where the loop is when request_stop()   *)
(* looks at it.  In start2 and run it is kept until it ends the loop; in     *)
(* new, made and gap there is no running loop and the stop is lost; in       *)
(* start1 either may happen.  Nothing else ends the loop.                    *)
StopTakesHold ==
  LET kept == stopQueued \/ thread \in {"stopping", "closing", "closed"}
  IN /\ stopAsked \in {"start2", "run"} => kept
     /\ kept => stopAsked \in {"start1", "start2", "run"}

(* A stop that is asked for in start2 or run reaches the pump: its client is *)
(* closed and its task cancelled, or a call still held up the loop when the  *)
(* join expired.  The close handshake may outlast the join, and a stop asked *)
(* for in new, made, gap or late in start1 never gets here.                  *)
StopHonoured ==
  main = "joining" /\ stopAsked \in {"start2", "run"} ~>
    thread \in {"closing", "closed"} \/ (main = "joined" /\ blocked)

(* However the pump's thread fares, the process comes to its end after the   *)
(* spin, and a dry run after its polls.                                      *)
InterruptEnds == main \in {"stopping", "dry"} ~> main = "exited"
=============================================================================
