----------------------------- MODULE FleetRobot -----------------------------
(***************************************************************************)
(* One robot of the fleet adapter: its RobotHandle (robot_handle.py)       *)
(* between the three callbacks that Open-RMF calls on one of its threads   *)
(* (callbacks.py) and the state pump on the asyncio thread (state_pump.py, *)
(* adapter.py).  Robots share no state but the pump and the HTTP client.   *)
(* A POST is a RemoteCall: the server may carry it out while it is pending *)
(* or after it has failed.  Commands are numbered in the order of issue.   *)
(***************************************************************************)
EXTENDS Integers, Sequences

CONSTANTS MaxCommands,  \* bound: commands that reach the POST
          MaxFrames     \* bound: frames in transit

ASSUME FleetAssumption == MaxCommands \in Nat /\ MaxFrames \in Nat \ {0}

None == 0
Commands == 1..MaxCommands

VARIABLES
  prepared,   \* _fleet_handle is set: the binding layer knew the robot
  bound,      \* _rmf_handle is set
  activity,   \* _current_activity: the command whose identifier it is
  pumpStep,   \* what on_state does outside the lock: "idle", "add", "bind", "update"
  held,       \* the activity on_state took with it
  pose,       \* the pose of the robot state on_state took with it
  frames,     \* poses on their way to the pump
  callback,   \* "idle", "post", "accepted"
  command,    \* the command the callback thread works on, or the last one
  kind,       \* "navigate", "action" or "stop", per command
  status,     \* per command: "new", "pending", "ok", "failed"
  carriedOut, \* server: commands that had their effect
  executing,  \* server: the command the robot executes
  added,      \* Open-RMF: successful add_robot calls
  told        \* Open-RMF: the activity of the last update

handleVars == <<prepared, bound, activity>>
pumpVars == <<pumpStep, held, pose, frames>>
callbackVars == <<callback, command, kind, status>>
serverVars == <<carriedOut, executing>>
rmfVars == <<added, told>>
vars == <<handleVars, pumpVars, callbackVars, serverVars, rmfVars>>

(* A pose Open-RMF can place on the graph, one it cannot, and a robot state *)
(* that does not translate.                                                 *)
Poses == {"on", "off", "bad"}

TypeOK ==
  /\ prepared \in BOOLEAN /\ bound \in BOOLEAN
  /\ bound => prepared
  /\ activity \in {None} \cup Commands
  /\ pumpStep \in {"idle", "add", "bind", "update"}
  /\ held \in {None} \cup Commands
  /\ pose \in {"none", "on", "off"}
  /\ frames \in Seq(Poses) /\ Len(frames) <= MaxFrames
  /\ callback \in {"idle", "post", "accepted"}
  /\ command \in {None} \cup Commands
  /\ kind \in [Commands -> {"none", "navigate", "action", "stop"}]
  /\ status \in [Commands -> {"new", "pending", "ok", "failed"}]
  /\ carriedOut \subseteq Commands
  /\ executing \in {None} \cup Commands
  /\ added \in 0..1
  /\ told \in {None} \cup Commands

Init ==
  /\ prepared \in BOOLEAN
  /\ bound = FALSE /\ activity = None
  /\ pumpStep = "idle" /\ held = None /\ pose = "none" /\ frames = <<>>
  /\ callback = "idle" /\ command = None
  /\ kind = [n \in Commands |-> "none"]
  /\ status = [n \in Commands |-> "new"]
  /\ carriedOut = {} /\ executing = None
  /\ added = 0 /\ told = None

-----------------------------------------------------------------------------
(* The asyncio thread                                                       *)

(* on_state under the lock: which branch, and what it takes along. *)
OnState ==
  /\ pumpStep = "idle" /\ frames # <<>>
  /\ frames' = Tail(frames)
  /\ \/ /\ bound /\ Head(frames) # "bad"
        /\ pumpStep' = "update" /\ held' = activity /\ pose' = Head(frames)
     \/ /\ ~bound /\ prepared /\ Head(frames) # "bad"
        /\ pumpStep' = "add" /\ held' = None /\ pose' = Head(frames)
     \/ /\ Head(frames) = "bad" \/ ~prepared
        /\ UNCHANGED <<pumpStep, held, pose>>
  /\ UNCHANGED <<handleVars, callbackVars, serverVars, rmfVars>>

(* on_state is done with its frame. *)
PumpReturns == pumpStep' = "idle" /\ held' = None /\ pose' = "none"

(* handle.update; what it raises is logged. *)
Update ==
  /\ pumpStep = "update"
  /\ told' = held
  /\ PumpReturns
  /\ UNCHANGED <<handleVars, frames, callbackVars, serverVars, added>>

UpdateRaises ==
  /\ pumpStep = "update"
  /\ PumpReturns
  /\ UNCHANGED <<handleVars, frames, callbackVars, serverVars, rmfVars>>

(* add_robot returns a handle: Open-RMF knows the robot before Python does. *)
AddRobot ==
  /\ pumpStep = "add" /\ pose = "on"
  /\ added' = added + 1
  /\ pumpStep' = "bind"
  /\ UNCHANGED <<handleVars, held, pose, frames, callbackVars, serverVars, told>>

(* Fault: a refused registration is not tried again. *)
RefusalIsFinal ==
  /\ pumpStep = "add"
  /\ prepared' = FALSE
  /\ PumpReturns
  /\ UNCHANGED <<bound, activity, frames, callbackVars, serverVars, rmfVars>>

(* add_robot returns None or raises: the next frame tries again. *)
AddRobotRefused ==
  /\ pumpStep = "add"
  /\ PumpReturns
  /\ UNCHANGED <<handleVars, frames, callbackVars, serverVars, rmfVars>>

(* Fault: the handle add_robot returned is not kept. *)
BindNothing ==
  /\ pumpStep = "bind"
  /\ PumpReturns
  /\ UNCHANGED <<handleVars, frames, callbackVars, serverVars, rmfVars>>

Bind ==
  /\ pumpStep = "bind"
  /\ bound' = TRUE
  /\ PumpReturns
  /\ UNCHANGED <<prepared, activity, frames, callbackVars, serverVars, rmfVars>>

-----------------------------------------------------------------------------
(* The callback thread                                                      *)

(* Fault: the activity is set before the POST. *)
CallbackSettingFirst(k) ==
  /\ added > 0 /\ callback = "idle" /\ command < MaxCommands
  /\ command' = command + 1
  /\ callback' = "post"
  /\ kind' = [kind EXCEPT ![command + 1] = k]
  /\ status' = [status EXCEPT ![command + 1] = "pending"]
  /\ activity' = IF k = "stop" THEN activity ELSE command + 1
  /\ UNCHANGED <<prepared, bound, pumpVars, serverVars, rmfVars>>

(* Open-RMF calls navigate, action_executor or stop.  (A navigate whose     *)
(* Destination is unusable returns at once and changes nothing.)            *)
Callback(k) ==
  /\ added > 0 /\ callback = "idle" /\ command < MaxCommands
  /\ command' = command + 1
  /\ callback' = "post"
  /\ kind' = [kind EXCEPT ![command + 1] = k]
  /\ status' = [status EXCEPT ![command + 1] = "pending"]
  /\ UNCHANGED <<handleVars, pumpVars, serverVars, rmfVars>>

(* Fault: the callback does not wait for the response. *)
PostUnconfirmed ==
  /\ callback = "post"
  /\ status' = [status EXCEPT ![command] = "ok"]
  /\ callback' = IF kind[command] = "stop" THEN "idle" ELSE "accepted"
  /\ UNCHANGED <<handleVars, pumpVars, command, kind, serverVars, rmfVars>>

PostAccepted ==
  /\ callback = "post" /\ command \in carriedOut
  /\ status' = [status EXCEPT ![command] = "ok"]
  /\ callback' = IF kind[command] = "stop" THEN "idle" ELSE "accepted"
  /\ UNCHANGED <<handleVars, pumpVars, command, kind, serverVars, rmfVars>>

(* The POST raises: logged (or, for an AuthError, thrown into Open-RMF);    *)
(* the activity stays what it was.                                          *)
PostFails ==
  /\ callback = "post"
  /\ status' = [status EXCEPT ![command] = "failed"]
  /\ callback' = "idle"
  /\ UNCHANGED <<handleVars, pumpVars, command, kind, serverVars, rmfVars>>

(* Fault: only navigate sets the activity. *)
SetActivityOfNavigate ==
  /\ callback = "accepted"
  /\ activity' = IF kind[command] = "navigate" THEN command ELSE activity
  /\ callback' = "idle"
  /\ UNCHANGED <<prepared, bound, pumpVars, command, kind, status, serverVars, rmfVars>>

SetActivity ==
  /\ callback = "accepted"
  /\ activity' = command
  /\ callback' = "idle"
  /\ UNCHANGED <<prepared, bound, pumpVars, command, kind, status, serverVars, rmfVars>>

-----------------------------------------------------------------------------
(* The network and the server (external)                                    *)

CarryOut(n) ==
  /\ status[n] \in {"pending", "ok", "failed"} /\ n \notin carriedOut
  /\ carriedOut' = carriedOut \cup {n}
  /\ executing' = IF kind[n] = "stop" THEN None ELSE n
  /\ UNCHANGED <<handleVars, pumpVars, callbackVars, rmfVars>>

FinishCommand ==
  /\ executing # None
  /\ executing' = None
  /\ UNCHANGED <<handleVars, pumpVars, callbackVars, carriedOut, rmfVars>>

SendFrame(p) ==
  /\ Len(frames) < MaxFrames
  /\ frames' = Append(frames, p)
  /\ UNCHANGED <<handleVars, pumpStep, held, pose, callbackVars, serverVars, rmfVars>>

-----------------------------------------------------------------------------
PumpStep == OnState \/ Update \/ UpdateRaises \/ AddRobotRefused \/ AddRobot \/ Bind
CallbackStep == PostAccepted \/ PostFails \/ SetActivity

Next ==
  \/ OnState
  \/ Update
  \/ UpdateRaises
  \/ AddRobot
  \/ AddRobotRefused
  \/ Bind
  \/ \E k \in {"navigate", "action", "stop"} : Callback(k)
  \/ PostAccepted
  \/ PostFails
  \/ SetActivity
  \/ \E n \in Commands : CarryOut(n)
  \/ FinishCommand
  \/ \E p \in Poses : SendFrame(p)

Spec == Init /\ [][Next]_vars

(* Both threads run, POSTs time out, the server pushes frames, the robot    *)
(* comes back to the graph again and again, and Open-RMF does not refuse    *)
(* the same robot or the same update for ever.                              *)
FairSpec ==
  /\ Spec
  /\ WF_vars(PumpStep)
  /\ WF_vars(CallbackStep)
  /\ SF_vars(SendFrame("on"))
  /\ SF_vars(AddRobot)
  /\ SF_vars(Update)

-----------------------------------------------------------------------------
(* Open-RMF is only ever told of an activity whose POST the server accepted: *)
(* never of one that failed or is still under way.                           *)
ToldWasAccepted == told # None => status[told] = "ok"

(* The robot executes a command older than one already acknowledged only if  *)
(* the older one was reported as failed.                                     *)
OnlyFailedCommandsLag ==
  \A n \in Commands :
    status[n] = "ok" /\ executing # None /\ executing < n => status[executing] = "failed"

(* The POSTs of the callback thread are calls of QuikSyncHttpClient: each    *)
(* command takes effect at most once, and none that was not carried out is  *)
(* reported to the callback as accepted.                                    *)
Remote == INSTANCE RemoteCall WITH
  Calls <- Commands,
  status <- [n \in Commands |-> IF status[n] = "failed" THEN "error" ELSE status[n]],
  effect <- [n \in Commands |-> n \in carriedOut]

CommandsAreRemoteCalls == Remote!CallSpec

(* A robot the binding layer prepared is registered in the end, however      *)
(* often its pose was off the graph; TypeOK's "added" says never twice.      *)
Registers == prepared ~> bound

(* An accepted command is reported to Open-RMF, or a later one is.           *)
AcceptedIsReported ==
  \A n \in Commands : status[n] = "ok" /\ kind[n] # "stop" ~> told >= n

(* README.md:86: once the robot has finished, the frame without a task leads *)
(* to update(state, current_activity=None).                                  *)
ActivityCleared ==
  executing = None /\ told # None ~> told = None \/ executing # None
=============================================================================
