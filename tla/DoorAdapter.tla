----------------------------- MODULE DoorAdapter -----------------------------
(***************************************************************************)
(* The door adapter process: the subscription queue, the rclpy thread that *)
(* dispatches one DoorRequest after the other (node.py, door_handle.py),   *)
(* the pumps on the asyncio thread, a process that ends with the first     *)
(* POST that raises and is started again, and the server.  A POST is a     *)
(* RemoteCall (see HttpClient).  Unlike the lift adapter nothing is        *)
(* remembered from one request to the next.                                *)
(***************************************************************************)
EXTENDS Integers, Sequences

CONSTANTS Doors,        \* the doors the node manages
          Foreign,      \* a door of another node
          MaxRequests,  \* bound: requests Open-RMF publishes
          QueueDepth,   \* depth of the door_requests subscription
          MaxFrames,    \* bound: frames in transit per door
          MaxKills      \* bound: only the first MaxKills processes are killed from outside

ASSUME DoorAssumption ==
  /\ Foreign \notin Doors
  /\ MaxRequests \in Nat
  /\ QueueDepth \in Nat \ {0}
  /\ MaxFrames \in Nat \ {0}
  /\ MaxKills \in Nat

Requests == 1..MaxRequests
None == 0

(* rmf_door_msgs/DoorMode, as numbered there *)
CLOSED == 0
MOVING == 1
OPEN == 2
Modes == {CLOSED, MOVING, OPEN}
Unknown == 3  \* before the first publication

VARIABLES
  queue,      \* requests waiting in the subscription, numbered as published
  issued,     \* the last request published
  target,     \* per request: its door_name
  requested,  \* per request: its requested_mode
  current,    \* the request the rclpy thread is posting, or None
  outcome,    \* per request: "new", "waiting", "dropped", "pending", "ok", "error"
  life,       \* per request: the process that posted it, 0 for none
  process,    \* number of the process
  running,    \* it is up
  executed,   \* server: requests it has carried out
  goal,       \* server, per door: the request it follows
  mode,       \* server, per door: where the door is
  frames,     \* per door: state frames on their way to the pump
  pump,       \* per door: "up", or "dead" once its task has ended
  published   \* Open-RMF, per door: the last DoorState

requestVars == <<queue, issued, target, requested>>
callVars == <<current, outcome, life>>
processVars == <<process, running>>
serverVars == <<executed, goal, mode>>
stateFlow == <<frames, pump, published>>
vars == <<requestVars, callVars, processVars, serverVars, stateFlow>>

(* Every process but the last was killed or ended by a request of its own. *)
LastProcess == MaxRequests + MaxKills + 1

TypeOK ==
  /\ queue \in Seq(Requests) /\ Len(queue) <= QueueDepth
  /\ issued \in 0..MaxRequests
  /\ target \in [Requests -> Doors \cup {Foreign}]
  /\ requested \in [Requests -> Modes]
  /\ current \in Requests \cup {None}
  /\ outcome \in [Requests -> {"new", "waiting", "dropped", "pending", "ok", "error"}]
  /\ life \in [Requests -> 0..LastProcess]
  /\ process \in 1..LastProcess
  /\ running \in BOOLEAN
  /\ current # None => running /\ outcome[current] = "pending"
  /\ executed \subseteq Requests
  /\ goal \in [Doors -> Requests \cup {None}]
  /\ mode \in [Doors -> Modes]
  /\ frames \in [Doors -> Seq(Modes)]
  /\ \A d \in Doors : Len(frames[d]) <= MaxFrames
  /\ pump \in [Doors -> {"up", "dead"}]
  /\ published \in [Doors -> Modes \cup {Unknown}]

Init ==
  /\ queue = <<>> /\ issued = 0
  /\ target = [n \in Requests |-> Foreign]
  /\ requested = [n \in Requests |-> CLOSED]
  /\ current = None
  /\ outcome = [n \in Requests |-> "new"]
  /\ life = [n \in Requests |-> 0]
  /\ process = 1 /\ running = TRUE
  /\ executed = {} /\ goal = [d \in Doors |-> None]
  /\ mode = [d \in Doors |-> CLOSED]
  /\ frames = [d \in Doors |-> <<>>]
  /\ pump = [d \in Doors |-> "up"]
  /\ published = [d \in Doors |-> Unknown]

-----------------------------------------------------------------------------
(* Open-RMF publishes a request.  A full subscription drops its oldest one; *)
(* a process that is down hears nothing.                                    *)
PublishRequest(d, m) ==
  LET n == issued + 1 IN
  /\ issued < MaxRequests
  /\ issued' = n
  /\ target' = [target EXCEPT ![n] = d]
  /\ requested' = [requested EXCEPT ![n] = m]
  /\ IF ~running
     THEN outcome' = [outcome EXCEPT ![n] = "dropped"] /\ UNCHANGED queue
     ELSE IF Len(queue) < QueueDepth
     THEN outcome' = [outcome EXCEPT ![n] = "waiting"] /\ queue' = Append(queue, n)
     ELSE /\ outcome' = [outcome EXCEPT ![n] = "waiting", ![Head(queue)] = "dropped"]
          /\ queue' = Append(Tail(queue), n)
  /\ UNCHANGED <<current, life, processVars, serverVars, stateFlow>>

-----------------------------------------------------------------------------
(* The rclpy thread                                                         *)

(* MOVING is no goal.  (Modes outside DoorMode and an empty requester_id go *)
(* the same way.)                                                           *)
Translatable(n) == requested[n] \in {CLOSED, OPEN}

(* Fault: an executor of several threads and one slot for the request. *)
WaitingOnAnyThread == running /\ queue # <<>>

Waiting == running /\ current = None /\ queue # <<>>

(* Another node's door, or a request that does not translate. *)
DropRequest ==
  /\ Waiting
  /\ LET n == Head(queue) IN
     /\ target[n] \notin Doors \/ ~Translatable(n)
     /\ outcome' = [outcome EXCEPT ![n] = "dropped"]
  /\ queue' = Tail(queue)
  /\ UNCHANGED <<issued, target, requested, current, life, processVars, serverVars, stateFlow>>

DispatchRequest ==
  /\ Waiting
  /\ LET n == Head(queue) IN
     /\ target[n] \in Doors /\ Translatable(n)
     /\ current' = n
     /\ outcome' = [outcome EXCEPT ![n] = "pending"]
     /\ life' = [life EXCEPT ![n] = process]
  /\ queue' = Tail(queue)
  /\ UNCHANGED <<issued, target, requested, processVars, serverVars, stateFlow>>

(* Fault: a POST that was sent counts as done. *)
PostUnconfirmed ==
  /\ current # None
  /\ outcome' = [outcome EXCEPT ![current] = "ok"]
  /\ current' = None
  /\ UNCHANGED <<requestVars, life, processVars, serverVars, stateFlow>>

PostAccepted ==
  /\ current \in executed
  /\ outcome' = [outcome EXCEPT ![current] = "ok"]
  /\ current' = None
  /\ UNCHANGED <<requestVars, life, processVars, serverVars, stateFlow>>

-----------------------------------------------------------------------------
(* The process                                                              *)

(* Fault: the request under way outlives its process. *)
DieKeepingCurrent ==
  /\ running' = FALSE
  /\ queue' = <<>>
  /\ outcome' = [n \in Requests |-> IF outcome[n] = "waiting" THEN "dropped" ELSE outcome[n]]
  /\ frames' = [d \in Doors |-> <<>>]
  /\ pump' = [d \in Doors |-> "up"]
  /\ UNCHANGED <<current, issued, target, requested, life, process, serverVars, published>>

(* Requests still waiting, the subscriptions and their frames die with it.  *)
Die ==
  /\ running' = FALSE
  /\ queue' = <<>>
  /\ current' = None
  /\ outcome' = [n \in Requests |->
        IF n = current THEN "error"
        ELSE IF outcome[n] = "waiting" THEN "dropped" ELSE outcome[n]]
  /\ frames' = [d \in Doors |-> <<>>]
  /\ pump' = [d \in Doors |-> "up"]
  /\ UNCHANGED <<issued, target, requested, life, process, serverVars, published>>

(* Fault: the error is caught and logged. *)
PostRaisesCaught ==
  /\ current # None
  /\ outcome' = [outcome EXCEPT ![current] = "error"]
  /\ current' = None
  /\ UNCHANGED <<requestVars, life, processVars, serverVars, stateFlow>>

(* What post_door_request raises leaves dispatch_request, route_request and *)
(* executor.spin(): _run_full stops the node and the process exits.         *)
PostRaises == current # None /\ Die

(* From outside: SIGINT, or docker stops the container. *)
Kill == running /\ process <= MaxKills /\ Die

Restart ==
  /\ ~running
  /\ running' = TRUE
  /\ process' = process + 1
  /\ UNCHANGED <<requestVars, callVars, serverVars, stateFlow>>

-----------------------------------------------------------------------------
(* The asyncio thread                                                       *)

(* Fault: a mode of 0 is taken for a missing one. *)
HandleTruthyFrame(d) ==
  /\ running /\ pump[d] = "up" /\ frames[d] # <<>>
  /\ published' = [published EXCEPT ![d] = IF Head(frames[d]) = CLOSED THEN @ ELSE Head(frames[d])]
  /\ frames' = [frames EXCEPT ![d] = Tail(@)]
  /\ UNCHANGED <<requestVars, callVars, processVars, serverVars, pump>>

(* _on_state_frame translates and publishes. *)
HandleFrame(d) ==
  /\ running /\ pump[d] = "up" /\ frames[d] # <<>>
  /\ published' = [published EXCEPT ![d] = Head(frames[d])]
  /\ frames' = [frames EXCEPT ![d] = Tail(@)]
  /\ UNCHANGED <<requestVars, callVars, processVars, serverVars, pump>>

(* Translation or publication raises: the frame is logged and forgotten. *)
DropFrame(d) ==
  /\ running /\ pump[d] = "up" /\ frames[d] # <<>>
  /\ frames' = [frames EXCEPT ![d] = Tail(@)]
  /\ UNCHANGED <<requestVars, callVars, processVars, serverVars, pump, published>>

(* The subscription raises; the task ends and nobody starts it again. *)
PumpDies(d) ==
  /\ running /\ pump[d] = "up"
  /\ pump' = [pump EXCEPT ![d] = "dead"]
  /\ frames' = [frames EXCEPT ![d] = <<>>]
  /\ UNCHANGED <<requestVars, callVars, processVars, serverVars, published>>

-----------------------------------------------------------------------------
(* The network and the server (external)                                    *)

(* The first copy of a POST to arrive, perhaps after its call has failed. *)
CarryOut(n) ==
  /\ outcome[n] \in {"pending", "error"} /\ n \notin executed
  /\ executed' = executed \cup {n}
  /\ goal' = [goal EXCEPT ![target[n]] = n]
  /\ UNCHANGED <<requestVars, callVars, processVars, mode, stateFlow>>

(* A door passes through MOVING on its way to the goal. *)
MoveDoor(d) ==
  /\ goal[d] # None /\ mode[d] # requested[goal[d]]
  /\ mode' = [mode EXCEPT ![d] = IF @ = MOVING THEN requested[goal[d]] ELSE MOVING]
  /\ UNCHANGED <<requestVars, callVars, processVars, executed, goal, stateFlow>>

SendFrame(d) ==
  /\ running /\ pump[d] = "up"
  /\ Len(frames[d]) < MaxFrames
  /\ frames' = [frames EXCEPT ![d] = Append(@, mode[d])]
  /\ UNCHANGED <<requestVars, callVars, processVars, serverVars, pump, published>>

-----------------------------------------------------------------------------
ThreadStep == DropRequest \/ DispatchRequest \/ PostAccepted \/ PostRaises

Next ==
  \/ \E d \in Doors \cup {Foreign}, m \in Modes : PublishRequest(d, m)
  \/ DropRequest
  \/ DispatchRequest
  \/ PostAccepted
  \/ PostRaises
  \/ Kill
  \/ Restart
  \/ \E d \in Doors : HandleFrame(d)
  \/ \E d \in Doors : DropFrame(d)
  \/ \E d \in Doors : PumpDies(d)
  \/ \E n \in Requests : CarryOut(n)
  \/ \E d \in Doors : MoveDoor(d)
  \/ \E d \in Doors : SendFrame(d)

Spec == Init /\ [][Next]_vars

(* The thread runs and POSTs time out, docker restarts the process, doors   *)
(* move, the server pushes frames, and not every frame is malformed.        *)
FairSpec ==
  /\ Spec
  /\ WF_vars(ThreadStep)
  /\ WF_vars(Restart)
  /\ \A d \in Doors : WF_vars(MoveDoor(d)) /\ WF_vars(SendFrame(d)) /\ SF_vars(HandleFrame(d))

-----------------------------------------------------------------------------
(* Every dispatch is a RemoteCall, also when the process dies in the middle  *)
(* of it: the adapter never takes a request for done that the server has     *)
(* not carried out, and never asks twice for one it gave up.                 *)
Remote == INSTANCE RemoteCall WITH
  Calls <- Requests,
  status <- [n \in Requests |->
               IF outcome[n] \in {"waiting", "dropped"} THEN "new" ELSE outcome[n]],
  effect <- [n \in Requests |-> n \in executed]

DispatchesAreRemoteCalls == Remote!CallSpec

(* A door follows a request older than one already acknowledged for it only  *)
(* if a process that is gone had posted the older one: a late copy never     *)
(* overtakes a request of its own process, because that process ends with    *)
(* the first POST that raises.                                               *)
GoalsLagOnlyAcrossRestarts ==
  \A d \in Doors, n \in Requests :
    outcome[n] = "ok" /\ target[n] = d /\ goal[d] # None /\ goal[d] < n
      => life[goal[d]] < life[n]

(* Open-RMF's picture of each door is right again and again, whatever a long *)
(* POST for another door is doing, unless the door's pump has ended or the   *)
(* process is down.                                                          *)
StateReachesRmf ==
  \A d \in Doors : []<>(published[d] = mode[d] \/ pump[d] = "dead" \/ ~running)

(* No request is left waiting behind the POSTs of the only executor thread.  *)
RequestsSettle ==
  \A n \in Requests :
    outcome[n] \in {"waiting", "pending"} ~> outcome[n] \in {"dropped", "ok", "error"}
=============================================================================
