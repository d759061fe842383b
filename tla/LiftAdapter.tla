----------------------------- MODULE LiftAdapter -----------------------------
(***************************************************************************)
(* The lift adapter process with its two threads, the network and the      *)
(* QuikSync server.  The rclpy thread runs one LiftHandle.dispatch_request *)
(* at a time (SingleThreadedExecutor): gate, POST with retries, release.   *)
(* The asyncio thread hands state frames to the session manager between    *)
(* any two of its steps.  Frames arrive late, POSTs are lost, delayed and  *)
(* repeated, an exception in the subscriber ends the process, and docker   *)
(* starts a new one with empty maps.                                       *)
(***************************************************************************)
EXTENDS Integers, Sequences, FiniteSets

CONSTANTS Lifts, Sessions, Free, Unseen, TTL,
          MaxRetries,     \* HttpConfig.max_retries
          MaxExecutions,  \* bound: requests that reach the POST
          MaxFrames,      \* bound: frames in transit per lift
          MaxKills        \* bound: times the process is killed from outside

ASSUME AdapterAssumption ==
  /\ Free \notin Sessions /\ Unseen \notin Sessions /\ Free # Unseen
  /\ TTL \in Int
  /\ MaxRetries \in Nat
  /\ MaxExecutions \in Nat
  /\ MaxFrames \in Nat \ {0}
  /\ MaxKills \in Nat

VARIABLES
  requested, requestedAge, server,  \* the session manager
  pc,        \* where the rclpy thread is in dispatch_request
  req,       \* the translated request it is dispatching
  attempt,   \* _request_json's loop variable
  reply,     \* the response to the current attempt
  nextExec,  \* the next fresh execution_id (uuid4)
  running,   \* the process is up
  kills,     \* times it was killed from outside
  lost,      \* history: requests whose dispatch ended without a 202
  entitled,  \* history: sessions told "yes" (202) and not yet ended, per lift
  net,       \* POSTs on their way to the server
  executed,  \* server: execution_ids it has answered 202
  lock,      \* server: the session that holds the lift
  ending,    \* server: an accepted release that has not happened yet
  frames,    \* state frames on their way to the pump: the session_id field
  pump       \* "up", or "dead" once its task has ended

Manager == INSTANCE LiftSessionManager
managerVars == <<requested, requestedAge, server>>
callVars == <<pc, req, attempt, reply, nextExec>>
processVars == <<running, kills, lost, entitled>>
serverVars == <<executed, lock, ending>>
stateFlow == <<frames, pump>>
vars == <<managerVars, callVars, processVars, net, serverVars, stateFlow>>

Holder == Sessions \cup {Free}
PostTypes == {"AGV_MODE", "END_SESSION", "HUMAN_MODE"}
Replies == {"none", "202", "401", "4xx", "5xx"}

(* rmf_lift_msgs/LiftRequest as it arrives; Free is a lift this node does *)
(* not manage, and the empty session id.                                  *)
LiftRequests ==
  [lift : Lifts \cup {Free}, session : Holder,
   type : PostTypes \cup {"NO_REQUEST", "unknown"},
   floor : {"", "L1"}, door : {"CLOSED", "MOVING"}]

Request == [exec : 1..MaxExecutions, lift : Lifts, session : Sessions, type : PostTypes]
Post == [exec : 1..MaxExecutions, lift : Lifts, session : Sessions,
         type : PostTypes, attempt : 0..MaxRetries]
NoRequest == [exec |-> 0]

TypeOK ==
  /\ Manager!TypeOK
  /\ pc \in {"idle", "post", "wait", "release"}
  /\ req \in Request \cup {NoRequest}
  /\ (pc # "idle") = (req # NoRequest)
  /\ attempt \in 0..MaxRetries
  /\ reply \in Replies
  /\ nextExec \in 1..(MaxExecutions + 1)
  /\ running \in BOOLEAN /\ lost \subseteq Request
  /\ kills \in 0..MaxKills
  /\ entitled \in [Lifts -> SUBSET Sessions]
  /\ net \subseteq Post
  /\ executed \subseteq 1..MaxExecutions
  /\ lock \in [Lifts -> Holder]
  /\ ending \in [Lifts -> BOOLEAN]
  /\ frames \in [Lifts -> Seq(Holder)]
  /\ \A l \in Lifts : Len(frames[l]) <= MaxFrames
  /\ pump \in [Lifts -> {"up", "dead"}]

AdapterInit ==
  /\ Manager!Init
  /\ pc = "idle" /\ req = NoRequest /\ attempt = 0 /\ reply = "none"
  /\ nextExec = 1
  /\ running = TRUE /\ kills = 0 /\ lost = {}
  /\ entitled = [l \in Lifts |-> {}]
  /\ net = {} /\ executed = {}
  /\ lock = [l \in Lifts |-> Free]
  /\ ending = [l \in Lifts |-> FALSE]
  /\ frames = [l \in Lifts |-> <<>>]
  /\ pump = [l \in Lifts |-> "up"]

-----------------------------------------------------------------------------
(* The rclpy thread: route_request, dispatch_request, _request_json         *)

(* _translate_request succeeds. *)
Translatable(r) ==
  /\ r.session # Free
  /\ r.floor # ""
  /\ r.type \in PostTypes
  /\ r.door # "MOVING"

(* Unmanaged lift, NO_REQUEST, or a field that does not translate. *)
DropRequest(r) ==
  /\ running /\ pc = "idle"
  /\ r.lift \notin Lifts \/ ~Translatable(r)
  /\ UNCHANGED vars

(* AGV_MODE refused by the gate: no POST. *)
RefuseRequest(r) ==
  /\ running /\ pc = "idle"
  /\ r.lift \in Lifts /\ Translatable(r)
  /\ r.type = "AGV_MODE"
  /\ Manager!TryAcquire(r.lift, r.session, FALSE)
  /\ UNCHANGED <<callVars, processVars, net, serverVars, stateFlow>>

(* Fault: the gate only logs. *)
AcceptUngated(r) ==
  /\ running /\ pc = "idle"
  /\ r.lift \in Lifts /\ Translatable(r)
  /\ nextExec <= MaxExecutions
  /\ pc' = "post"
  /\ req' = [exec |-> nextExec, lift |-> r.lift, session |-> r.session, type |-> r.type]
  /\ attempt' = 0
  /\ nextExec' = nextExec + 1
  /\ UNCHANGED <<managerVars, reply, processVars, net, serverVars, stateFlow>>

(* The request goes on to the POST; only AGV_MODE has to pass the gate. *)
AcceptRequest(r) ==
  /\ running /\ pc = "idle"
  /\ r.lift \in Lifts /\ Translatable(r)
  /\ nextExec <= MaxExecutions
  /\ IF r.type = "AGV_MODE" THEN Manager!TryAcquire(r.lift, r.session, TRUE)
                            ELSE UNCHANGED managerVars
  /\ pc' = "post"
  /\ req' = [exec |-> nextExec, lift |-> r.lift, session |-> r.session, type |-> r.type]
  /\ attempt' = 0
  /\ nextExec' = nextExec + 1
  /\ UNCHANGED <<reply, processVars, net, serverVars, stateFlow>>

(* One attempt leaves; every attempt carries the same execution_id. *)
SendPost ==
  /\ pc = "post"
  /\ net' = net \cup {[exec |-> req.exec, lift |-> req.lift, session |-> req.session,
                       type |-> req.type, attempt |-> attempt]}
  /\ pc' = "wait"
  /\ reply' = "none"
  /\ UNCHANGED <<managerVars, req, attempt, nextExec, processVars, serverVars, stateFlow>>

(* Fault: a retry that never counts. *)
RetryForever ==
  /\ pc = "wait" /\ reply \in {"none", "5xx"}
  /\ pc' = "post"
  /\ UNCHANGED <<managerVars, req, attempt, reply, nextExec, processVars, net, serverVars,
                 stateFlow>>

(* Fault: the loop runs once too often. *)
RetryOnceTooOften ==
  /\ pc = "wait" /\ reply \in {"none", "5xx"}
  /\ attempt <= MaxRetries
  /\ attempt' = attempt + 1
  /\ pc' = "post"
  /\ UNCHANGED <<managerVars, req, reply, nextExec, processVars, net, serverVars, stateFlow>>

(* No token for lack of a connection, a timeout, a broken connection or a    *)
(* 5xx, with retries left.                                                   *)
RetryPost ==
  /\ \/ pc = "post"
     \/ pc = "wait" /\ reply \in {"none", "5xx"}
  /\ attempt < MaxRetries
  /\ attempt' = attempt + 1
  /\ pc' = "post"
  /\ UNCHANGED <<managerVars, req, reply, nextExec, processVars, net, serverVars, stateFlow>>

(* A 401 on the first attempt: the token is refreshed and the POST repeated. *)
RetryUnauthorized ==
  /\ pc = "wait"
  /\ reply = "401" /\ attempt = 0 /\ MaxRetries > 0
  /\ attempt' = 1
  /\ pc' = "post"
  /\ UNCHANGED <<managerVars, req, reply, nextExec, processVars, net, serverVars, stateFlow>>

ReturnIdle == pc' = "idle" /\ req' = NoRequest /\ attempt' = 0 /\ reply' = "none"

(* Fault: a timeout is taken for an answer. *)
PostUnconfirmed ==
  /\ pc = "wait" /\ reply \in {"none", "202"}
  /\ IF req.type = "AGV_MODE"
     THEN /\ ReturnIdle
          /\ entitled' = [entitled EXCEPT ![req.lift] = @ \cup {req.session}]
     ELSE /\ pc' = "release"
          /\ UNCHANGED <<req, attempt, reply, entitled>>
  /\ UNCHANGED <<managerVars, nextExec, running, kills, lost, net, serverVars, stateFlow>>

(* 202: an AGV_MODE dispatch is over, the others release locally first. *)
PostAccepted ==
  /\ pc = "wait" /\ reply = "202"
  /\ IF req.type = "AGV_MODE"
     THEN /\ ReturnIdle
          /\ entitled' = [entitled EXCEPT ![req.lift] = @ \cup {req.session}]
     ELSE /\ pc' = "release"
          /\ UNCHANGED <<req, attempt, reply, entitled>>
  /\ UNCHANGED <<managerVars, nextExec, running, kills, lost, net, serverVars, stateFlow>>

ReleaseLocally ==
  /\ pc = "release"
  /\ \E released \in BOOLEAN : Manager!Release(req.lift, req.session, released)
  /\ ReturnIdle
  /\ entitled' = [entitled EXCEPT ![req.lift] = @ \ {req.session}]
  /\ UNCHANGED <<nextExec, running, kills, lost, net, serverVars, stateFlow>>

-----------------------------------------------------------------------------
(* The process                                                              *)

(* The process is gone, and with it everything the manager remembered and    *)
(* the subscriptions; POSTs already sent are still under way.                *)
Die ==
  /\ running' = FALSE
  /\ lost' = IF pc \in {"post", "wait"} THEN lost \cup {req} ELSE lost
  /\ ReturnIdle
  /\ Manager!Restart
  /\ frames' = [l \in Lifts |-> <<>>]
  /\ pump' = [l \in Lifts |-> "up"]
  /\ UNCHANGED <<nextExec, entitled, net, serverVars>>

(* The POST raises: no token, any 4xx but the first 401, retries used up.   *)
(* Nothing between dispatch_request and executor.spin() catches it, so      *)
(* _run_full stops the node and the process exits.                          *)
PostRaises ==
  /\ \/ pc = "post"
     \/ pc = "wait" /\ reply \in {"401", "4xx"}
     \/ pc = "wait" /\ reply \in {"none", "5xx"} /\ attempt = MaxRetries
  /\ Die
  /\ UNCHANGED kills

Kill ==
  /\ running /\ kills < MaxKills
  /\ kills' = kills + 1
  /\ Die

(* restart: unless-stopped.  The new process has empty maps and fresh pumps. *)
Restart ==
  /\ ~running
  /\ running' = TRUE
  /\ UNCHANGED <<managerVars, callVars, kills, lost, entitled, net, serverVars, stateFlow>>

Tick ==
  /\ running
  /\ Manager!Tick
  /\ UNCHANGED <<callVars, processVars, net, serverVars, stateFlow>>

-----------------------------------------------------------------------------
(* The asyncio thread                                                       *)

(* Fault: a frame without a session_id is not worth observing. *)
HandleOnlyNamedFrames(l) ==
  /\ running /\ pump[l] = "up"
  /\ frames[l] # <<>>
  /\ IF Head(frames[l]) = Free THEN UNCHANGED managerVars
     ELSE Manager!ObserveServerState(l, Head(frames[l]))
  /\ frames' = [frames EXCEPT ![l] = Tail(@)]
  /\ UNCHANGED <<callVars, processVars, net, serverVars, pump>>

(* Fault: the view is stored, the request is not reconciled with it. *)
HandleWithoutReconciling(l) ==
  /\ running /\ pump[l] = "up"
  /\ frames[l] # <<>>
  /\ server' = [server EXCEPT ![l] = Head(frames[l])]
  /\ frames' = [frames EXCEPT ![l] = Tail(@)]
  /\ UNCHANGED <<requested, requestedAge, callVars, processVars, net, serverVars, pump>>

(* _on_state_frame: the manager sees the frame before it is published. *)
HandleFrame(l) ==
  /\ running /\ pump[l] = "up"
  /\ frames[l] # <<>>
  /\ Manager!ObserveServerState(l, Head(frames[l]))
  /\ frames' = [frames EXCEPT ![l] = Tail(@)]
  /\ UNCHANGED <<callVars, processVars, net, serverVars, pump>>

(* translate_state raises: the frame is logged and forgotten. *)
DropFrame(l) ==
  /\ running /\ pump[l] = "up"
  /\ frames[l] # <<>>
  /\ frames' = [frames EXCEPT ![l] = Tail(@)]
  /\ UNCHANGED <<managerVars, callVars, processVars, net, serverVars, pump>>

(* The subscription raises (401 circuit, AuthError, transport error of the   *)
(* token mint): _run logs it and the task ends; nobody starts it again.      *)
PumpDies(l) ==
  /\ running /\ pump[l] = "up"
  /\ pump' = [pump EXCEPT ![l] = "dead"]
  /\ frames' = [frames EXCEPT ![l] = <<>>]
  /\ UNCHANGED <<managerVars, callVars, processVars, net, serverVars>>

-----------------------------------------------------------------------------
(* The network and the server (external)                                    *)

LosePost(p) ==
  /\ p \in net
  /\ net' = net \ {p}
  /\ UNCHANGED <<managerVars, callVars, processVars, serverVars, stateFlow>>

(* The reply reaches the adapter only while it waits for this attempt. *)
Answer(p, code) ==
  IF pc = "wait" /\ p.exec = req.exec /\ p.attempt = attempt
  THEN reply' \in {code, "none"}
  ELSE UNCHANGED reply

(* A repeat of an accepted execution_id is answered 202 and has no effect.  *)
(* AGV_MODE takes a free lift or renews the caller's hold; the others end   *)
(* it, some time later.                                                     *)
ServePost(p) ==
  /\ p \in net
  /\ net' = net \ {p}
  /\ \/ \E code \in {"401", "5xx"} :
          Answer(p, code) /\ UNCHANGED serverVars
     \/ /\ p.exec \in executed
        /\ Answer(p, "202") /\ UNCHANGED serverVars
     \/ /\ p.exec \notin executed
        /\ lock[p.lift] \in {Free, p.session}
        /\ Answer(p, "202")
        /\ executed' = executed \cup {p.exec}
        /\ IF p.type = "AGV_MODE"
           THEN /\ lock' = [lock EXCEPT ![p.lift] = p.session]
                /\ ending' = [ending EXCEPT ![p.lift] = FALSE]
           ELSE /\ ending' = [ending EXCEPT ![p.lift] = (lock[p.lift] = p.session)]
                /\ UNCHANGED lock
     \/ /\ p.exec \notin executed
        /\ lock[p.lift] \notin {Free, p.session}
        /\ Answer(p, "4xx") /\ UNCHANGED serverVars
  /\ UNCHANGED <<managerVars, pc, req, attempt, nextExec, processVars, stateFlow>>

(* The accepted release happens. *)
ServerRelease(l) ==
  /\ ending[l]
  /\ lock' = [lock EXCEPT ![l] = Free]
  /\ ending' = [ending EXCEPT ![l] = FALSE]
  /\ UNCHANGED <<managerVars, callVars, processVars, net, executed, stateFlow>>

(* The server's own TTL, or an operator's DELETE .../session. *)
ServerExpire(l) ==
  /\ lock[l] # Free
  /\ lock' = [lock EXCEPT ![l] = Free]
  /\ ending' = [ending EXCEPT ![l] = FALSE]
  /\ UNCHANGED <<managerVars, callVars, processVars, net, executed, stateFlow>>

(* Frames carry the holder of the moment they are sent, at any rate. *)
SendFrame(l) ==
  /\ running /\ pump[l] = "up"
  /\ Len(frames[l]) < MaxFrames
  /\ frames' = [frames EXCEPT ![l] = Append(@, lock[l])]
  /\ UNCHANGED <<managerVars, callVars, processVars, net, serverVars, pump>>

(* The WSS connection breaks; frames under way are gone. *)
Disconnect(l) ==
  /\ frames[l] # <<>>
  /\ frames' = [frames EXCEPT ![l] = <<>>]
  /\ UNCHANGED <<managerVars, callVars, processVars, net, serverVars, pump>>

-----------------------------------------------------------------------------
CallStep == SendPost \/ RetryPost \/ RetryUnauthorized \/ PostAccepted \/ ReleaseLocally \/ PostRaises

AdapterNext ==
  \/ \E r \in LiftRequests : DropRequest(r) \/ RefuseRequest(r) \/ AcceptRequest(r)
  \/ SendPost
  \/ RetryPost
  \/ RetryUnauthorized
  \/ PostAccepted
  \/ ReleaseLocally
  \/ PostRaises
  \/ Kill
  \/ Restart
  \/ Tick
  \/ \E l \in Lifts : HandleFrame(l)
  \/ \E l \in Lifts : DropFrame(l)
  \/ \E l \in Lifts : PumpDies(l)
  \/ \E p \in net : LosePost(p)
  \/ \E p \in net : ServePost(p)
  \/ \E l \in Lifts : ServerRelease(l)
  \/ \E l \in Lifts : ServerExpire(l)
  \/ \E l \in Lifts : SendFrame(l)
  \/ \E l \in Lifts : Disconnect(l)

AdapterSpec == AdapterInit /\ [][AdapterNext]_vars

(* The HTTP timeouts and the retry limit keep the rclpy thread going, docker *)
(* restarts the process, the server pushes frames at 1-5 Hz and does what it *)
(* accepted.  A connection may break again and again, so a frame is only     *)
(* handled because frames are waiting again and again.  Requests, kills and  *)
(* the server's own TTL are not owed to anybody.                             *)
FairSpec ==
  /\ AdapterSpec
  /\ WF_vars(CallStep)
  /\ WF_vars(Restart)
  /\ \A l \in Lifts : /\ WF_vars(SendFrame(l))
                      /\ SF_vars(HandleFrame(l))
                      /\ WF_vars(ServerRelease(l))

-----------------------------------------------------------------------------
(* The session manager inside the running adapter is the one of              *)
(* LiftSessionManager: no interleaving of the two threads, no retry, raise   *)
(* or restart makes its maps do anything else.                               *)
UsesManager == Manager!Spec

(* The requests under way, or whose dispatch ended without an answer: copies *)
(* of them may still reach the server.                                       *)
OpenRequests == lost \cup ({req} \ {NoRequest})

MayStillTake(l, s) ==
  \E r \in OpenRequests : r.lift = l /\ r.session = s /\ r.type = "AGV_MODE"

(* The server's lock belongs to a session whose AGV_MODE was answered 202    *)
(* and whose end was not, or whose AGV_MODE is still open; or its accepted   *)
(* release is pending.  In particular a late copy of a retried POST never    *)
(* takes the lift back for a session that ended, and a process that dies     *)
(* between two dispatches does no harm.                                      *)
HolderWasAcknowledged ==
  \A l \in Lifts :
    lock[l] = Free \/ lock[l] \in entitled[l] \/ ending[l] \/ MayStillTake(l, lock[l])

(* The dispatches are calls of QuikSyncHttpClient, across the deaths of the  *)
(* process: each request takes effect at most once, none that was not        *)
(* carried out is taken for accepted, and one that was lost may still be.    *)
Dispatches == 1..MaxExecutions

Remote == INSTANCE RemoteCall WITH
  Calls <- Dispatches,
  status <- [n \in Dispatches |->
                IF n >= nextExec THEN "new"
                ELSE IF \E r \in lost : r.exec = n THEN "error"
                ELSE IF pc \in {"post", "wait"} /\ req.exec = n THEN "pending"
                ELSE "ok"],
  effect <- [n \in Dispatches |-> n \in executed]

DispatchesAreRemoteCalls == Remote!CallSpec

(* An AGV_MODE while the last frame names another session as the holder. *)
AgainstFrame(r) == r.type = "AGV_MODE" /\ server[r.lift] \notin {Free, Unseen, r.session}

(* smoke.md 6.5: while the last frame names the holder of a lift, no         *)
(* AGV_MODE of another session passes the gate, also not by a claim granted  *)
(* before that frame.  One that has passed is still sent, and sent again,    *)
(* when such a frame comes before the POST or a retry of it: nothing looks   *)
(* at the views any more (lift_handle.py:305).  Its session has no claim     *)
(* left by then.                                                             *)
ConfirmedHoldBlocksOthers ==
  [][/\ pc = "idle" /\ pc' = "post" => ~AgainstFrame(req')
     /\ pc = "post" /\ pc' = "wait" /\ AgainstFrame(req) =>
          requested[req.lift] # req.session]_vars

(* dispatch_request comes back: a subscriber callback cannot occupy the      *)
(* single executor thread, and with it every other lift, for ever.           *)
DispatchReturns == pc # "idle" ~> pc = "idle"

(* A lift the server holds free is offered again: the gate opens to every    *)
(* session, unless the lock is taken meanwhile or the lift's pump has ended. *)
(* Stale frames, a lost race and a claim left behind all heal.               *)
GateOpen(l) == requested[l] = Free /\ server[l] \in {Free, Unseen}
GateReopens ==
  \A l \in Lifts :
    lock[l] = Free ~> GateOpen(l) \/ lock[l] # Free \/ pump[l] = "dead"

-----------------------------------------------------------------------------
(* smoke.md:382-394: an END_SESSION of the holder is dispatched, also with    *)
(* the empty destination_floor the runbook publishes.                        *)
EndSessionDispatched ==
  running /\ pc = "idle" /\ nextExec <= MaxExecutions =>
    \A r \in LiftRequests :
      /\ r.type = "END_SESSION" /\ r.door = "CLOSED"
      /\ r.lift \in Lifts /\ r.session = lock[r.lift] /\ r.session # Free
      => ENABLED AcceptRequest(r)

(* smoke.md:439: a 409 the gate did not catch is reconciled by the next      *)
(* frame; so the process is still there to receive it.                       *)
SurvivesConflict ==
  [][pc = "wait" /\ reply = "4xx" /\ req.type = "AGV_MODE" => running']_vars
=============================================================================
