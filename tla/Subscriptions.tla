---------------------------- MODULE Subscriptions ----------------------------
(***************************************************************************)
(* The state pumps of one adapter node and the QuikSyncWsClient they share *)
(* (ws.py, state_pump.py and the life cycle in node.py).  All pumps run on *)
(* one asyncio loop: a step goes from one await to the next, and closing,  *)
(* refusals and stops happen between the steps.  How long a sleep lasts is *)
(* left open, so the back-off is not part of the state.                    *)
(***************************************************************************)
EXTENDS Integers, Sequences, FiniteSets

CONSTANTS Pumps,
          Limit,   \* circuit_breaker_401_count
          Window   \* circuit_breaker_window_seconds, in ticks

ASSUME BreakerAssumption ==
  /\ IsFiniteSet(Pumps)
  /\ Limit \in Nat \ {0}
  /\ Window \in Nat \ {0}

VARIABLES
  closed,        \* QuikSyncWsClient._closed, never reset
  failureTimes,  \* _failure_times, as ages that stop growing at Window
  phase,         \* what a pump's task awaits
  stopRequested, \* the pump's _stop_requested
  seen,          \* parity of the frames a pump has dispatched
  node,          \* where start() and stop() of the node have come
  loop           \* the asyncio loop: "none", "free", "held" by a call, "over"

vars == <<closed, failureTimes, phase, stopRequested, seen, node, loop>>

(* The task is there; "closing" is one that was cancelled and waits for the  *)
(* close handshake of its connection.                                       *)
Running == {"ready", "connecting", "open", "sleep", "closing"}

TypeOK ==
  /\ closed \in BOOLEAN
  /\ failureTimes \in Seq(0..Window)
  /\ Len(failureTimes) < Limit + Cardinality(Pumps)
  /\ phase \in [Pumps -> Running \cup {"off", "ended", "lost"}]
  /\ stopRequested \in [Pumps -> BOOLEAN]
  /\ seen \in [Pumps -> BOOLEAN]
  /\ node \in {"stopped", "running", "stopping", "joining", "abandoned"}
  /\ loop \in {"none", "free", "held", "over"}

Init ==
  /\ closed = FALSE
  /\ failureTimes = <<>>
  /\ phase = [p \in Pumps |-> "off"]
  /\ stopRequested = [p \in Pumps |-> FALSE]
  /\ seen = [p \in Pumps |-> FALSE]
  /\ node = "stopped"
  /\ loop = "none"

Goto(p, place) == phase' = [phase EXCEPT ![p] = place]

-----------------------------------------------------------------------------
(* The node                                                                 *)

(* start(): a pump whose task is still there is left alone. *)
NodeStart ==
  /\ node = "stopped"
  /\ node' = "running"
  /\ loop' = "free"
  /\ phase' = [p \in Pumps |-> IF phase[p] \in Running THEN phase[p] ELSE "ready"]
  /\ stopRequested' = [p \in Pumps |-> phase[p] \in Running /\ stopRequested[p]]
  /\ UNCHANGED <<closed, failureTimes, seen>>

NodeStop ==
  /\ node = "running"
  /\ node' = "stopping"
  /\ UNCHANGED <<closed, failureTimes, phase, stopRequested, seen, loop>>

(* Fault: the task is told to stop, not cancelled. *)
StopWithoutCancelling(p) ==
  /\ node \in {"stopping", "joining", "abandoned"} /\ loop = "free"
  /\ ~stopRequested[p]
  /\ stopRequested' = [stopRequested EXCEPT ![p] = TRUE]
  /\ closed' = TRUE
  /\ UNCHANGED <<failureTimes, phase, seen, node, loop>>

Stopping(p) == phase[p] = "closing"

(* One stop() of _stop_all_pumps.  The next one waits until the cancelled    *)
(* task is gone: at once, or after the handshake of an open connection.     *)
StopPump(p) ==
  /\ node \in {"stopping", "joining", "abandoned"} /\ loop = "free"
  /\ phase[p] # "off" /\ ~\E q \in Pumps : Stopping(q)
  /\ stopRequested' = [stopRequested EXCEPT ![p] = TRUE]
  /\ closed' = TRUE
  /\ Goto(p, IF phase[p] = "open" THEN "closing" ELSE "off")
  /\ UNCHANGED <<failureTimes, seen, node, loop>>

(* The close handshake is over, in time or by its own timeout. *)
TaskGone(p) ==
  /\ Stopping(p) /\ loop = "free"
  /\ Goto(p, "off")
  /\ UNCHANGED <<closed, failureTimes, stopRequested, seen, node, loop>>

(* future.result(timeout=10) ends, in time or because a call holds up the   *)
(* loop or a close handshake takes its ten seconds; then loop.stop is       *)
(* queued.                                                                  *)
PumpsAwaited ==
  /\ node = "stopping"
  /\ \/ loop = "held"
     \/ \E p \in Pumps : Stopping(p)
     \/ \A p \in Pumps : phase[p] = "off"
  /\ node' = "joining"
  /\ UNCHANGED <<closed, failureTimes, phase, stopRequested, seen, loop>>

(* loop.stop is run, behind what was queued before it.  The tasks that are  *)
(* left are never run again.                                                *)
LoopEnds ==
  /\ node \in {"joining", "abandoned"} /\ loop = "free"
  /\ loop' = "over"
  /\ phase' = [p \in Pumps |-> IF phase[p] \in Running THEN "lost" ELSE phase[p]]
  /\ UNCHANGED <<closed, failureTimes, stopRequested, seen, node>>

(* Fault: join without a timeout. *)
JoinedAtLast ==
  /\ node = "joining" /\ loop = "over"
  /\ node' = IF \A p \in Pumps : phase[p] = "off" THEN "stopped" ELSE "abandoned"
  /\ UNCHANGED <<closed, failureTimes, phase, stopRequested, seen, loop>>

(* join(timeout=5): the thread is gone, or a call holds up the loop; for a  *)
(* handshake loop.stop does not wait.  The programs stop their node once,   *)
(* so one that leaves a pump unstopped is not started again here.           *)
Joined ==
  /\ node = "joining" /\ loop \in {"over", "held"}
  /\ node' = IF loop = "over" /\ \A p \in Pumps : phase[p] = "off"
             THEN "stopped" ELSE "abandoned"
  /\ UNCHANGED <<closed, failureTimes, phase, stopRequested, seen, loop>>

(* get_token and the publisher are called on the loop. *)
CallBegins(p) ==
  /\ phase[p] \in {"ready", "sleep", "open"} /\ loop = "free"
  /\ loop' = "held"
  /\ UNCHANGED <<closed, failureTimes, phase, stopRequested, seen, node>>

CallReturns ==
  /\ loop = "held"
  /\ loop' = "free"
  /\ UNCHANGED <<closed, failureTimes, phase, stopRequested, seen, node>>

-----------------------------------------------------------------------------
(* One subscription                                                         *)

(* Fault: the loop is not a loop. *)
EnterOnce(p) ==
  /\ phase[p] = "ready" /\ loop = "free"
  /\ Goto(p, IF closed THEN "ended" ELSE "connecting")
  /\ UNCHANGED <<closed, failureTimes, stopRequested, seen, node, loop>>

(* The head of the loop, when the task starts or its sleep is over. *)
Enter(p) ==
  /\ phase[p] \in {"ready", "sleep"} /\ loop = "free"
  /\ Goto(p, IF closed THEN "ended" ELSE "connecting")
  /\ UNCHANGED <<closed, failureTimes, stopRequested, seen, node, loop>>

(* get_token raises AuthError or an httpx error: neither is caught in       *)
(* _subscribe, the pump logs it and ends.                                   *)
TokenFails(p) ==
  /\ phase[p] \in {"ready", "sleep"} /\ ~closed /\ loop = "free"
  /\ Goto(p, "ended")
  /\ UNCHANGED <<closed, failureTimes, stopRequested, seen, node, loop>>

Connected(p) ==
  /\ phase[p] = "connecting" /\ loop = "free"
  /\ Goto(p, "open")
  /\ UNCHANGED <<closed, failureTimes, stopRequested, seen, node, loop>>

(* Fault: refusals never get too old to count. *)
RecordEver == Append(failureTimes, 0)

(* How many of the times are out of the window: the list is in order.       *)
Outdated ==
  CHOOSE n \in 0..Len(failureTimes) :
    \A i \in 1..Len(failureTimes) : failureTimes[i] < Window <=> i > n

(* _record_401 *)
Record401 == Append(SubSeq(failureTimes, Outdated + 1, Len(failureTimes)), 0)

(* Fault: an open circuit is logged, the loop goes on. *)
RefusedForEver(p) ==
  /\ phase[p] = "connecting" /\ loop = "free"
  /\ failureTimes' = Record401
  /\ Goto(p, IF closed THEN "ended" ELSE "sleep")
  /\ UNCHANGED <<closed, stopRequested, seen, node, loop>>

(* A 401 at the upgrade.  What the forced refresh raises is swallowed. *)
Refused(p) ==
  /\ phase[p] = "connecting" /\ loop = "free"
  /\ failureTimes' = Record401
  /\ Goto(p, IF Len(failureTimes') >= Limit \/ closed THEN "ended" ELSE "sleep")
  /\ UNCHANGED <<closed, stopRequested, seen, node, loop>>

(* Any other status, a handshake or transport error; a break or a clean     *)
(* close of an open connection.                                             *)
Disconnected(p) ==
  /\ phase[p] \in {"connecting", "open"} /\ loop = "free"
  /\ Goto(p, IF closed THEN "ended" ELSE "sleep")
  /\ UNCHANGED <<closed, failureTimes, stopRequested, seen, node, loop>>

(* Fault: frames are dispatched without a look at _closed. *)
ReceiveRegardless(p) ==
  /\ phase[p] = "open" /\ loop = "free"
  /\ seen' = [seen EXCEPT ![p] = ~@]
  /\ UNCHANGED <<closed, failureTimes, phase, stopRequested, node, loop>>

(* A frame: the subscription ends if the client was closed meanwhile, drops *)
(* what is no JSON object, and hands the rest to the pump's callback.       *)
Receive(p) ==
  /\ phase[p] = "open" /\ loop = "free"
  /\ \/ (closed \/ stopRequested[p]) /\ Goto(p, "ended") /\ UNCHANGED seen
     \/ ~closed /\ UNCHANGED <<phase, seen>>
     \/ ~closed /\ ~stopRequested[p] /\ seen' = [seen EXCEPT ![p] = ~@] /\ UNCHANGED phase
  /\ UNCHANGED <<closed, failureTimes, stopRequested, node, loop>>

(* A binary frame that is no UTF-8 raises UnicodeDecodeError, which          *)
(* _subscribe does not catch: the pump logs it and ends.                    *)
Undecodable(p) ==
  /\ phase[p] = "open" /\ ~closed /\ loop = "free"
  /\ Goto(p, "ended")
  /\ UNCHANGED <<closed, failureTimes, stopRequested, seen, node, loop>>

Tick ==
  /\ failureTimes' = [i \in 1..Len(failureTimes) |->
        IF failureTimes[i] < Window THEN failureTimes[i] + 1 ELSE Window]
  /\ UNCHANGED <<closed, phase, stopRequested, seen, node, loop>>

-----------------------------------------------------------------------------
Next ==
  \/ NodeStart
  \/ NodeStop
  \/ PumpsAwaited
  \/ LoopEnds
  \/ Joined
  \/ CallReturns
  \/ \E p \in Pumps : CallBegins(p)
  \/ \E p \in Pumps : StopPump(p)
  \/ \E p \in Pumps : TaskGone(p)
  \/ \E p \in Pumps : Enter(p)
  \/ \E p \in Pumps : TokenFails(p)
  \/ \E p \in Pumps : Connected(p)
  \/ \E p \in Pumps : Refused(p)
  \/ \E p \in Pumps : Disconnected(p)
  \/ \E p \in Pumps : Receive(p)
  \/ \E p \in Pumps : Undecodable(p)
  \/ Tick

Spec == Init /\ [][Next]_vars

(* asyncio runs what is queued in turn, a close handshake has a timeout, and *)
(* a server that is asked again and again accepts again and again.  Frames,  *)
(* stops and the return of a call are owed to nobody.                       *)
FairSpec ==
  /\ Spec
  /\ WF_vars(PumpsAwaited) /\ SF_vars(LoopEnds) /\ WF_vars(Joined)
  /\ \A p \in Pumps :
       /\ SF_vars(StopPump(p)) /\ SF_vars(TaskGone(p))
       /\ SF_vars(Enter(p)) /\ SF_vars(Connected(p))

(* Once any pump of the client has been stopped, no pump dispatches another  *)
(* frame: not one that was connecting when the client was closed, and not    *)
(* one whose own stop has not been reached yet.                              *)
SilentAfterClose == [][closed => UNCHANGED seen]_vars

(* A subscription ends for a cause: no token, the client closed, a frame     *)
(* that cannot be decoded, or Limit refusals within the window.  A break or  *)
(* a clean close is never one.                                               *)
EndsForCause ==
  [][\A p \in Pumps :
       phase[p] \in Running /\ phase'[p] = "ended" =>
         \/ closed \/ stopRequested[p]
         \/ TokenFails(p) \/ Undecodable(p)
         \/ Cardinality({i \in 1..Len(failureTimes') : failureTimes'[i] < Window}) >= Limit]_vars

(* A pump that has lost its connection gets it back, unless it has ended or  *)
(* calls hold up the loop for ever.                                          *)
Reconnects ==
  []<>(loop # "held") =>
    \A p \in Pumps : phase[p] \in Running ~> phase[p] \in {"open", "ended", "off", "lost"}

(* stop() of the node comes to an end: with every task gone, also those that *)
(* wait for a frame that never comes; or, when a call holds up the loop or a *)
(* close handshake is slow, by its timeouts, even if the call never returns. *)
StopEnds ==
  node = "stopping" ~>
    node = "abandoned" \/ (node = "stopped" /\ \A p \in Pumps : phase[p] = "off")
=============================================================================
