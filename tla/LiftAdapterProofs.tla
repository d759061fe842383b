-------------------------- MODULE LiftAdapterProofs --------------------------
(* Proofs about LiftAdapter, for any lifts, sessions, TTL and retry limit,  *)
(* any number of dispatches, frames and kills.  What a step does to the     *)
(* session manager's maps is taken from LiftSessionManagerProofs.           *)
EXTENDS LiftAdapter, TLAPS

ManagerFacts == INSTANCE LiftSessionManagerProofs

(* Execution ids are fresh, a lost one is not dispatched again, and a       *)
(* dispatch under way has a live process.                                   *)
Executions ==
  /\ \A n \in executed : n < nextExec
  /\ \A p \in net : p.exec < nextExec
  /\ \A r \in lost : r.exec < nextExec /\ r.exec # req.exec
  /\ req # NoRequest => req.exec < nextExec
  /\ pc # "idle" => running

(* A 202 is the server's word that it has carried the request out. *)
Answers ==
  /\ pc = "wait" /\ reply = "202" => req.exec \in executed
  /\ pc = "release" => req.exec \in executed /\ req.type # "AGV_MODE"

CopyOf(r, p) == p.exec = r.exec /\ p.lift = r.lift /\ p.session = r.session /\ p.type = r.type

(* Only the request under way and the lost ones can still have an effect;    *)
(* every other copy is answered without one.                                *)
OldCopiesAreSpent ==
  \A p \in net :
    p.exec \in executed \/ \E r \in OpenRequests : CopyOf(r, p)

(* A session that has asked for its end does not hold the lift any more, or *)
(* not for long, unless another request of its own is lost.                 *)
EndsAreUnderWay ==
  req # NoRequest /\ req.type # "AGV_MODE" /\ req.exec \in executed
    /\ lock[req.lift] = req.session
      => ending[req.lift] \/ MayStillTake(req.lift, req.session)

IInv ==
  /\ TypeOK
  /\ Executions
  /\ Answers
  /\ OldCopiesAreSpent
  /\ EndsAreUnderWay
  /\ HolderWasAcknowledged

-----------------------------------------------------------------------------
(* The session manager inside the adapter                                   *)

(* The two instances say the same. *)
LEMMA SameManager ==
  /\ Manager!TypeOK <=> ManagerFacts!TypeOK
  /\ Manager!TypeOK' <=> ManagerFacts!TypeOK'
  /\ Manager!ClaimAgreesWithView <=> ManagerFacts!ClaimAgreesWithView
  /\ Manager!ClaimAgreesWithView' <=> ManagerFacts!ClaimAgreesWithView'
  /\ [Manager!Next]_(Manager!managerVars) <=> [ManagerFacts!Next]_(ManagerFacts!managerVars)
<1>1. /\ Manager!TypeOK <=> ManagerFacts!TypeOK
      /\ Manager!TypeOK' <=> ManagerFacts!TypeOK'
  BY DEF Manager!TypeOK, ManagerFacts!TypeOK, Manager!Holder, ManagerFacts!Holder,
         Manager!MaxAge, ManagerFacts!MaxAge
<1>2. /\ Manager!ClaimAgreesWithView <=> ManagerFacts!ClaimAgreesWithView
      /\ Manager!ClaimAgreesWithView' <=> ManagerFacts!ClaimAgreesWithView'
  BY DEF Manager!ClaimAgreesWithView, ManagerFacts!ClaimAgreesWithView
<1>3. [Manager!Next]_(Manager!managerVars) <=> [ManagerFacts!Next]_(ManagerFacts!managerVars)
  BY DEF Manager!Next, ManagerFacts!Next, Manager!managerVars, ManagerFacts!managerVars,
         Manager!Holder, ManagerFacts!Holder, Manager!MaxAge, ManagerFacts!MaxAge,
         Manager!TryAcquire, ManagerFacts!TryAcquire, Manager!Release, ManagerFacts!Release,
         Manager!ObserveServerState, ManagerFacts!ObserveServerState,
         Manager!CurrentHolder, ManagerFacts!CurrentHolder, Manager!Tick, ManagerFacts!Tick,
         Manager!Restart, ManagerFacts!Restart, Manager!Acquirable, ManagerFacts!Acquirable,
         Manager!SetRequest, ManagerFacts!SetRequest, Manager!Live, ManagerFacts!Live,
         Manager!Expired, ManagerFacts!Expired, Manager!HeldBy, ManagerFacts!HeldBy,
         Manager!ServerSaysFree, ManagerFacts!ServerSaysFree
<1> QED BY <1>1, <1>2, <1>3

LEMMA ManagerKeepsTypes ==
  ASSUME Manager!TypeOK, [Manager!Next]_(Manager!managerVars)
  PROVE  Manager!TypeOK'
BY SameManager, AdapterAssumption, ManagerFacts!TypeStep

LEMMA ManagerKeepsAgreement ==
  ASSUME Manager!TypeOK, Manager!ClaimAgreesWithView, [Manager!Next]_(Manager!managerVars)
  PROVE  Manager!ClaimAgreesWithView'
<1>1. ManagerFacts!IInv
  BY SameManager DEF ManagerFacts!IInv
<1> QED BY <1>1, SameManager, AdapterAssumption, ManagerFacts!AgreementStep

(* A request in hand is a record of Request. *)
LEMMA RequestInHand ==
  ASSUME TypeOK, req # NoRequest
  PROVE  /\ req \in Request
         /\ req.exec \in 1..MaxExecutions /\ req.lift \in Lifts /\ req.session \in Sessions
         /\ req.type \in PostTypes
BY DEF TypeOK, Request

LEMMA NoRequestIsNone ==
  ASSUME TypeOK
  PROVE  NoRequest.exec = 0 /\ \A r \in lost : r \in Request /\ r.exec # 0 /\ r # NoRequest
BY DEF TypeOK, Request, NoRequest

(* What may still reach the server stays open while neither changes.        *)
LEMMA SameOpenRequests ==
  ASSUME UNCHANGED <<lost, req>>
  PROVE  /\ OpenRequests' = OpenRequests
         /\ \A l \in Lifts, s \in Holder : MayStillTake(l, s)' = MayStillTake(l, s)
BY DEF OpenRequests, MayStillTake

(* What the two threads do to the maps, a method of the manager does. *)
LEMMA StepUsesManager ==
  ASSUME TypeOK, AdapterNext
  PROVE  [Manager!Next]_(Manager!managerVars)
<1>1. ASSUME UNCHANGED managerVars
      PROVE  [Manager!Next]_(Manager!managerVars)
  BY <1>1 DEF managerVars, Manager!managerVars
<1>2. ASSUME NEW r \in LiftRequests, RefuseRequest(r) \/ AcceptRequest(r)
      PROVE  [Manager!Next]_(Manager!managerVars)
  <2>1. r.lift \in Lifts /\ r.session \in Manager!Holder
    BY <1>2 DEF RefuseRequest, AcceptRequest, LiftRequests, Holder, Manager!Holder
  <2>2. \/ UNCHANGED managerVars
        \/ \E granted \in BOOLEAN : Manager!TryAcquire(r.lift, r.session, granted)
    BY <1>2 DEF RefuseRequest, AcceptRequest
  <2> QED BY <1>1, <2>1, <2>2 DEF Manager!Next
<1>3. CASE ReleaseLocally
  <2>1. PICK l \in Lifts, s \in Sessions : l = req.lift /\ s = req.session
    BY <1>3, RequestInHand DEF ReleaseLocally, TypeOK
  <2>2. \E released \in BOOLEAN : Manager!Release(l, s, released)
    BY <1>3, <2>1 DEF ReleaseLocally, Manager!Release, Manager!SetRequest
  <2> QED BY <2>2 DEF Manager!Next
<1>4. ASSUME NEW l \in Lifts, HandleFrame(l)
      PROVE  [Manager!Next]_(Manager!managerVars)
  <2>1. frames[l] \in Seq(Holder) /\ frames[l] # <<>>
    BY <1>4 DEF HandleFrame, TypeOK
  <2>2. PICK h \in Manager!Holder : h = Head(frames[l])
    BY <2>1 DEF Holder, Manager!Holder
  <2>3. Manager!ObserveServerState(l, h)
    BY <1>4, <2>2 DEF HandleFrame, Manager!ObserveServerState, Manager!SetRequest
  <2> QED BY <2>3 DEF Manager!Next
<1>5. CASE PostRaises \/ Kill \/ Tick
  BY <1>5 DEF PostRaises, Kill, Die, Tick, Manager!Next
<1>6. CASE \/ \E r \in LiftRequests : DropRequest(r)
           \/ SendPost \/ RetryPost \/ RetryUnauthorized \/ PostAccepted \/ Restart
  BY <1>1, <1>6 DEF DropRequest, SendPost, RetryPost, RetryUnauthorized, PostAccepted, Restart, vars
<1>7. CASE \/ \E p \in net : LosePost(p) \/ ServePost(p)
           \/ \E l \in Lifts : \/ DropFrame(l) \/ PumpDies(l) \/ SendFrame(l) \/ Disconnect(l)
                             \/ ServerRelease(l) \/ ServerExpire(l)
  BY <1>1, <1>7 DEF LosePost, ServePost, DropFrame, PumpDies, SendFrame, Disconnect,
                    ServerRelease, ServerExpire
<1> QED BY <1>2, <1>3, <1>4, <1>5, <1>6, <1>7 DEF AdapterNext

LEMMA StepKeepsManagerTypes ==
  ASSUME TypeOK, [AdapterNext]_vars
  PROVE  Manager!TypeOK'
<1>1. Manager!TypeOK
  BY DEF TypeOK
<1>2. [Manager!Next]_(Manager!managerVars)
  BY StepUsesManager DEF vars, managerVars, Manager!managerVars
<1> QED BY <1>1, <1>2, ManagerKeepsTypes

-----------------------------------------------------------------------------
(* The rclpy thread                                                         *)

(* Steps that leave the call, the server and the network alone. *)
LEMMA QuietSteps ==
  ASSUME IInv, TypeOK',
         UNCHANGED <<callVars, lost, entitled, net, serverVars>>,
         running' \in BOOLEAN, running => running'
  PROVE  IInv'
<1> USE DEF callVars, serverVars
<1>1. Executions' /\ Answers'
  BY DEF IInv, TypeOK, Executions, Answers
<1>2. OldCopiesAreSpent' /\ EndsAreUnderWay' /\ HolderWasAcknowledged'
  BY DEF IInv, OldCopiesAreSpent, CopyOf, EndsAreUnderWay, HolderWasAcknowledged, OpenRequests,
         MayStillTake
<1> QED BY <1>1, <1>2 DEF IInv

LEMMA AcceptKeeps ==
  ASSUME IInv, Manager!TypeOK', NEW r \in LiftRequests, AcceptRequest(r)
  PROVE  IInv'
<1> USE AdapterAssumption DEF processVars, serverVars, stateFlow
<1>1. /\ req' = [exec |-> nextExec, lift |-> r.lift, session |-> r.session, type |-> r.type]
      /\ req = NoRequest /\ nextExec \in 1..MaxExecutions /\ nextExec' = nextExec + 1
      /\ pc' = "post" /\ attempt' = 0
      /\ UNCHANGED <<reply, net, executed, lock, ending, lost, entitled, running, kills, frames, pump>>
  BY DEF AcceptRequest, IInv, TypeOK
<1>2. req' \in Request /\ req' # NoRequest /\ req'.exec = nextExec
  <2>1. r.lift \in Lifts /\ r.session \in Sessions /\ r.type \in PostTypes
    BY DEF AcceptRequest, Translatable, LiftRequests, Holder
  <2>2. req' \in Request
    BY <1>1, <2>1 DEF Request
  <2>3. req'.exec = nextExec /\ NoRequest.exec = 0 /\ nextExec # 0
    BY <1>1 DEF NoRequest
  <2> QED BY <2>2, <2>3
<1>3. TypeOK'
  BY <1>1, <1>2 DEF IInv, TypeOK
<1>4. Executions'
  <2>1. \A m \in lost : m.exec \in Nat /\ m.exec < nextExec
    BY DEF IInv, TypeOK, Executions, Request
  <2>2. \A m \in lost' : m.exec < nextExec' /\ m.exec # req'.exec
    BY <1>1, <1>2, <2>1
  <2> QED BY <1>1, <1>2, <2>2 DEF AcceptRequest, IInv, TypeOK, Executions, Post
<1>5. Answers'
  BY <1>1 DEF Answers
<1>9. OpenRequests \subseteq OpenRequests'
  BY <1>1 DEF OpenRequests
<1>6. OldCopiesAreSpent'
  BY <1>1, <1>9 DEF IInv, OldCopiesAreSpent, CopyOf
<1>7. EndsAreUnderWay'
  <2>1. req'.exec \notin executed
    BY <1>1, <1>2 DEF IInv, Executions
  <2> QED BY <1>1, <2>1 DEF EndsAreUnderWay
<1>8. HolderWasAcknowledged'
  BY <1>1, <1>9 DEF IInv, HolderWasAcknowledged, MayStillTake
<1> QED BY <1>3, <1>4, <1>5, <1>6, <1>7, <1>8 DEF IInv

LEMMA SendKeeps ==
  ASSUME IInv, Manager!TypeOK', SendPost
  PROVE  IInv'
<1> USE DEF processVars, serverVars, stateFlow
<1> DEFINE p == [exec |-> req.exec, lift |-> req.lift, session |-> req.session,
                 type |-> req.type, attempt |-> attempt]
<1>1. req # NoRequest
  BY DEF SendPost, IInv, TypeOK
<1>2. /\ pc' = "wait" /\ reply' = "none" /\ net' = net \cup {p}
      /\ UNCHANGED <<req, attempt, nextExec, executed, lock, ending, lost, entitled, running, kills,
                     frames, pump>>
  BY DEF SendPost
<1>3. p \in Post
  BY <1>1, RequestInHand DEF IInv, TypeOK, Post
<1>4. TypeOK'
  BY <1>1, <1>2, <1>3 DEF IInv, TypeOK, Replies
<1>5. req \in OpenRequests /\ CopyOf(req, p)
  BY <1>1 DEF CopyOf, OpenRequests
<1>6. Executions' /\ Answers'
  BY <1>1, <1>2, <1>5 DEF SendPost, IInv, Executions, Answers, CopyOf
<1>7. OldCopiesAreSpent'
  BY <1>2, <1>5 DEF IInv, OldCopiesAreSpent, OpenRequests, CopyOf
<1>8. EndsAreUnderWay' /\ HolderWasAcknowledged'
  BY <1>2 DEF IInv, EndsAreUnderWay, HolderWasAcknowledged, OpenRequests, MayStillTake
<1> QED BY <1>4, <1>6, <1>7, <1>8 DEF IInv

LEMMA RetryKeeps ==
  ASSUME IInv, Manager!TypeOK', RetryPost \/ RetryUnauthorized
  PROVE  IInv'
<1> USE DEF processVars, serverVars, stateFlow
<1>1. /\ pc # "idle" /\ pc' = "post" /\ attempt' \in 0..MaxRetries
      /\ UNCHANGED <<req, reply, nextExec, net, executed, lock, ending, lost, entitled, running, kills,
                     frames, pump>>
  BY AdapterAssumption DEF RetryPost, RetryUnauthorized, IInv, TypeOK
<1>2. TypeOK'
  BY <1>1 DEF IInv, TypeOK
<1>3. Executions' /\ Answers' /\ OldCopiesAreSpent'
  BY <1>1 DEF IInv, Executions, Answers, OldCopiesAreSpent, OpenRequests, CopyOf
<1>4. EndsAreUnderWay' /\ HolderWasAcknowledged'
  BY <1>1 DEF IInv, EndsAreUnderWay, HolderWasAcknowledged, OpenRequests, MayStillTake
<1> QED BY <1>2, <1>3, <1>4 DEF IInv

(* An AGV_MODE that was answered 202 is entitled to the lift it may hold. *)
LEMMA PostAcceptedKeeps ==
  ASSUME IInv, Manager!TypeOK', PostAccepted
  PROVE  IInv'
<1> USE AdapterAssumption DEF serverVars, stateFlow
<1>1. /\ req # NoRequest /\ req.lift \in Lifts /\ req.session \in Sessions /\ req.exec \in executed
      /\ UNCHANGED <<nextExec, net, executed, lock, ending, lost, running, kills, frames, pump>>
  BY RequestInHand DEF PostAccepted, IInv, TypeOK, Answers
<1>2. CASE req.type = "AGV_MODE"
  <2>1. /\ pc' = "idle" /\ req' = NoRequest /\ attempt' = 0 /\ reply' = "none"
        /\ entitled' = [entitled EXCEPT ![req.lift] = @ \cup {req.session}]
    BY <1>2 DEF PostAccepted, ReturnIdle
  <2>2. TypeOK'
    BY <1>1, <2>1 DEF IInv, TypeOK, Replies
  <2>3. Executions' /\ Answers' /\ EndsAreUnderWay'
    BY <1>1, <2>1, NoRequestIsNone DEF IInv, TypeOK, Executions, Answers, EndsAreUnderWay
  <2>4. OldCopiesAreSpent'
    BY <1>1, <2>1 DEF IInv, OldCopiesAreSpent, OpenRequests, CopyOf
  <2>5. HolderWasAcknowledged'
    BY <1>1, <2>1 DEF IInv, TypeOK, HolderWasAcknowledged, OpenRequests, MayStillTake
  <2> QED BY <2>2, <2>3, <2>4, <2>5 DEF IInv
<1>3. CASE req.type # "AGV_MODE"
  <2>1. pc' = "release" /\ UNCHANGED <<req, attempt, reply, entitled>>
    BY <1>3 DEF PostAccepted
  <2>2. TypeOK'
    BY <1>1, <2>1 DEF IInv, TypeOK
  <2>3. Executions' /\ Answers' /\ OldCopiesAreSpent'
    BY <1>1, <1>3, <2>1
    DEF PostAccepted, IInv, Executions, Answers, OldCopiesAreSpent, OpenRequests, CopyOf
  <2>4. EndsAreUnderWay' /\ HolderWasAcknowledged'
    BY <1>1, <2>1 DEF IInv, EndsAreUnderWay, HolderWasAcknowledged, OpenRequests, MayStillTake
  <2> QED BY <2>2, <2>3, <2>4 DEF IInv
<1> QED BY <1>2, <1>3

(* The session that ends is not the holder, or the server is about to        *)
(* release the lift.                                                         *)
LEMMA ReleaseKeeps ==
  ASSUME IInv, Manager!TypeOK', ReleaseLocally
  PROVE  IInv'
<1> USE AdapterAssumption DEF serverVars, stateFlow
<1>1. /\ req # NoRequest /\ req.lift \in Lifts /\ req.session \in Sessions
      /\ req.exec \in executed /\ req.type # "AGV_MODE"
  BY RequestInHand DEF ReleaseLocally, IInv, TypeOK, Answers
<1>2. /\ pc' = "idle" /\ req' = NoRequest /\ attempt' = 0 /\ reply' = "none"
      /\ entitled' = [entitled EXCEPT ![req.lift] = @ \ {req.session}]
      /\ UNCHANGED <<nextExec, net, executed, lock, ending, lost, running, kills, frames, pump>>
  BY DEF ReleaseLocally, ReturnIdle
<1>3. TypeOK'
  BY <1>1, <1>2 DEF IInv, TypeOK, Replies
<1>4. Executions' /\ Answers' /\ EndsAreUnderWay'
  BY <1>1, <1>2, NoRequestIsNone DEF IInv, TypeOK, Executions, Answers, EndsAreUnderWay
<1>5. OldCopiesAreSpent'
  BY <1>1, <1>2 DEF IInv, OldCopiesAreSpent, OpenRequests, CopyOf
<1>6. HolderWasAcknowledged'
  <2>1. lock[req.lift] = req.session => ending[req.lift] \/ MayStillTake(req.lift, req.session)
    BY <1>1 DEF IInv, EndsAreUnderWay
  <2>2. \A l \in Lifts, s \in Holder : MayStillTake(l, s) => MayStillTake(l, s)'
    BY <1>1, <1>2 DEF MayStillTake, OpenRequests
  <2> QED BY <1>1, <1>2, <2>1, <2>2 DEF IInv, TypeOK, HolderWasAcknowledged
<1> QED BY <1>3, <1>4, <1>5, <1>6 DEF IInv

LEMMA DieKeeps ==
  ASSUME IInv, Manager!TypeOK', PostRaises \/ Kill
  PROVE  IInv'
<1> USE AdapterAssumption DEF serverVars
<1>1. /\ running' = FALSE /\ kills' \in 0..MaxKills
      /\ lost' = IF pc \in {"post", "wait"} THEN lost \cup {req} ELSE lost
      /\ pc' = "idle" /\ req' = NoRequest /\ attempt' = 0 /\ reply' = "none"
      /\ frames' = [l \in Lifts |-> <<>>] /\ pump' = [l \in Lifts |-> "up"]
      /\ UNCHANGED <<nextExec, entitled, net, executed, lock, ending>>
  BY DEF PostRaises, Kill, Die, ReturnIdle, IInv, TypeOK
<1>2. TypeOK'
  <2>1. \A l \in Lifts : frames'[l] = <<>>
    BY <1>1
  <2>2. <<>> \in Seq(Holder) /\ Len(<<>>) <= MaxFrames
    OBVIOUS
  <2>3. frames' \in [Lifts -> Seq(Holder)]
    BY <1>1, <2>2
  <2>4. \A l \in Lifts : Len(frames'[l]) <= MaxFrames
    BY <2>1, <2>2, Zenon
  <2>5. pump' \in [Lifts -> {"up", "dead"}] /\ (pc' # "idle") = (req' # NoRequest)
    BY <1>1
  <2>6. /\ pc' \in {"idle", "post", "wait", "release"} /\ req' \in Request \cup {NoRequest}
        /\ attempt' \in 0..MaxRetries /\ reply' \in Replies
    BY <1>1 DEF Replies
  <2>7. lost' \subseteq Request
    BY <1>1, RequestInHand DEF IInv, TypeOK
  <2> QED BY <1>1, <2>3, <2>4, <2>5, <2>6, <2>7 DEF IInv, TypeOK
<1>3. Executions' /\ Answers'
  BY <1>1, NoRequestIsNone, RequestInHand DEF IInv, TypeOK, Executions, Answers
<1>4. \/ OpenRequests' = OpenRequests
      \/ /\ OpenRequests' = OpenRequests \ {req}
         /\ req.exec \in executed /\ req.type # "AGV_MODE"
  <2>1. CASE pc \in {"post", "wait"}
    BY <1>1, <2>1 DEF OpenRequests, IInv, TypeOK
  <2>2. CASE pc = "idle"
    BY <1>1, <2>2 DEF OpenRequests, IInv, TypeOK
  <2>3. CASE pc = "release"
    <3>1. req \notin lost
      BY DEF IInv, Executions
    <3> QED BY <1>1, <2>3, <3>1 DEF OpenRequests, IInv, Answers
  <2> QED BY <2>1, <2>2, <2>3 DEF IInv, TypeOK
<1>5. OldCopiesAreSpent'
  BY <1>1, <1>4 DEF IInv, OldCopiesAreSpent, CopyOf
<1>6. EndsAreUnderWay' /\ HolderWasAcknowledged'
  BY <1>1, <1>4 DEF IInv, EndsAreUnderWay, HolderWasAcknowledged, MayStillTake
<1> QED BY <1>2, <1>3, <1>5, <1>6 DEF IInv

-----------------------------------------------------------------------------
(* The frames                                                               *)

LEMMA FramesKeep ==
  ASSUME IInv, Manager!TypeOK', NEW l \in Lifts,
         HandleFrame(l) \/ DropFrame(l) \/ PumpDies(l) \/ SendFrame(l) \/ Disconnect(l)
  PROVE  IInv'
<1> USE AdapterAssumption DEF callVars, processVars, serverVars
<1>1. frames[l] \in Seq(Holder) /\ Len(frames[l]) <= MaxFrames /\ lock[l] \in Holder
  BY DEF IInv, TypeOK
<1>2. /\ UNCHANGED <<callVars, processVars, net, serverVars>>
      /\ pump' \in [Lifts -> {"up", "dead"}]
  BY DEF HandleFrame, DropFrame, PumpDies, SendFrame, Disconnect, IInv, TypeOK
<1>3. PICK rest \in Seq(Holder) : Len(rest) <= MaxFrames /\ frames' = [frames EXCEPT ![l] = rest]
  <2>1. CASE HandleFrame(l) \/ DropFrame(l)
    <3>1. frames[l] # <<>> /\ frames' = [frames EXCEPT ![l] = Tail(frames[l])]
      BY <2>1 DEF HandleFrame, DropFrame
    <3>2. Tail(frames[l]) \in Seq(Holder) /\ Len(Tail(frames[l])) <= MaxFrames
      BY <1>1, <3>1
    <3> QED BY <3>1, <3>2
  <2>2. CASE PumpDies(l) \/ Disconnect(l)
    <3>1. frames' = [frames EXCEPT ![l] = <<>>]
      BY <2>2 DEF PumpDies, Disconnect
    <3>2. <<>> \in Seq(Holder) /\ Len(<<>>) <= MaxFrames
      OBVIOUS
    <3> QED BY <3>1, <3>2
  <2>3. CASE SendFrame(l)
    <3>1. /\ Len(frames[l]) < MaxFrames
          /\ frames' = [frames EXCEPT ![l] = Append(frames[l], lock[l])]
      BY <2>3 DEF SendFrame
    <3>2. /\ Append(frames[l], lock[l]) \in Seq(Holder)
          /\ Len(Append(frames[l], lock[l])) <= MaxFrames
      BY <1>1, <3>1
    <3> QED BY <3>1, <3>2
  <2> QED BY <2>1, <2>2, <2>3
<1>4. frames' \in [Lifts -> Seq(Holder)] /\ \A k \in Lifts : Len(frames'[k]) <= MaxFrames
  BY <1>3 DEF IInv, TypeOK
<1>5. TypeOK'
  BY <1>2, <1>4 DEF IInv, TypeOK
<1> QED BY <1>2, <1>5, QuietSteps DEF IInv, TypeOK

-----------------------------------------------------------------------------
(* The network and the server                                               *)

LEMMA LoseKeeps ==
  ASSUME IInv, Manager!TypeOK', NEW p \in net, LosePost(p)
  PROVE  IInv'
<1> USE DEF callVars, processVars, serverVars, stateFlow
<1>1. /\ net' = net \ {p}
      /\ UNCHANGED <<callVars, processVars, serverVars, stateFlow>>
  BY DEF LosePost
<1>2. TypeOK'
  BY <1>1 DEF IInv, TypeOK
<1>3. Executions' /\ Answers' /\ OldCopiesAreSpent'
  BY <1>1 DEF IInv, Executions, Answers, OldCopiesAreSpent, OpenRequests, CopyOf
<1>4. EndsAreUnderWay' /\ HolderWasAcknowledged'
  BY <1>1 DEF IInv, EndsAreUnderWay, HolderWasAcknowledged, OpenRequests, MayStillTake
<1> QED BY <1>2, <1>3, <1>4 DEF IInv

(* A POST that has an effect is a copy of an open request: the session that  *)
(* gets the lift by it may still take it, and nobody else's end is undone.   *)
LEMMA ServeKeeps ==
  ASSUME IInv, Manager!TypeOK', NEW p \in net, ServePost(p)
  PROVE  IInv'
<1> USE DEF callVars, processVars, serverVars, stateFlow
<1>1. /\ net' = net \ {p}
      /\ UNCHANGED <<pc, req, attempt, nextExec, processVars, stateFlow>>
  BY DEF ServePost
<1>2. /\ p.exec \in 1..MaxExecutions /\ p.lift \in Lifts /\ p.session \in Sessions
      /\ p.type \in PostTypes /\ p.exec < nextExec
      /\ p.exec \in executed \/ \E r \in OpenRequests : CopyOf(r, p)
  BY DEF IInv, TypeOK, Post, Executions, OldCopiesAreSpent
<1>3. \/ UNCHANGED serverVars
      \/ /\ p.exec \notin executed /\ executed' = executed \cup {p.exec}
         /\ lock[p.lift] \in {Free, p.session}
         /\ \/ /\ p.type = "AGV_MODE"
               /\ lock' = [lock EXCEPT ![p.lift] = p.session]
               /\ ending' = [ending EXCEPT ![p.lift] = FALSE]
            \/ /\ p.type # "AGV_MODE" /\ lock' = lock
               /\ ending' = [ending EXCEPT ![p.lift] = (lock[p.lift] = p.session)]
  BY DEF ServePost
<1>4. /\ reply' \in Replies
      /\ pc = "wait" /\ reply' = "202" => reply = "202" \/ (p.exec = req.exec /\ p.exec \in executed')
  <2>1. PICK code \in {"202", "401", "4xx", "5xx"} :
          Answer(p, code) /\ (code = "202" => p.exec \in executed')
    BY DEF ServePost
  <2> QED BY <2>1 DEF Answer, Replies, IInv, TypeOK
<1>5. executed \subseteq executed'
  BY <1>3
<1>6. TypeOK'
  BY <1>1, <1>2, <1>3, <1>4 DEF IInv, TypeOK, Holder
<1>7. Executions' /\ Answers'
  BY <1>1, <1>2, <1>3, <1>4, <1>5 DEF IInv, Executions, Answers
<1>8. OldCopiesAreSpent'
  BY <1>1, <1>5 DEF IInv, OldCopiesAreSpent, OpenRequests, CopyOf
<1>9. EndsAreUnderWay' /\ HolderWasAcknowledged'
  <2>0. \A l \in Lifts, s \in Holder : MayStillTake(l, s)' = MayStillTake(l, s)
    BY <1>1, SameOpenRequests
  <2>1. CASE UNCHANGED serverVars
    BY <1>1, <2>1 DEF IInv, EndsAreUnderWay, HolderWasAcknowledged, OpenRequests, MayStillTake
  <2>2. CASE p.exec \notin executed /\ ~UNCHANGED serverVars
    <3>1. PICK r \in OpenRequests : CopyOf(r, p)
      BY <1>2, <2>2
    <3>2. \A l \in Lifts \ {p.lift} : lock'[l] = lock[l] /\ ending'[l] = ending[l]
      BY <1>3, <2>2 DEF IInv, TypeOK
    <3>3. lock'[p.lift] \in {Free, p.session}
      BY <1>2, <1>3, <2>2 DEF IInv, TypeOK
    <3>4. p.type = "AGV_MODE" => MayStillTake(p.lift, p.session)
      BY <3>1 DEF MayStillTake, CopyOf
    <3>5. p.type # "AGV_MODE" => (lock'[p.lift] = p.session => ending'[p.lift])
      BY <1>2, <1>3, <2>2 DEF IInv, TypeOK
    <3>6. p.session \in Holder
      BY <1>2 DEF Holder
    <3>7. HolderWasAcknowledged'
      BY <1>1, <1>2, <2>0, <3>2, <3>3, <3>4, <3>5, <3>6 DEF IInv, TypeOK, HolderWasAcknowledged
    <3>8. EndsAreUnderWay'
      <4> SUFFICES ASSUME req' # NoRequest, req'.type # "AGV_MODE", req'.exec \in executed',
                          lock'[req'.lift] = req'.session
                   PROVE  (ending[req.lift] \/ MayStillTake(req.lift, req.session))'
        BY DEF EndsAreUnderWay
      <4>1. req' = req /\ req.lift \in Lifts /\ req.session \in Sessions
        BY <1>1, RequestInHand DEF IInv
      <4>4. MayStillTake(req.lift, req.session) => MayStillTake(req.lift, req.session)'
        BY <1>1 DEF MayStillTake, OpenRequests
      <4>2. CASE req.lift = p.lift
        <5>1. req.session = p.session
          BY <3>3, <4>1, <4>2, AdapterAssumption
        <5> QED BY <3>4, <3>5, <4>1, <4>2, <4>4, <5>1
      <4>3. CASE req.lift # p.lift
        <5>1. req.exec \in executed
          <6>1. req \in OpenRequests /\ r \in Request /\ req \in Request
            BY <1>1, <3>1, RequestInHand DEF IInv, TypeOK, OpenRequests
          <6>2. r # req
            BY <3>1, <4>3 DEF CopyOf
          <6>3. r.exec # req.exec
            BY <6>2 DEF IInv, Executions, OpenRequests
          <6> QED BY <1>3, <2>2, <3>1, <4>1, <6>3 DEF CopyOf
        <5> QED BY <3>2, <4>1, <4>3, <4>4, <5>1 DEF IInv, EndsAreUnderWay
      <4> QED BY <4>2, <4>3
    <3> QED BY <3>7, <3>8
  <2> QED BY <1>3, <2>1, <2>2
<1> QED BY <1>6, <1>7, <1>8, <1>9 DEF IInv

LEMMA ServerKeeps ==
  ASSUME IInv, Manager!TypeOK', NEW l \in Lifts, ServerRelease(l) \/ ServerExpire(l)
  PROVE  IInv'
<1> USE DEF callVars, processVars, stateFlow
<1>1. /\ lock' = [lock EXCEPT ![l] = Free] /\ ending' = [ending EXCEPT ![l] = FALSE]
      /\ UNCHANGED <<callVars, processVars, net, executed, stateFlow>>
  BY DEF ServerRelease, ServerExpire
<1>2. TypeOK'
  BY <1>1 DEF IInv, TypeOK, Holder
<1>3. Executions' /\ Answers' /\ OldCopiesAreSpent'
  BY <1>1 DEF IInv, Executions, Answers, OldCopiesAreSpent, OpenRequests, CopyOf
<1>4. EndsAreUnderWay'
  <2>1. req # NoRequest => req.session # Free /\ req.lift \in Lifts
    BY RequestInHand, AdapterAssumption DEF IInv
  <2> QED BY <1>1, <2>1 DEF IInv, TypeOK, EndsAreUnderWay, OpenRequests, MayStillTake
<1>5. HolderWasAcknowledged'
  BY <1>1 DEF IInv, TypeOK, HolderWasAcknowledged, OpenRequests, MayStillTake
<1> QED BY <1>2, <1>3, <1>4, <1>5 DEF IInv

-----------------------------------------------------------------------------
LEMMA InitInvariant == AdapterInit => IInv
<1> SUFFICES ASSUME AdapterInit PROVE IInv
  OBVIOUS
<1> USE AdapterAssumption
<1>1. Manager!TypeOK
  <2>1. 0 \in 0..Manager!MaxAge
    BY DEF Manager!MaxAge
  <2> QED BY <2>1 DEF AdapterInit, Manager!Init, Manager!TypeOK, Manager!Holder
<1>2. frames \in [Lifts -> Seq(Holder)] /\ \A l \in Lifts : Len(frames[l]) <= MaxFrames
  <2>1. <<>> \in Seq(Holder) /\ Len(<<>>) <= MaxFrames
    OBVIOUS
  <2>2. \A l \in Lifts : frames[l] = <<>>
    BY DEF AdapterInit
  <2>3. frames \in [Lifts -> Seq(Holder)]
    BY <2>1 DEF AdapterInit
  <2> QED BY <2>1, <2>2, <2>3, Zenon
<1>3. TypeOK
  <2>1. /\ pc \in {"idle", "post", "wait", "release"} /\ req \in Request \cup {NoRequest}
        /\ (pc # "idle") = (req # NoRequest)
        /\ attempt \in 0..MaxRetries /\ reply \in Replies /\ nextExec \in 1..(MaxExecutions + 1)
        /\ kills \in 0..MaxKills /\ running \in BOOLEAN /\ lost \subseteq Request
    <3>1. /\ pc = "idle" /\ req = NoRequest /\ attempt = 0 /\ reply = "none" /\ nextExec = 1
          /\ running = TRUE /\ kills = 0 /\ lost = {}
      BY DEF AdapterInit
    <3>2. (pc # "idle") = (req # NoRequest)
      BY <3>1
    <3>3. running \in BOOLEAN /\ lost \subseteq Request
      BY <3>1
    <3>4. attempt \in 0..MaxRetries /\ nextExec \in 1..(MaxExecutions + 1) /\ kills \in 0..MaxKills
      BY <3>1
    <3>5. /\ pc \in {"idle", "post", "wait", "release"} /\ reply \in Replies
          /\ req \in Request \cup {NoRequest}
      BY <3>1 DEF Replies
    <3> QED BY <3>2, <3>3, <3>4, <3>5
  <2>2. entitled \in [Lifts -> SUBSET Sessions] /\ net \subseteq Post /\ executed \subseteq 1..MaxExecutions
    BY DEF AdapterInit
  <2>3. /\ lock \in [Lifts -> Holder] /\ ending \in [Lifts -> BOOLEAN]
        /\ pump \in [Lifts -> {"up", "dead"}]
    BY DEF AdapterInit, Holder
  <2> QED BY <1>1, <1>2, <2>1, <2>2, <2>3 DEF TypeOK
<1>4. Executions /\ Answers /\ OldCopiesAreSpent /\ EndsAreUnderWay
  BY DEF AdapterInit, Executions, Answers, OldCopiesAreSpent, EndsAreUnderWay
<1>5. HolderWasAcknowledged
  BY DEF AdapterInit, HolderWasAcknowledged
<1> QED BY <1>3, <1>4, <1>5 DEF IInv

(* Every reachable state is as the invariant says. *)
THEOREM LiftInvariance == AdapterSpec => []IInv
<1>1. IInv /\ [AdapterNext]_vars => IInv'
  <2> SUFFICES ASSUME IInv, [AdapterNext]_vars PROVE IInv'
    OBVIOUS
  <2>1. Manager!TypeOK'
    BY StepKeepsManagerTypes DEF IInv
  <2>2. ASSUME UNCHANGED <<callVars, lost, entitled, net, serverVars, stateFlow>>,
               kills' = kills, running' \in BOOLEAN, running => running'
        PROVE  IInv'
    <3>1. TypeOK'
      BY <2>1, <2>2 DEF callVars, serverVars, stateFlow, IInv, TypeOK
    <3> QED BY <2>2, <3>1, QuietSteps
  <2>3. CASE \E r \in LiftRequests : DropRequest(r) \/ RefuseRequest(r)
    <3>1. UNCHANGED <<callVars, processVars, net, serverVars, stateFlow>>
      BY <2>3 DEF DropRequest, RefuseRequest, vars
    <3> QED BY <2>2, <3>1 DEF processVars, IInv, TypeOK
  <2>4. CASE Restart \/ Tick \/ UNCHANGED vars
    BY <2>2, <2>4 DEF Restart, Tick, vars, processVars, IInv, TypeOK
  <2> QED BY <2>1, <2>3, <2>4, AcceptKeeps, SendKeeps, RetryKeeps, PostAcceptedKeeps, ReleaseKeeps,
             DieKeeps, FramesKeep, LoseKeeps, ServeKeeps, ServerKeeps
          DEF AdapterNext
<1> QED BY <1>1, InitInvariant, PTL DEF AdapterSpec

(* The variables of both threads, the network and the server keep to their   *)
(* types; the attempt stays within the retry limit.                          *)
THEOREM LiftTypeOK == AdapterSpec => []TypeOK
<1>1. IInv => TypeOK
  BY DEF IInv
<1> QED BY <1>1, LiftInvariance, PTL

(* Whoever holds the lift was acknowledged, is being ended, or has a request *)
(* that is open or was lost: no late copy of a retried POST takes the lift   *)
(* back for a session that has ended, whatever dispatches failed and however *)
(* often the process died (http.py:290, lift_handle.py:305-340).             *)
THEOREM HoldersAreAcknowledged == AdapterSpec => []HolderWasAcknowledged
<1>1. IInv => HolderWasAcknowledged
  BY DEF IInv
<1> QED BY <1>1, LiftInvariance, PTL

(* The maps of the running adapter follow the specification of the session   *)
(* manager in every interleaving (session_manager.py, one RLock).            *)
THEOREM AdapterUsesManager == AdapterSpec => UsesManager
<1>1. AdapterInit => Manager!Init
  BY DEF AdapterInit
<1>2. IInv /\ [AdapterNext]_vars => [Manager!Next]_(Manager!managerVars)
  BY StepUsesManager DEF IInv, vars, managerVars, Manager!managerVars
<1> QED BY <1>1, <1>2, LiftInvariance, PTL DEF AdapterSpec, UsesManager, Manager!Spec

(* In every interleaving of the two threads, the two views of a lift name    *)
(* one session at most.                                                      *)
THEOREM ViewsAgree == AdapterSpec => [](Manager!ClaimAgreesWithView)
<1>1. AdapterInit => Manager!ClaimAgreesWithView
  BY DEF AdapterInit, Manager!Init, Manager!ClaimAgreesWithView
<1>2. IInv /\ Manager!ClaimAgreesWithView /\ [AdapterNext]_vars => Manager!ClaimAgreesWithView'
  <2> SUFFICES ASSUME IInv, Manager!ClaimAgreesWithView, [AdapterNext]_vars
               PROVE  Manager!ClaimAgreesWithView'
    OBVIOUS
  <2>1. [Manager!Next]_(Manager!managerVars)
    BY StepUsesManager DEF IInv, vars, managerVars, Manager!managerVars
  <2> QED BY <2>1, ManagerKeepsAgreement DEF IInv, TypeOK
<1> QED BY <1>1, <1>2, LiftInvariance, PTL DEF AdapterSpec

(* What the manager's module proves of its specification holds of the maps   *)
(* in the running adapter.                                                   *)
LEMMA ManagerSpecHolds == AdapterSpec => ManagerFacts!Spec
<1>1. AdapterInit => ManagerFacts!Init
  BY DEF AdapterInit, Manager!Init, ManagerFacts!Init
<1>2. IInv /\ [AdapterNext]_vars => [ManagerFacts!Next]_(ManagerFacts!managerVars)
  BY StepUsesManager, SameManager DEF IInv, vars, managerVars, Manager!managerVars
<1> QED BY <1>1, <1>2, LiftInvariance, PTL DEF AdapterSpec, ManagerFacts!Spec

(* The claims the running adapter honours, and the holders it has seen, go   *)
(* through a SessionClaim, whatever the two threads, the retries, the raised *)
(* POSTs and the restarts do: a lift never passes from one session to        *)
(* another without having been free.                                         *)
THEOREM AdapterIsSessionClaim == AdapterSpec => ManagerFacts!ImplementsSessionClaim
<1>1. ManagerFacts!Spec => ManagerFacts!ImplementsSessionClaim
  BY ManagerFacts!Refinement, AdapterAssumption
<1> QED BY <1>1, ManagerSpecHolds, PTL

(* No session loses its claim in the running adapter but by its own release, *)
(* a frame that names somebody else, its TTL, or the end of the process.     *)
THEOREM AdapterLosesClaimsByRight == AdapterSpec => ManagerFacts!ClaimLostByRight
<1>1. ManagerFacts!Spec => ManagerFacts!ClaimLostByRight
  BY ManagerFacts!LossesAreRightful, AdapterAssumption
<1> QED BY <1>1, ManagerSpecHolds, PTL

(* While the last frame names the holder of a lift, the gate lets no         *)
(* AGV_MODE of another session through (session_manager.py:98-117): the      *)
(* claim it may go by instead never contradicts that frame.  One that goes   *)
(* out against a frame, which came after the gate, has lost its claim to it. *)
THEOREM ConfirmedHoldsBlock == AdapterSpec => ConfirmedHoldBlocksOthers
<1> DEFINE Gated == pc = "idle" /\ pc' = "post" => ~AgainstFrame(req')
           Overtaken == pc = "post" /\ pc' = "wait" /\ AgainstFrame(req) =>
                          requested[req.lift] # req.session
           Allowed == /\ pc = "idle" /\ pc' = "post" => ~AgainstFrame(req')
                      /\ pc = "post" /\ pc' = "wait" /\ AgainstFrame(req) =>
                           requested[req.lift] # req.session
<1>1. IInv /\ Manager!ClaimAgreesWithView /\ [AdapterNext]_vars => Gated \/ UNCHANGED vars
  <2> SUFFICES ASSUME IInv, Manager!ClaimAgreesWithView, AdapterNext,
                      pc = "idle", pc' = "post", req'.type = "AGV_MODE"
               PROVE  server[req'.lift] \in {Free, Unseen, req'.session}
    BY DEF AgainstFrame
  <2>1. PICK r \in LiftRequests : AcceptRequest(r)
    BY DEF AdapterNext, DropRequest, RefuseRequest, SendPost, RetryPost, RetryUnauthorized,
           PostAccepted, ReleaseLocally, PostRaises, Kill, Die, ReturnIdle, Restart, Tick,
           HandleFrame, DropFrame, PumpDies, LosePost, ServePost, ServerRelease, ServerExpire,
           SendFrame, Disconnect, callVars, vars
  <2>2. /\ r.lift \in Lifts /\ r.session \in Sessions
        /\ req' = [exec |-> nextExec, lift |-> r.lift, session |-> r.session, type |-> r.type]
    BY <2>1 DEF AcceptRequest, Translatable, LiftRequests, Holder
  <2>3. Manager!Acquirable(r.lift, r.session)
    BY <2>1, <2>2, AdapterAssumption DEF AcceptRequest, Manager!TryAcquire
  <2>4. server[r.lift] \in {Free, Unseen, r.session}
    BY <2>2, <2>3, AdapterAssumption
       DEF Manager!Acquirable, Manager!Live, Manager!ServerSaysFree, Manager!ClaimAgreesWithView
  <2> QED BY <2>2, <2>4
<1>2. IInv /\ Manager!ClaimAgreesWithView => Overtaken
  <2> SUFFICES ASSUME IInv, Manager!ClaimAgreesWithView, pc = "post",
                      AgainstFrame(req), requested[req.lift] = req.session
               PROVE  FALSE
    OBVIOUS
  <2>1. req.lift \in Lifts /\ req.session \in Sessions
    BY AdapterAssumption DEF IInv, TypeOK, Request
  <2>2. server[req.lift] \in {Unseen, Free, req.session}
    BY <2>1, AdapterAssumption DEF Manager!ClaimAgreesWithView
  <2> QED BY <2>2 DEF AgainstFrame
<1>3. ConfirmedHoldBlocksOthers <=> [][Allowed]_vars
  BY DEF ConfirmedHoldBlocksOthers
<1>4. IInv /\ Manager!ClaimAgreesWithView /\ [AdapterNext]_vars => Allowed \/ UNCHANGED vars
  BY <1>1, <1>2
<1> QED BY <1>3, <1>4, LiftInvariance, ViewsAgree, PTL DEF AdapterSpec

-----------------------------------------------------------------------------
(* Dispatches are bounded                                                   *)

(* The steps a dispatch has at most left, each of them its own. *)
StepsLeft ==
  CASE pc = "idle" -> 0
    [] pc = "release" -> 1
    [] pc = "wait" -> 2 * (MaxRetries - attempt) + 2
    [] pc = "post" -> 2 * (MaxRetries - attempt) + 3

LEMMA StepsLeftIsBounded ==
  ASSUME TypeOK
  PROVE  /\ StepsLeft \in 0..(2 * MaxRetries + 3)
         /\ pc # "idle" => StepsLeft >= 1
         /\ pc = "wait" => StepsLeft >= 2
<1>1. pc \in {"idle", "post", "wait", "release"} /\ attempt \in 0..MaxRetries
  BY DEF TypeOK
<1>2. PICK left \in 0..MaxRetries : left = MaxRetries - attempt
  BY <1>1, AdapterAssumption
<1>3. /\ pc = "idle" => StepsLeft = 0
      /\ pc = "release" => StepsLeft = 1
      /\ pc = "wait" => StepsLeft = 2 * left + 2
      /\ pc = "post" => StepsLeft = 2 * left + 3
  BY <1>2 DEF StepsLeft
<1> QED BY <1>1, <1>3, AdapterAssumption

(* Every step of dispatch_request is one of at most 2 * MaxRetries + 3, so a *)
(* subscriber callback returns to the executor after that many, and neither  *)
(* frames, the network, the server nor the clock give it steps back; only    *)
(* the next request that reaches the POST starts again (lift_handle.py       *)
(* dispatch_request over http.py _request_json).                             *)
THEOREM DispatchesAdvance ==
  AdapterSpec => /\ [](StepsLeft \in 0..(2 * MaxRetries + 3))
                 /\ [][/\ CallStep => StepsLeft' < StepsLeft
                       /\ StepsLeft' > StepsLeft => pc = "idle" /\ pc' = "post"]_vars
<1> DEFINE Advances == /\ CallStep => StepsLeft' < StepsLeft
                       /\ StepsLeft' > StepsLeft => pc = "idle" /\ pc' = "post"
<1>1. TypeOK => StepsLeft \in 0..(2 * MaxRetries + 3)
  BY StepsLeftIsBounded
<1>2. TypeOK /\ TypeOK' /\ [AdapterNext]_vars => [Advances]_vars
  <2> SUFFICES ASSUME TypeOK, TypeOK', AdapterNext PROVE Advances
    OBVIOUS
  <2> USE AdapterAssumption
  <2>0. /\ attempt \in 0..MaxRetries /\ pc \in {"idle", "post", "wait", "release"}
        /\ StepsLeft \in Nat /\ StepsLeft' \in Nat
    <3>1. StepsLeft \in Nat
      BY StepsLeftIsBounded
    <3>2. pc' \in {"idle", "post", "wait", "release"} /\ attempt' \in 0..MaxRetries
      BY DEF TypeOK
    <3>3. \A a \in 0..MaxRetries : 2 * (MaxRetries - a) + 2 \in Nat /\ 2 * (MaxRetries - a) + 3 \in Nat
      OBVIOUS
    <3>4. /\ 2 * (MaxRetries - attempt') + 2 \in Nat
          /\ 2 * (MaxRetries - attempt') + 3 \in Nat
      BY <3>2, <3>3, Zenon
    <3>5. StepsLeft' \in Nat
      BY <3>2, <3>4 DEF StepsLeft
    <3> QED BY <3>1, <3>5 DEF TypeOK
  <2>1. ASSUME SendPost \/ RetryPost \/ RetryUnauthorized PROVE StepsLeft' < StepsLeft
    <3>1. CASE SendPost
      BY <2>0, <3>1 DEF SendPost, StepsLeft
    <3>2. CASE RetryPost \/ RetryUnauthorized
      BY <2>0, <3>2 DEF RetryPost, RetryUnauthorized, StepsLeft
    <3> QED BY <2>1, <3>1, <3>2
  <2>2. ASSUME PostAccepted \/ ReleaseLocally \/ PostRaises PROVE StepsLeft' < StepsLeft
    <3>1. \/ pc # "idle" /\ pc' = "idle"
          \/ pc = "wait" /\ pc' = "release"
      <4>1. CASE PostAccepted
        BY <4>1 DEF PostAccepted, ReturnIdle
      <4>2. CASE ReleaseLocally \/ PostRaises
        BY <4>2 DEF ReleaseLocally, PostRaises, Die, ReturnIdle
      <4> QED BY <2>2, <4>1, <4>2
    <3>2. (pc' = "idle" => StepsLeft' = 0) /\ (pc' = "release" => StepsLeft' = 1)
      BY DEF StepsLeft
    <3>3. (pc # "idle" => StepsLeft >= 1) /\ (pc = "wait" => StepsLeft >= 2)
      BY StepsLeftIsBounded
    <3> QED BY <2>0, <3>1, <3>2, <3>3
  <2>3. ASSUME CallStep PROVE StepsLeft' < StepsLeft
    BY <2>1, <2>2, <2>3 DEF CallStep
  <2>4. CASE CallStep
    BY <2>0, <2>3, <2>4
  <2>5. CASE \E r \in LiftRequests : DropRequest(r) \/ RefuseRequest(r) \/ AcceptRequest(r)
    <3>1. pc = "idle" /\ (pc' = "post" \/ UNCHANGED <<pc, attempt>>)
      BY <2>5 DEF DropRequest, RefuseRequest, AcceptRequest, vars, callVars
    <3>2. UNCHANGED <<pc, attempt>> => StepsLeft' = StepsLeft
      BY DEF StepsLeft
    <3> QED BY <2>0, <2>3, <3>1, <3>2
  <2>6. CASE Kill
    <3>1. pc' = "idle"
      BY <2>6 DEF Kill, Die, ReturnIdle
    <3>2. StepsLeft' = 0
      BY <3>1 DEF StepsLeft
    <3> QED BY <2>0, <2>3, <3>2
  <2>7. CASE \/ Restart \/ Tick
             \/ \E l \in Lifts : \/ HandleFrame(l) \/ DropFrame(l) \/ PumpDies(l) \/ SendFrame(l)
                               \/ Disconnect(l) \/ ServerRelease(l) \/ ServerExpire(l)
             \/ \E p \in net : LosePost(p) \/ ServePost(p)
    <3>1. UNCHANGED <<pc, attempt>>
      BY <2>7 DEF Restart, Tick, HandleFrame, DropFrame, PumpDies, SendFrame, Disconnect,
                  ServerRelease, ServerExpire, LosePost, ServePost, callVars
    <3>2. StepsLeft' = StepsLeft
      BY <3>1 DEF StepsLeft
    <3> QED BY <2>0, <2>3, <3>2
  <2> QED BY <2>4, <2>5, <2>6, <2>7 DEF AdapterNext, CallStep
<1> QED BY <1>1, <1>2, LiftTypeOK, PTL DEF AdapterSpec
-----------------------------------------------------------------------------
(* The dispatches refine RemoteCall                                         *)

(* What RemoteCall sees of dispatch n. *)
StatusOf(n) ==
  IF n >= nextExec THEN "new"
  ELSE IF \E r \in lost : r.exec = n THEN "error"
  ELSE IF pc \in {"post", "wait"} /\ req.exec = n THEN "pending"
  ELSE "ok"

(* The dispatch under way is pending: its id is neither fresh nor lost. *)
LEMMA DispatchUnderWayIsPending ==
  ASSUME IInv, pc \in {"post", "wait"}
  PROVE  /\ req.exec \in Dispatches /\ req.exec < nextExec
         /\ StatusOf(req.exec) = "pending"
<1>1. req # NoRequest
  BY DEF IInv, TypeOK
<1>2. req.exec \in 1..MaxExecutions /\ req.exec < nextExec
  BY <1>1, RequestInHand DEF IInv, Executions
<1>3. ~\E r \in lost : r.exec = req.exec
  BY DEF IInv, Executions
<1> QED BY <1>2, <1>3, AdapterAssumption DEF StatusOf, Dispatches, IInv, TypeOK

(* A request that is still open and has had no effect is pending or lost. *)
LEMMA OpenDispatches ==
  ASSUME IInv, NEW r \in OpenRequests, r.exec \notin executed
  PROVE  r.exec \in Dispatches /\ StatusOf(r.exec) \in {"pending", "error"}
<1>1. CASE r \in lost
  <2>1. r.exec \in 1..MaxExecutions /\ r.exec < nextExec
    BY <1>1 DEF IInv, TypeOK, Request, Executions
  <2> QED BY <1>1, <2>1, AdapterAssumption DEF StatusOf, Dispatches, IInv, TypeOK
<1>2. CASE r = req /\ req # NoRequest
  <2>1. pc \in {"post", "wait"}
    BY <1>2 DEF IInv, TypeOK, Answers
  <2> QED BY <1>2, <2>1, DispatchUnderWayIsPending
<1> QED BY <1>1, <1>2 DEF OpenRequests

(* What a step does to the dispatches: one is begun, returns, or has its     *)
(* effect, as RemoteCall allows, or nothing changes.                         *)
LEMMA StepOfADispatch ==
  ASSUME IInv, IInv', [AdapterNext]_vars
  PROVE  [Remote!CallNext]_Remote!callVars
<1> USE AdapterAssumption DEF Dispatches
<1> DEFINE calls == [n \in Dispatches |-> StatusOf(n)]
           effects == [n \in Dispatches |-> n \in executed]
<1>0. nextExec \in 1..(MaxExecutions + 1)
  BY DEF IInv, TypeOK
<1>1. ASSUME NEW r \in LiftRequests, AcceptRequest(r)
      PROVE  Remote!CallNext
  <2>1. /\ pc = "idle" /\ pc' = "post" /\ req'.exec = nextExec
        /\ nextExec \in Dispatches /\ nextExec' = nextExec + 1
        /\ UNCHANGED <<lost, executed>>
    BY <1>0, <1>1 DEF AcceptRequest, processVars, serverVars
  <2>2. calls[nextExec] = "new"
    BY <1>0, <2>1 DEF StatusOf
  <2>3. calls' = [calls EXCEPT ![nextExec] = "pending"]
    <3>1. \A m \in lost : m.exec # nextExec
      BY <1>0 DEF IInv, TypeOK, Executions, Request
    <3>2. \A n \in Dispatches : StatusOf(n)' = IF n = nextExec THEN "pending" ELSE StatusOf(n)
      BY <1>0, <2>1, <3>1 DEF StatusOf
    <3> QED BY <2>1, <3>2
  <2>4. effects' = effects
    BY <2>1
  <2> QED BY <2>1, <2>2, <2>3, <2>4 DEF Remote!CallNext, Remote!Begin, StatusOf
<1>2. ASSUME PostAccepted
      PROVE  Remote!CallNext
  <2>1. /\ pc = "wait" /\ pc' \in {"idle", "release"} /\ UNCHANGED <<lost, executed, nextExec>>
        /\ req.exec \in executed
    BY <1>2 DEF PostAccepted, ReturnIdle, serverVars, IInv, Answers
  <2>2. req.exec \in Dispatches /\ req.exec < nextExec /\ calls[req.exec] = "pending"
    BY <2>1, DispatchUnderWayIsPending
  <2>3. calls' = [calls EXCEPT ![req.exec] = "ok"]
    <3>1. \A m \in lost : m.exec # req.exec
      BY DEF IInv, Executions
    <3>2. \A n \in Dispatches : StatusOf(n)' = IF n = req.exec THEN "ok" ELSE StatusOf(n)
      BY <1>0, <2>1, <2>2, <3>1 DEF StatusOf
    <3> QED BY <2>2, <3>2
  <2>4. effects' = effects
    BY <2>1
  <2> QED BY <2>1, <2>2, <2>3, <2>4 DEF Remote!CallNext, Remote!ReturnOk, StatusOf
<1>3. ASSUME Die, pc \in {"post", "wait"}
      PROVE  Remote!CallNext
  <2>1. pc' = "idle" /\ lost' = lost \cup {req} /\ UNCHANGED <<executed, nextExec>>
    BY <1>3 DEF Die, ReturnIdle, serverVars
  <2>2. req.exec \in Dispatches /\ req.exec < nextExec /\ calls[req.exec] = "pending"
    BY <1>3, DispatchUnderWayIsPending
  <2>3. calls' = [calls EXCEPT ![req.exec] = "error"]
    <3>1. \A n \in Dispatches : StatusOf(n)' = IF n = req.exec THEN "error" ELSE StatusOf(n)
      BY <1>0, <2>1, <2>2 DEF StatusOf
    <3> QED BY <2>2, <3>1
  <2>4. effects' = effects
    BY <2>1
  <2> QED BY <2>2, <2>3, <2>4 DEF Remote!CallNext, Remote!ReturnError, StatusOf
<1>4. ASSUME NEW p \in net, ServePost(p), executed' # executed
      PROVE  Remote!CallNext
  <2>1. p.exec \notin executed /\ executed' = executed \cup {p.exec}
    BY <1>4 DEF ServePost, serverVars
  <2>2. PICK r \in OpenRequests : CopyOf(r, p)
    BY <2>1 DEF IInv, OldCopiesAreSpent
  <2>3. p.exec \in Dispatches /\ calls[p.exec] \in {"pending", "error"}
    BY <2>1, <2>2, OpenDispatches DEF CopyOf
  <2>4. calls' = calls
    BY <1>4 DEF ServePost, processVars, StatusOf
  <2>5. effects' = [effects EXCEPT ![p.exec] = TRUE]
    <3>1. \A n \in Dispatches : (n \in executed') = (IF n = p.exec THEN TRUE ELSE n \in executed)
      <4> SUFFICES ASSUME NEW n \in Dispatches
                   PROVE  (n \in executed') = (IF n = p.exec THEN TRUE ELSE n \in executed)
        OBVIOUS
      <4>1. CASE n = p.exec
        BY <2>1, <4>1, Zenon
      <4>2. CASE n # p.exec
        <5>1. (n \in executed') = (n \in executed)
          BY <2>1, <4>2
        <5> QED BY <4>2, <5>1, Zenon
      <4> QED BY <4>1, <4>2
    <3>2. effects' = [n \in Dispatches |-> IF n = p.exec THEN TRUE ELSE n \in executed]
      BY <3>1, Zenon
    <3> QED BY <3>2, Zenon
  <2> QED BY <2>1, <2>3, <2>4, <2>5 DEF Remote!CallNext, Remote!TakeEffect, StatusOf
<1>5. ASSUME UNCHANGED <<lost, executed, nextExec>>,
             \/ UNCHANGED <<pc, req>>
             \/ {pc, pc'} \subseteq {"post", "wait"} /\ UNCHANGED req
             \/ {pc, pc'} \subseteq {"idle", "release"}
      PROVE  UNCHANGED Remote!callVars
  <2>1. \A n \in Dispatches : StatusOf(n)' = StatusOf(n)
    BY <1>5 DEF StatusOf
  <2>2. calls' = calls /\ effects' = effects
    BY <1>5, <2>1
  <2> QED BY <2>2 DEF Remote!callVars, StatusOf
<1>6. CASE (PostRaises \/ Kill)
  <2>1. Die
    BY <1>6 DEF PostRaises, Kill
  <2>2. CASE pc \notin {"post", "wait"}
    <3>1. UNCHANGED <<lost, executed, nextExec>> /\ {pc, pc'} \subseteq {"idle", "release"}
      BY <2>1, <2>2 DEF Die, ReturnIdle, serverVars, IInv, TypeOK
    <3> QED BY <1>5, <3>1
  <2> QED BY <1>3, <2>1, <2>2
<1>7. CASE \/ SendPost \/ RetryPost \/ RetryUnauthorized \/ ReleaseLocally \/ Restart \/ Tick
           \/ \E r \in LiftRequests : DropRequest(r) \/ RefuseRequest(r)
           \/ \E l \in Lifts : \/ HandleFrame(l) \/ DropFrame(l) \/ PumpDies(l) \/ SendFrame(l)
                             \/ Disconnect(l) \/ ServerRelease(l) \/ ServerExpire(l)
           \/ UNCHANGED vars
  <2>1. CASE SendPost \/ RetryPost \/ RetryUnauthorized \/ ReleaseLocally
    BY <1>5, <2>1 DEF SendPost, RetryPost, RetryUnauthorized, ReleaseLocally, ReturnIdle,
                      processVars, serverVars
  <2>2. CASE ~(SendPost \/ RetryPost \/ RetryUnauthorized \/ ReleaseLocally)
    <3>1. UNCHANGED <<lost, executed, nextExec, pc, req>>
      BY <1>7, <2>2
      DEF Restart, Tick, DropRequest, RefuseRequest, HandleFrame, DropFrame, PumpDies, SendFrame,
          Disconnect, ServerRelease, ServerExpire, vars, callVars, processVars, serverVars
    <3> QED BY <1>5, <3>1
  <2> QED BY <2>1, <2>2
<1>8. CASE \E p \in net : LosePost(p) \/ (ServePost(p) /\ executed' = executed)
  <2>1. UNCHANGED <<lost, executed, nextExec, pc, req>>
    BY <1>8 DEF LosePost, ServePost, callVars, processVars, serverVars
  <2> QED BY <1>5, <2>1
<1> QED BY <1>1, <1>2, <1>4, <1>6, <1>7, <1>8 DEF AdapterNext

(* The dispatches are remote calls, for any number of them, of sessions and  *)
(* of deaths of the process: an effect at most once, no 202 taken for an     *)
(* answer without it, and a request that was lost may still have it          *)
(* (lift_handle.py dispatch_request over http.py:290).                       *)
THEOREM DispatchesRefineRemoteCall == AdapterSpec => DispatchesAreRemoteCalls
<1>1. AdapterInit => Remote!CallInit
  <2> SUFFICES ASSUME AdapterInit PROVE Remote!CallInit
    OBVIOUS
  <2>1. \A n \in Dispatches : n >= nextExec
    BY AdapterAssumption DEF AdapterInit, Dispatches
  <2>2. \A n \in Dispatches : (n \in executed) = FALSE
    BY DEF AdapterInit
  <2>3. [n \in Dispatches |-> n \in executed] = [n \in Dispatches |-> FALSE]
    BY <2>2, Zenon
  <2> QED BY <2>1, <2>3 DEF Remote!CallInit
<1>2. IInv /\ IInv' /\ [AdapterNext]_vars => [Remote!CallNext]_Remote!callVars
  BY StepOfADispatch
<1> QED BY <1>1, <1>2, LiftInvariance, PTL
        DEF AdapterSpec, DispatchesAreRemoteCalls, Remote!CallSpec
=============================================================================
