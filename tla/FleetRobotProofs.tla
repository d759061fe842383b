-------------------------- MODULE FleetRobotProofs --------------------------
(***************************************************************************)
(* Theorems about FleetRobot for any number of commands and any bound on   *)
(* the frames in transit.  TypeOK says that a robot is added at most once, *)
(* which takes Registration to be inductive; what Open-RMF is told and     *)
(* what the robot executes follow from CallPhases and ServerLedger.        *)
(***************************************************************************)
EXTENDS FleetRobot, SequenceTheorems, TLAPS

(* Registration goes add, bind, bound; only a bound robot is updated. *)
Registration ==
  /\ pumpStep = "update" => bound
  /\ pumpStep \in {"add", "bind"} => prepared /\ ~bound
  /\ added = IF bound \/ pumpStep = "bind" THEN 1 ELSE 0

(* At most the last command is under way, and every earlier one is decided. *)
CallPhases ==
  /\ callback = "post" => command # None /\ status[command] = "pending"
  /\ callback = "accepted" => command # None /\ status[command] = "ok"
  /\ \A n \in Commands : status[n] = "pending" => callback = "post" /\ n = command
  /\ \A n \in Commands : status[n] = "new" <=> n > command

(* The server knows what it accepted, and only failed commands reach the    *)
(* robot after a later one.                                                 *)
ServerLedger ==
  /\ \A n \in carriedOut : status[n] # "new"
  /\ \A n \in Commands : status[n] = "ok" => n \in carriedOut
  /\ \A n \in carriedOut :
       executing # None /\ executing < n => status[executing] = "failed"

Accepted(a) == a # None => status[a] = "ok"

(* An activity is that of an accepted command on its whole way to Open-RMF. *)
ActivitiesAccepted == Accepted(activity) /\ Accepted(held) /\ Accepted(told)

IInv == TypeOK /\ Registration /\ CallPhases /\ ServerLedger /\ ActivitiesAccepted

LEMMA CommandsAreNumbers == Commands \subseteq Nat /\ None \notin Commands
  BY FleetAssumption DEF Commands, None

(* Frames are only taken from the front and put at the end.                 *)
LEMMA FramesTyped ==
  ASSUME TypeOK, [Next]_vars
  PROVE  frames' \in Seq(Poses) /\ Len(frames') <= MaxFrames
<1>1. CASE OnState
  <2>1. frames \in Seq(Poses) /\ frames # <<>> /\ frames' = Tail(frames)
    BY <1>1 DEF OnState, TypeOK
  <2>2. frames' \in Seq(Poses) /\ Len(frames') = Len(frames) - 1 /\ Len(frames) \in Nat
    BY <2>1, HeadTailProperties, LenProperties
  <2>3. QED
    BY <2>2, FleetAssumption DEF TypeOK
<1>2. ASSUME NEW p \in Poses, SendFrame(p)
      PROVE  frames' \in Seq(Poses) /\ Len(frames') <= MaxFrames
  <2>1. /\ frames \in Seq(Poses)
        /\ Len(frames) < MaxFrames
        /\ frames' = Append(frames, p)
    BY <1>2 DEF SendFrame, TypeOK
  <2>2. frames' \in Seq(Poses) /\ Len(frames') = Len(frames) + 1 /\ Len(frames) \in Nat
    BY <2>1, AppendProperties, LenProperties
  <2>3. QED
    BY <2>1, <2>2, FleetAssumption
<1>3. CASE UNCHANGED frames
  BY <1>3 DEF TypeOK
<1>4. QED
  BY <1>1, <1>2, <1>3
  DEF Next, vars, pumpVars, Update, UpdateRaises, AddRobot, AddRobotRefused, Bind,
      Callback, PostAccepted, PostFails, SetActivity, CarryOut, FinishCommand

-----------------------------------------------------------------------------
(* The pump's steps touch neither commands nor the server.                  *)
LEMMA PumpStepKeepsIInv ==
  ASSUME IInv,
         OnState \/ Update \/ UpdateRaises \/ AddRobot \/ AddRobotRefused \/ Bind,
         frames' \in Seq(Poses) /\ Len(frames') <= MaxFrames
  PROVE  IInv'
<1> USE CommandsAreNumbers DEF IInv, Accepted, ActivitiesAccepted
<1>1. TypeOK' /\ Registration'
  <2>1. CASE OnState
    <3>1. /\ UNCHANGED <<handleVars, callbackVars, serverVars, rmfVars>>
          /\ Head(frames) \in Poses
      BY <2>1, HeadTailProperties DEF OnState, TypeOK
    <3>2. /\ pumpStep' \in {"idle", "add", "update"}
          /\ held' \in {None} \cup Commands
          /\ pose' \in {"none", "on", "off"}
      BY <2>1, <3>1 DEF OnState, TypeOK, Poses
    <3>3. TypeOK'
      BY <3>1, <3>2 DEF TypeOK, handleVars, callbackVars, serverVars, rmfVars
    <3>4. Registration'
      BY <2>1, <3>1 DEF OnState, Registration, handleVars, rmfVars
    <3>5. QED
      BY <3>3, <3>4
  <2>2. CASE Update \/ UpdateRaises \/ AddRobotRefused
    <3>1. /\ UNCHANGED <<handleVars, callbackVars, serverVars, added>>
          /\ pumpStep' = "idle" /\ held' = None /\ pose' = "none"
          /\ told' \in {told, held}
      BY <2>2 DEF Update, UpdateRaises, AddRobotRefused, PumpReturns, rmfVars
    <3>2. TypeOK'
      BY <3>1 DEF TypeOK, handleVars, callbackVars, serverVars
    <3>3. pumpStep # "bind"
      BY <2>2 DEF Update, UpdateRaises, AddRobotRefused
    <3>4. Registration'
      BY <3>1, <3>3 DEF Registration, handleVars
    <3>5. QED
      BY <3>2, <3>4
  <2>3. CASE AddRobot
    <3>1. added = 0 /\ added' = 1
      BY <2>3 DEF AddRobot, Registration
    <3>2. TypeOK'
      BY <2>3, <3>1 DEF TypeOK, AddRobot, handleVars, callbackVars, serverVars
    <3>3. Registration'
      BY <2>3, <3>1 DEF Registration, AddRobot, handleVars
    <3>4. QED
      BY <3>2, <3>3
  <2>4. CASE Bind
    <3>1. TypeOK'
      BY <2>4 DEF TypeOK, Registration, Bind, PumpReturns, callbackVars, serverVars, rmfVars
    <3>2. Registration'
      BY <2>4 DEF Registration, Bind, PumpReturns, rmfVars
    <3>3. QED
      BY <3>1, <3>2
  <2>5. QED
    BY <2>1, <2>2, <2>3, <2>4
<1>2. UNCHANGED <<callbackVars, serverVars, activity>>
  BY DEF OnState, Update, UpdateRaises, AddRobot, AddRobotRefused, Bind, handleVars
<1>3. CallPhases' /\ ServerLedger'
  BY <1>2 DEF CallPhases, ServerLedger, callbackVars, serverVars
<1>4. held' \in {held, activity, None} /\ told' \in {told, held}
  BY DEF OnState, Update, UpdateRaises, AddRobot, AddRobotRefused, Bind, PumpReturns, rmfVars
<1>5. ActivitiesAccepted'
  BY <1>2, <1>4 DEF callbackVars
<1>6. QED
  BY <1>1, <1>3, <1>5

(* The callback thread's steps leave the pump alone.                        *)
LEMMA CallbackStepKeepsIInv ==
  ASSUME IInv,
         \/ \E k \in {"navigate", "action", "stop"} : Callback(k)
         \/ PostAccepted \/ PostFails \/ SetActivity
  PROVE  IInv'
<1> USE CommandsAreNumbers DEF IInv
<1>0. UNCHANGED <<prepared, bound, pumpVars, serverVars, rmfVars>>
  BY DEF Callback, PostAccepted, PostFails, SetActivity, handleVars
<1>1. Registration'
  BY <1>0 DEF Registration, pumpVars, rmfVars
<1>2. ASSUME NEW k \in {"navigate", "action", "stop"}, Callback(k)
      PROVE  TypeOK' /\ CallPhases' /\ ServerLedger' /\ ActivitiesAccepted'
  <2>1. command + 1 \in Commands /\ status[command + 1] = "new"
    BY <1>2, FleetAssumption DEF TypeOK, CallPhases, Callback, Commands, None
  <2>2. TypeOK'
    BY <1>0, <1>2, <2>1 DEF TypeOK, Callback, pumpVars, serverVars, rmfVars, handleVars
  <2>3. CallPhases'
    BY <1>2, <2>1 DEF TypeOK, CallPhases, Callback, Commands, None
  <2>4. ServerLedger'
    BY <1>2, <2>1 DEF TypeOK, ServerLedger, Callback, serverVars
  <2>5. ActivitiesAccepted'
    BY <1>2, <2>1
    DEF TypeOK, ActivitiesAccepted, Accepted, Callback, handleVars, pumpVars, rmfVars
  <2>6. QED
    BY <2>2, <2>3, <2>4, <2>5
<1>3. CASE PostAccepted \/ PostFails
  <2>1. /\ callback = "post" /\ command \in Commands /\ status[command] = "pending"
        /\ UNCHANGED <<command, kind, activity>>
    BY <1>3 DEF TypeOK, CallPhases, PostAccepted, PostFails, handleVars
  <2>2. TypeOK'
    BY <1>0, <1>3, <2>1
    DEF TypeOK, PostAccepted, PostFails, pumpVars, serverVars, rmfVars
  <2>3. CallPhases'
    BY <1>3, <2>1 DEF TypeOK, CallPhases, PostAccepted, PostFails
  <2>4. ServerLedger'
    BY <1>0, <1>3, <2>1
    DEF TypeOK, CallPhases, ServerLedger, PostAccepted, PostFails, serverVars
  <2>5. ActivitiesAccepted'
    BY <1>0, <1>3, <2>1
    DEF TypeOK, ActivitiesAccepted, Accepted, PostAccepted, PostFails, pumpVars, rmfVars
  <2>6. QED
    BY <1>1, <2>2, <2>3, <2>4, <2>5
<1>4. CASE SetActivity
  <2>1. TypeOK'
    BY <1>0, <1>4 DEF TypeOK, CallPhases, SetActivity, pumpVars, serverVars, rmfVars
  <2>2. CallPhases' /\ ServerLedger'
    BY <1>0, <1>4 DEF CallPhases, ServerLedger, SetActivity, serverVars
  <2>3. ActivitiesAccepted'
    BY <1>0, <1>4
    DEF CallPhases, ActivitiesAccepted, Accepted, SetActivity, pumpVars, rmfVars
  <2>4. QED
    BY <1>1, <2>1, <2>2, <2>3
<1>5. QED
  BY <1>1, <1>2, <1>3, <1>4

(* The server carries out a command late only if it was reported as failed. *)
LEMMA ServerStepKeepsIInv ==
  ASSUME IInv, (\E n \in Commands : CarryOut(n)) \/ FinishCommand
  PROVE  IInv'
<1> USE CommandsAreNumbers DEF IInv
<1>0. UNCHANGED <<handleVars, pumpVars, callbackVars, rmfVars>>
  BY DEF CarryOut, FinishCommand
<1>1. TypeOK'
  <2>1. carriedOut' \subseteq Commands /\ executing' \in {None} \cup Commands
    BY DEF TypeOK, CarryOut, FinishCommand
  <2>2. QED
    BY <1>0, <2>1 DEF TypeOK, handleVars, pumpVars, callbackVars, rmfVars
<1>2. Registration' /\ CallPhases' /\ ActivitiesAccepted'
  BY <1>0 DEF Registration, CallPhases, ActivitiesAccepted, Accepted,
              handleVars, pumpVars, callbackVars, rmfVars
<1>3. ASSUME NEW n \in Commands, CarryOut(n)
      PROVE  ServerLedger'
  <2>1. status' = status /\ status[n] \in {"pending", "failed"} /\ executing' \in {None, n}
    BY <1>0, <1>3 DEF CarryOut, ServerLedger, callbackVars
  <2>2. \A later \in carriedOut \cup {n} : n < later => status[n] = "failed"
    BY <2>1 DEF TypeOK, CallPhases, ServerLedger
  <2>3. QED
    BY <1>3, <2>1, <2>2 DEF CarryOut, ServerLedger, TypeOK
<1>4. ASSUME FinishCommand PROVE ServerLedger'
  BY <1>0, <1>4 DEF FinishCommand, ServerLedger, callbackVars
<1>5. QED
  BY <1>1, <1>2, <1>3, <1>4

LEMMA IInvInvariant == Spec => []IInv
<1>1. Init => IInv
  <2> SUFFICES ASSUME Init PROVE IInv
    OBVIOUS
  <2>1. TypeOK
    <3>1. <<>> \in Seq(Poses) /\ Len(<<>>) = 0
      BY EmptySeq
    <3>2. frames \in Seq(Poses) /\ Len(frames) <= MaxFrames
      BY <3>1, FleetAssumption DEF Init
    <3>3. /\ kind \in [Commands -> {"none", "navigate", "action", "stop"}]
          /\ status \in [Commands -> {"new", "pending", "ok", "failed"}]
      BY DEF Init
    <3>4. added \in 0..1
      BY DEF Init
    <3>5. QED
      BY <3>2, <3>3, <3>4 DEF Init, TypeOK
  <2>2. Registration /\ ServerLedger /\ ActivitiesAccepted
    BY CommandsAreNumbers DEF Init, Registration, ServerLedger, ActivitiesAccepted, Accepted
  <2>3. CallPhases
    BY FleetAssumption DEF Init, CallPhases, Commands, None
  <2>4. QED
    BY <2>1, <2>2, <2>3 DEF IInv
<1>2. IInv /\ [Next]_vars => IInv'
  <2> SUFFICES ASSUME IInv, [Next]_vars PROVE IInv'
    OBVIOUS
  <2>0. frames' \in Seq(Poses) /\ Len(frames') <= MaxFrames
    BY FramesTyped DEF IInv
  <2>1. CASE OnState \/ Update \/ UpdateRaises \/ AddRobot \/ AddRobotRefused \/ Bind
    BY <2>0, <2>1, PumpStepKeepsIInv
  <2>2. CASE \/ \E k \in {"navigate", "action", "stop"} : Callback(k)
             \/ PostAccepted \/ PostFails \/ SetActivity
    BY <2>2, CallbackStepKeepsIInv
  <2>3. CASE (\E n \in Commands : CarryOut(n)) \/ FinishCommand
    BY <2>3, ServerStepKeepsIInv
  <2>4. CASE (\E p \in Poses : SendFrame(p)) \/ UNCHANGED vars
    <3>1. UNCHANGED <<handleVars, pumpStep, held, pose, callbackVars, serverVars, rmfVars>>
      BY <2>4 DEF SendFrame, vars, pumpVars
    <3>2. TypeOK'
      BY <2>0, <3>1 DEF IInv, TypeOK, handleVars, callbackVars, serverVars, rmfVars
    <3>3. Registration' /\ CallPhases' /\ ServerLedger' /\ ActivitiesAccepted'
      BY <3>1 DEF IInv, Registration, CallPhases, ServerLedger, ActivitiesAccepted, Accepted,
                  handleVars, callbackVars, serverVars, rmfVars
    <3>4. QED
      BY <3>2, <3>3 DEF IInv
  <2>5. QED
    BY <2>1, <2>2, <2>3, <2>4 DEF Next
<1>3. QED
  BY <1>1, <1>2, PTL DEF Spec

-----------------------------------------------------------------------------
(* Types are kept; in particular add_robot succeeds at most once per robot,  *)
(* although the handle is bound only after Open-RMF knows it.                *)
THEOREM FleetTypeOK == Spec => []TypeOK
  BY IInvInvariant, PTL DEF IInv

(* What Open-RMF is told is the activity of a command the server accepted,   *)
(* whatever the callback thread does while on_state is outside the lock.     *)
THEOREM OnlyAcceptedIsTold == Spec => []ToldWasAccepted
<1>1. IInv => ToldWasAccepted
  BY DEF IInv, ActivitiesAccepted, Accepted, ToldWasAccepted
<1>2. QED
  BY <1>1, IInvInvariant, PTL

(* A robot falls back to an older command only if that one was reported as   *)
(* failed, for any number of commands in any order of late copies.           *)
THEOREM LaggardsHaveFailed == Spec => []OnlyFailedCommandsLag
<1>1. IInv => OnlyFailedCommandsLag
  BY DEF IInv, ServerLedger, OnlyFailedCommandsLag
<1>2. QED
  BY <1>1, IInvInvariant, PTL
-----------------------------------------------------------------------------
(* The POSTs refine RemoteCall                                              *)

(* What a step does to the commands: one is begun, returns, or is carried   *)
(* out, as RemoteCall allows, or nothing changes.                           *)
LEMMA StepOfACall ==
  ASSUME IInv, [Next]_vars
  PROVE  [Remote!CallNext]_Remote!callVars
<1> USE CommandsAreNumbers
<1> DEFINE Outcome(n) == IF status[n] = "failed" THEN "error" ELSE status[n]
           calls == [n \in Commands |-> Outcome(n)]
           effects == [n \in Commands |-> n \in carriedOut]
<1>1. ASSUME NEW k \in {"navigate", "action", "stop"}, Callback(k)
      PROVE  Remote!CallNext
  <2>1. command + 1 \in Commands /\ status[command + 1] = "new"
    BY <1>1, FleetAssumption DEF IInv, TypeOK, CallPhases, Callback, Commands, None
  <2>2. calls' = [calls EXCEPT ![command + 1] = "pending"]
    BY <1>1, <2>1 DEF IInv, TypeOK, Callback
  <2>3. effects' = effects
    BY <1>1 DEF Callback, serverVars
  <2> QED BY <2>1, <2>2, <2>3 DEF Remote!CallNext, Remote!Begin
<1>2. ASSUME PostAccepted
      PROVE  Remote!CallNext
  <2>1. command \in Commands /\ status[command] = "pending" /\ command \in carriedOut
    BY <1>2 DEF IInv, TypeOK, CallPhases, PostAccepted
  <2>2. calls' = [calls EXCEPT ![command] = "ok"]
    BY <1>2, <2>1 DEF IInv, TypeOK, PostAccepted
  <2>3. effects' = effects
    BY <1>2 DEF PostAccepted, serverVars
  <2> QED BY <2>1, <2>2, <2>3 DEF Remote!CallNext, Remote!ReturnOk
<1>3. ASSUME PostFails
      PROVE  Remote!CallNext
  <2>1. command \in Commands /\ status[command] = "pending"
    BY <1>3 DEF IInv, TypeOK, CallPhases, PostFails
  <2>2. calls' = [calls EXCEPT ![command] = "error"]
    BY <1>3, <2>1 DEF IInv, TypeOK, PostFails
  <2>3. effects' = effects
    BY <1>3 DEF PostFails, serverVars
  <2> QED BY <2>1, <2>2, <2>3 DEF Remote!CallNext, Remote!ReturnError
<1>4. ASSUME NEW n \in Commands, CarryOut(n)
      PROVE  Remote!CallNext
  <2>1. status[n] \in {"pending", "failed"} /\ n \notin carriedOut
    BY <1>4 DEF IInv, ServerLedger, CarryOut
  <2>2. effects' = [effects EXCEPT ![n] = TRUE]
    <3>1. \A m \in Commands : (m \in carriedOut') = (IF m = n THEN TRUE ELSE m \in carriedOut)
      <4> SUFFICES ASSUME NEW m \in Commands
                   PROVE  (m \in carriedOut') = (IF m = n THEN TRUE ELSE m \in carriedOut)
        OBVIOUS
      <4>1. carriedOut' = carriedOut \cup {n}
        BY <1>4 DEF CarryOut
      <4>2. CASE m = n
        BY <4>1, <4>2, Zenon
      <4>3. CASE m # n
        <5>1. (m \in carriedOut') = (m \in carriedOut)
          BY <4>1, <4>3
        <5> QED BY <5>1, <4>3, Zenon
      <4> QED BY <4>2, <4>3
    <3>2. effects' = [m \in Commands |-> IF m = n THEN TRUE ELSE m \in carriedOut]
      BY <3>1, Zenon
    <3> QED BY <3>2, Zenon
  <2>3. calls' = calls
    BY <1>4 DEF CarryOut, callbackVars
  <2> QED BY <2>1, <2>2, <2>3 DEF Remote!CallNext, Remote!TakeEffect
<1>5. ASSUME UNCHANGED <<status, carriedOut>>
      PROVE  UNCHANGED Remote!callVars
  BY <1>5 DEF Remote!callVars
<1>6. CASE \/ OnState \/ Update \/ UpdateRaises \/ AddRobot \/ AddRobotRefused \/ Bind
           \/ SetActivity \/ FinishCommand \/ UNCHANGED vars
           \/ \E p \in Poses : SendFrame(p)
  <2>1. UNCHANGED <<status, carriedOut>>
    BY <1>6 DEF OnState, Update, UpdateRaises, AddRobot, AddRobotRefused, Bind, SetActivity,
                FinishCommand, SendFrame, vars, callbackVars, serverVars
  <2> QED BY <1>5, <2>1
<1> QED BY <1>1, <1>2, <1>3, <1>4, <1>6 DEF Next

(* The robot's commands are remote calls, for any number of them: an effect  *)
(* at most once, no "accepted" without it, and after a failure it may still  *)
(* come (callbacks.py:149-173 over http.py).                                 *)
THEOREM CommandsRefineRemoteCall == Spec => CommandsAreRemoteCalls
<1>1. Init => Remote!CallInit
  <2> SUFFICES ASSUME Init PROVE Remote!CallInit
    OBVIOUS
  <2>1. [n \in Commands |-> IF status[n] = "failed" THEN "error" ELSE status[n]]
          = [n \in Commands |-> "new"]
    BY DEF Init
  <2>2. [n \in Commands |-> n \in carriedOut] = [n \in Commands |-> FALSE]
    <3>1. \A n \in Commands : (n \in carriedOut) = FALSE
      BY DEF Init
    <3> QED BY <3>1, Zenon
  <2> QED BY <2>1, <2>2 DEF Remote!CallInit
<1>2. IInv /\ [Next]_vars => [Remote!CallNext]_Remote!callVars
  BY StepOfACall
<1> QED BY <1>1, <1>2, IInvInvariant, PTL DEF Spec, CommandsAreRemoteCalls, Remote!CallSpec

-----------------------------------------------------------------------------
(* Reports never go back                                                    *)

(* What Open-RMF was told, what on_state holds, what the handle stores and   *)
(* what the callback thread works on are in this order.                      *)
ReportsLag ==
  /\ told <= activity /\ activity <= command
  /\ pumpStep = "update" => told <= held /\ held <= activity

LEMMA ReportsLagInvariant == Spec => []ReportsLag
<1>1. Init => ReportsLag
  BY DEF Init, ReportsLag, None
<1>2. IInv /\ ReportsLag /\ [Next]_vars => ReportsLag'
  <2> SUFFICES ASSUME IInv, ReportsLag, [Next]_vars PROVE ReportsLag'
    OBVIOUS
  <2>0. {told, held, activity, command} \subseteq Nat
    BY CommandsAreNumbers DEF IInv, TypeOK, None
  <2>1. CASE OnState
    BY <2>0, <2>1 DEF OnState, ReportsLag, handleVars, callbackVars, rmfVars
  <2>2. CASE Update
    BY <2>0, <2>2 DEF Update, ReportsLag, PumpReturns, handleVars, callbackVars
  <2>3. CASE UpdateRaises \/ AddRobot \/ AddRobotRefused \/ Bind
    BY <2>3 DEF UpdateRaises, AddRobot, AddRobotRefused, Bind, ReportsLag, PumpReturns,
                handleVars, callbackVars, rmfVars
  <2>4. CASE \E k \in {"navigate", "action", "stop"} : Callback(k)
    BY <2>0, <2>4 DEF Callback, ReportsLag, handleVars, pumpVars, rmfVars
  <2>5. CASE SetActivity
    BY <2>0, <2>5 DEF SetActivity, ReportsLag, pumpVars, rmfVars
  <2>6. CASE PostAccepted \/ PostFails \/ (\E n \in Commands : CarryOut(n)) \/ FinishCommand
             \/ (\E p \in Poses : SendFrame(p)) \/ UNCHANGED vars
    BY <2>6 DEF PostAccepted, PostFails, CarryOut, FinishCommand, SendFrame, vars, ReportsLag,
                handleVars, pumpVars, callbackVars, rmfVars
  <2> QED BY <2>1, <2>2, <2>3, <2>4, <2>5, <2>6 DEF Next
<1> QED BY <1>1, <1>2, IInvInvariant, PTL DEF Spec

(* Open-RMF is never told of an earlier command after a later one, nor of    *)
(* none after one, however long on_state takes between the lock and update   *)
(* (robot_handle.py:165-176).                                                *)
THEOREM ReportsNeverGoBack == Spec => [][told' >= told]_vars
<1>1. IInv /\ ReportsLag /\ [Next]_vars => [told' >= told]_vars
  <2> SUFFICES ASSUME IInv, ReportsLag, Next PROVE told' >= told
    OBVIOUS
  <2>1. told \in Nat /\ held \in Nat
    BY CommandsAreNumbers DEF IInv, TypeOK, None
  <2>2. CASE Update
    BY <2>1, <2>2 DEF Update, ReportsLag
  <2>3. CASE ~Update
    BY <2>1, <2>3 DEF Next, OnState, UpdateRaises, AddRobot, AddRobotRefused, Bind, Callback,
      PostAccepted, PostFails, SetActivity, CarryOut, FinishCommand, SendFrame, rmfVars
  <2> QED BY <2>2, <2>3
<1> QED BY <1>1, IInvInvariant, ReportsLagInvariant, PTL DEF Spec
=============================================================================
