------------------------- MODULE DoorAdapterProofs -------------------------
(* Proofs about DoorAdapter, for any doors, requests, frames and kills. *)
EXTENDS DoorAdapter, TLAPS

Posted(n) == life[n] # 0

(* Requests wait in the order of their numbers, behind all that were posted. *)
QueueInOrder ==
  /\ \A i \in 1..Len(queue) :
       /\ queue[i] <= issued
       /\ outcome[queue[i]] = "waiting"
       /\ \A m \in Requests : Posted(m) => m < queue[i]
  /\ \A i, j \in 1..Len(queue) : i < j => queue[i] < queue[j]

(* What the outcome of a request says about its POST. *)
Bookkeeping ==
  /\ \A n \in Requests : n > issued => outcome[n] = "new"
  /\ \A n \in Requests : Posted(n) <=> outcome[n] \in {"pending", "ok", "error"}
  /\ \A n \in Requests : Posted(n) => target[n] \in Doors /\ life[n] <= process
  /\ \A n \in Requests : outcome[n] = "pending" => n = current
  /\ current # None =>
       /\ life[current] = process
       /\ \A m \in Requests : Posted(m) => m <= current

(* Requests are posted in the order of their numbers, by one process after   *)
(* the other, and a process ends with its first error.                       *)
LivesInOrder ==
  /\ \A m, n \in Requests : Posted(m) /\ Posted(n) /\ m < n => life[m] <= life[n]
  /\ \A m, n \in Requests : outcome[m] = "error" /\ life[n] = life[m] => n <= m
  /\ \A m \in Requests : outcome[m] = "error" /\ life[m] = process => ~running

(* What the server has carried out; and no request it has carried out is     *)
(* followed by an older one of the same process.                             *)
GoalsInOrder ==
  /\ \A n \in Requests : outcome[n] = "ok" => n \in executed
  /\ \A n \in executed : Posted(n)
  /\ \A n \in executed : goal[target[n]] # None /\ goal[target[n]] < n
       => life[goal[target[n]]] < life[n]

(* Beyond the kills, every process was ended by a request of its own. *)
ProcessesCounted ==
  \E m \in 0..MaxRequests :
    /\ (IF running THEN process ELSE process + 1) <= MaxKills + 1 + m
    /\ m # 0 => Posted(m)
    /\ \A n \in Requests : running /\ life[n] = process => n > m

IInv ==
  TypeOK /\ QueueInOrder /\ Bookkeeping /\ LivesInOrder /\ GoalsInOrder /\ ProcessesCounted

-----------------------------------------------------------------------------
(* Type correctness                                                         *)

LEMMA InitInvariant == Init => IInv
<1> SUFFICES ASSUME Init PROVE IInv
  OBVIOUS
<1>1. TypeOK
  BY DoorAssumption DEF Init, TypeOK, LastProcess, Requests, Modes, CLOSED, None, Unknown
<1>2. QueueInOrder
  BY DEF Init, QueueInOrder
<1>3. Bookkeeping /\ LivesInOrder /\ GoalsInOrder
  BY DoorAssumption DEF Init, Bookkeeping, LivesInOrder, GoalsInOrder, Posted, Requests, None
<1>4. ProcessesCounted
  <2>1. 0 \in 0..MaxRequests
    BY DoorAssumption
  <2>2. 1 <= MaxKills + 1 + 0
    BY DoorAssumption
  <2> QED BY <2>1, <2>2 DEF Init, ProcessesCounted, Requests
<1> QED BY <1>1, <1>2, <1>3, <1>4 DEF IInv

(* The head and the tail of the subscription queue. *)
LEMMA HeadOfQueue ==
  ASSUME TypeOK, QueueInOrder, queue # <<>>
  PROVE  /\ Head(queue) \in Requests /\ Head(queue) = queue[1]
         /\ Tail(queue) \in Seq(Requests) /\ Len(Tail(queue)) = Len(queue) - 1
         /\ Len(queue) \in Nat \ {0}
         /\ \A i \in 1..Len(Tail(queue)) : Tail(queue)[i] = queue[i + 1]
BY DEF TypeOK

LEMMA RestOfQueue ==
  ASSUME TypeOK, QueueInOrder, queue # <<>>
  PROVE  /\ \A i \in 1..Len(Tail(queue)) :
               /\ Tail(queue)[i] \in Requests /\ outcome[Tail(queue)[i]] = "waiting"
               /\ Head(queue) < Tail(queue)[i] /\ Tail(queue)[i] <= issued
               /\ \A m \in Requests : Posted(m) => m < Tail(queue)[i]
         /\ \A i, j \in 1..Len(Tail(queue)) : i < j => Tail(queue)[i] < Tail(queue)[j]
<1> DEFINE rest == Tail(queue)
<1>1. \A i \in 1..Len(rest) : rest[i] = queue[i + 1] /\ i + 1 \in 1..Len(queue) /\ 1 < i + 1
  BY HeadOfQueue
<1>2. 1 \in 1..Len(queue) /\ Head(queue) = queue[1]
  BY HeadOfQueue
<1>3. \A i \in 1..Len(queue) : queue[i] \in Requests
  BY DEF TypeOK
<1>4. \A i, j \in 1..Len(rest) : i < j => i + 1 < j + 1
  BY HeadOfQueue
<1> HIDE DEF rest
<1>5. \A i \in 1..Len(rest) : queue[1] < queue[i + 1]
  BY <1>1, <1>2 DEF QueueInOrder
<1>6. \A i, j \in 1..Len(rest) : i < j => rest[i] < rest[j]
  BY <1>1, <1>4 DEF QueueInOrder
<1>7. \A i \in 1..Len(rest) :
        /\ rest[i] \in Requests /\ outcome[rest[i]] = "waiting"
        /\ Head(queue) < rest[i] /\ rest[i] <= issued
        /\ \A m \in Requests : Posted(m) => m < rest[i]
  BY <1>1, <1>2, <1>3, <1>5 DEF QueueInOrder
<1> QED BY <1>6, <1>7 DEF rest

LEMMA PublishKeepsTypes ==
  ASSUME IInv, NEW d \in Doors \cup {Foreign}, NEW m \in Modes, PublishRequest(d, m)
  PROVE  TypeOK'
<1> USE DoorAssumption DEF processVars, serverVars, stateFlow
<1>1. issued + 1 \in Requests /\ issued' \in 0..MaxRequests
  BY DEF PublishRequest, IInv, TypeOK, Requests
<1>2. target' \in [Requests -> Doors \cup {Foreign}] /\ requested' \in [Requests -> Modes]
  BY <1>1 DEF PublishRequest, IInv, TypeOK
<1>3. queue' \in Seq(Requests) /\ Len(queue') <= QueueDepth
  <2>1. CASE ~running
    BY <2>1 DEF PublishRequest, IInv, TypeOK
  <2>2. CASE running /\ Len(queue) < QueueDepth
    <3>1. queue' = Append(queue, issued + 1) /\ queue \in Seq(Requests)
      BY <2>2 DEF PublishRequest, IInv, TypeOK
    <3>2. queue' \in Seq(Requests) /\ Len(queue') = Len(queue) + 1
      BY <1>1, <3>1
    <3> QED BY <2>2, <3>1, <3>2
  <2>3. CASE running /\ ~(Len(queue) < QueueDepth)
    <3>1. queue # <<>>
      BY <2>3 DEF IInv, TypeOK
    <3>2. queue' = Append(Tail(queue), issued + 1)
      BY <2>3 DEF PublishRequest
    <3>3. Len(queue') = Len(queue) /\ queue' \in Seq(Requests)
      BY <1>1, <3>1, <3>2, HeadOfQueue DEF IInv
    <3> QED BY <3>3 DEF IInv, TypeOK
  <2> QED BY <2>1, <2>2, <2>3 DEF IInv, TypeOK
<1>4. outcome' \in [Requests -> {"new", "waiting", "dropped", "pending", "ok", "error"}]
  BY DEF PublishRequest, IInv, TypeOK
<1>5. current' # None => running' /\ outcome'[current'] = "pending"
  <2> SUFFICES ASSUME current # None PROVE running /\ outcome'[current] = "pending"
    BY DEF PublishRequest
  <2>1. running /\ outcome[current] = "pending" /\ current \in Requests
    BY DEF IInv, TypeOK
  <2>2. current # issued + 1
    <3>1. issued \in Nat
      BY DEF IInv, TypeOK
    <3>2. issued + 1 > issued
      BY <3>1
    <3>3. outcome[issued + 1] = "new"
      BY <1>1, <3>2 DEF IInv, Bookkeeping
    <3> QED BY <2>1, <3>3
  <2>3. Len(queue) >= QueueDepth => queue # <<>> /\ outcome[Head(queue)] = "waiting"
    <3> SUFFICES ASSUME Len(queue) >= QueueDepth
                 PROVE  queue # <<>> /\ outcome[Head(queue)] = "waiting"
      OBVIOUS
    <3>1. queue # <<>>
      BY DEF IInv, TypeOK
    <3> QED BY <3>1, HeadOfQueue DEF IInv, QueueInOrder
  <2> QED BY <2>1, <2>2, <2>3 DEF PublishRequest, IInv, TypeOK
<1> QED BY <1>1, <1>2, <1>3, <1>4, <1>5 DEF PublishRequest, IInv, TypeOK

LEMMA ThreadKeepsTypes ==
  ASSUME IInv, DropRequest \/ DispatchRequest \/ PostAccepted
  PROVE  TypeOK'
<1> USE DEF requestVars, processVars, serverVars, stateFlow
<1>1. CASE DropRequest
  <2>1. queue # <<>>
    BY <1>1 DEF DropRequest, Waiting
  <2>2. queue' \in Seq(Requests) /\ Len(queue') <= QueueDepth
    BY <1>1, <2>1, HeadOfQueue, DoorAssumption DEF DropRequest, IInv, TypeOK
  <2>3. outcome' \in [Requests -> {"new", "waiting", "dropped", "pending", "ok", "error"}]
    BY <1>1 DEF DropRequest, IInv, TypeOK
  <2>4. current' = None
    BY <1>1 DEF DropRequest, Waiting
  <2> QED BY <1>1, <2>2, <2>3, <2>4 DEF DropRequest, IInv, TypeOK
<1>2. CASE DispatchRequest
  <2>1. queue # <<>> /\ running
    BY <1>2 DEF DispatchRequest, Waiting
  <2>2. queue' \in Seq(Requests) /\ Len(queue') <= QueueDepth /\ current' \in Requests
    BY <1>2, <2>1, HeadOfQueue, DoorAssumption DEF DispatchRequest, IInv, TypeOK
  <2>3. outcome' \in [Requests -> {"new", "waiting", "dropped", "pending", "ok", "error"}]
        /\ outcome'[current'] = "pending"
    BY <1>2, <2>2 DEF DispatchRequest, IInv, TypeOK
  <2>4. life' \in [Requests -> 0..LastProcess]
    <3>1. process \in 0..LastProcess
      BY DoorAssumption DEF IInv, TypeOK, LastProcess
    <3> QED BY <1>2, <3>1 DEF DispatchRequest, IInv, TypeOK
  <2> QED BY <1>2, <2>1, <2>2, <2>3, <2>4 DEF DispatchRequest, IInv, TypeOK
<1>3. CASE PostAccepted
  BY <1>3 DEF PostAccepted, IInv, TypeOK, None
<1> QED BY <1>1, <1>2, <1>3

LEMMA DieKeepsTypes ==
  ASSUME IInv, Die
  PROVE  TypeOK'
<1> USE DEF serverVars
<1>1. queue' \in Seq(Requests) /\ Len(queue') <= QueueDepth
  BY DoorAssumption DEF Die
<1>2. frames' \in [Doors -> Seq(Modes)] /\ \A d \in Doors : Len(frames'[d]) <= MaxFrames
  <2>1. \A d \in Doors : frames'[d] = <<>>
    BY DEF Die
  <2>2. <<>> \in Seq(Modes) /\ Len(<<>>) <= MaxFrames
    BY DoorAssumption
  <2>3. frames' \in [Doors -> Seq(Modes)]
    BY <2>2 DEF Die
  <2> QED BY <2>1, <2>2, <2>3, Zenon
<1>3. outcome' \in [Requests -> {"new", "waiting", "dropped", "pending", "ok", "error"}]
      /\ pump' \in [Doors -> {"up", "dead"}]
  BY DEF Die, IInv, TypeOK
<1> QED BY <1>1, <1>2, <1>3 DEF Die, IInv, TypeOK

(* The process that ends leaves room for another one. *)
LEMMA RestartKeepsTypes ==
  ASSUME IInv, Restart
  PROVE  TypeOK'
<1>1. process + 1 \in 1..LastProcess
  BY DoorAssumption DEF Restart, IInv, TypeOK, ProcessesCounted, LastProcess
<1> QED BY <1>1 DEF Restart, IInv, TypeOK, requestVars, callVars, serverVars, stateFlow

LEMMA ServerKeepsTypes ==
  ASSUME IInv, \/ \E n \in Requests : CarryOut(n)
               \/ \E d \in Doors : MoveDoor(d)
  PROVE  TypeOK'
<1> USE DEF requestVars, callVars, processVars, stateFlow
<1>1. ASSUME NEW n \in Requests, CarryOut(n)
      PROVE  TypeOK'
  BY <1>1 DEF CarryOut, IInv, TypeOK
<1>2. ASSUME NEW d \in Doors, MoveDoor(d)
      PROVE  TypeOK'
  <2>1. goal[d] \in Requests
    BY <1>2 DEF MoveDoor, IInv, TypeOK
  <2>2. mode' \in [Doors -> Modes]
    BY <1>2, <2>1 DEF MoveDoor, IInv, TypeOK, Modes
  <2> QED BY <1>2, <2>2 DEF MoveDoor, IInv, TypeOK
<1> QED BY <1>1, <1>2

LEMMA FramesKeepTypes ==
  ASSUME IInv, NEW d \in Doors,
         HandleFrame(d) \/ DropFrame(d) \/ PumpDies(d) \/ SendFrame(d)
  PROVE  TypeOK'
<1> USE DEF requestVars, callVars, processVars, serverVars
<1>1. frames[d] \in Seq(Modes) /\ Len(frames[d]) <= MaxFrames
  BY DEF IInv, TypeOK
<1>2. ASSUME NEW rest \in Seq(Modes), Len(rest) <= MaxFrames,
             frames' = [frames EXCEPT ![d] = rest],
             pump' \in [Doors -> {"up", "dead"}],
             published' \in [Doors -> Modes \cup {Unknown}],
             UNCHANGED <<requestVars, callVars, processVars, serverVars>>
      PROVE  TypeOK'
  <2>1. frames' \in [Doors -> Seq(Modes)] /\ \A e \in Doors : Len(frames'[e]) <= MaxFrames
    BY <1>2 DEF IInv, TypeOK
  <2> QED BY <1>2, <2>1 DEF IInv, TypeOK
<1>3. CASE HandleFrame(d)
  <2>1. /\ Tail(frames[d]) \in Seq(Modes) /\ Len(Tail(frames[d])) <= MaxFrames
        /\ Head(frames[d]) \in Modes
    BY <1>1, <1>3, DoorAssumption DEF HandleFrame
  <2> QED BY <1>2, <1>3, <2>1 DEF HandleFrame, IInv, TypeOK
<1>4. CASE DropFrame(d)
  <2>1. Tail(frames[d]) \in Seq(Modes) /\ Len(Tail(frames[d])) <= MaxFrames
    BY <1>1, <1>4, DoorAssumption DEF DropFrame
  <2> QED BY <1>2, <1>4, <2>1 DEF DropFrame, IInv, TypeOK
<1>5. CASE PumpDies(d)
  <2>1. <<>> \in Seq(Modes) /\ Len(<<>>) <= MaxFrames
    BY DoorAssumption
  <2> QED BY <1>2, <1>5, <2>1 DEF PumpDies, IInv, TypeOK
<1>6. CASE SendFrame(d)
  <2>1. /\ Append(frames[d], mode[d]) \in Seq(Modes)
        /\ Len(Append(frames[d], mode[d])) <= MaxFrames
    BY <1>1, <1>6, DoorAssumption DEF SendFrame, IInv, TypeOK
  <2> QED BY <1>2, <1>6, <2>1 DEF SendFrame, IInv, TypeOK
<1> QED BY <1>3, <1>4, <1>5, <1>6

-----------------------------------------------------------------------------
(* Steps that leave what was posted alone                                   *)

PostOutcomes == {"pending", "ok", "error"}

LEMMA PostsUntouched ==
  ASSUME IInv, TypeOK',
         \A n \in Requests : outcome[n] \in PostOutcomes \/ outcome'[n] \in PostOutcomes
            => outcome'[n] = outcome[n],
         \A n \in Requests : n > issued' => outcome'[n] = "new",
         \A n \in Requests : Posted(n) => target'[n] = target[n],
         UNCHANGED <<current, life, process, running, executed, goal>>
  PROVE  Bookkeeping' /\ LivesInOrder' /\ GoalsInOrder' /\ ProcessesCounted'
<1>1. Bookkeeping'
  BY DEF IInv, Bookkeeping, Posted, PostOutcomes
<1>2. LivesInOrder'
  BY DEF IInv, LivesInOrder, Posted, PostOutcomes
<1>3. GoalsInOrder'
  <2>1. executed \subseteq Requests
    BY DEF IInv, TypeOK
  <2> QED BY <2>1 DEF IInv, GoalsInOrder, Posted, PostOutcomes
<1>4. ProcessesCounted'
  BY DEF IInv, ProcessesCounted, Posted
<1> QED BY <1>1, <1>2, <1>3, <1>4

LEMMA QuietSteps ==
  ASSUME IInv, TypeOK',
         UNCHANGED <<requestVars, callVars, processVars, executed, goal>>
  PROVE  IInv'
<1> USE DEF requestVars, callVars, processVars
<1>1. QueueInOrder'
  BY DEF IInv, QueueInOrder, Posted
<1>2. Bookkeeping' /\ LivesInOrder' /\ GoalsInOrder' /\ ProcessesCounted'
  BY PostsUntouched DEF IInv, Bookkeeping
<1> QED BY <1>1, <1>2 DEF IInv

LEMMA PublishKeepsInvariant ==
  ASSUME IInv, NEW d \in Doors \cup {Foreign}, NEW m \in Modes, PublishRequest(d, m)
  PROVE  IInv'
<1> USE DoorAssumption DEF processVars, serverVars, stateFlow
<1>1. TypeOK'
  BY PublishKeepsTypes
<1>2. issued \in Nat /\ issued + 1 \in Requests /\ issued' = issued + 1
  BY DEF PublishRequest, IInv, TypeOK, Requests
<1>3. outcome[issued + 1] = "new" /\ ~Posted(issued + 1)
  <2>1. issued + 1 > issued
    BY <1>2
  <2>2. outcome[issued + 1] = "new"
    BY <1>2, <2>1 DEF IInv, Bookkeeping
  <2> QED BY <1>2, <2>2 DEF IInv, Bookkeeping
<1>4. Len(queue) >= QueueDepth =>
        queue # <<>> /\ Head(queue) \in Requests /\ outcome[Head(queue)] = "waiting"
  <2> SUFFICES ASSUME Len(queue) >= QueueDepth
               PROVE  queue # <<>> /\ Head(queue) \in Requests /\ outcome[Head(queue)] = "waiting"
    OBVIOUS
  <2>1. queue # <<>>
    BY DEF IInv, TypeOK
  <2> QED BY <2>1, HeadOfQueue DEF IInv, QueueInOrder
<1>5. \A n \in Requests : outcome[n] \in PostOutcomes \/ outcome'[n] \in PostOutcomes
         => outcome'[n] = outcome[n]
  BY <1>2, <1>3, <1>4 DEF PublishRequest, IInv, TypeOK, PostOutcomes
<1>6. \A n \in Requests : n > issued' => outcome'[n] = "new"
  <2> SUFFICES ASSUME NEW n \in Requests, n > issued' PROVE outcome'[n] = "new"
    OBVIOUS
  <2>1. n # issued + 1 /\ outcome[n] = "new"
    BY <1>2 DEF IInv, Bookkeeping, Requests
  <2> QED BY <1>2, <1>4, <2>1 DEF PublishRequest, IInv, TypeOK
<1>7. \A n \in Requests : Posted(n) => target'[n] = target[n]
  BY <1>2, <1>3 DEF PublishRequest, IInv, TypeOK
<1>8. Bookkeeping' /\ LivesInOrder' /\ GoalsInOrder' /\ ProcessesCounted'
  BY <1>1, <1>5, <1>6, <1>7, PostsUntouched DEF PublishRequest
<1>9. QueueInOrder'
  <2>1. \A n \in Requests : Posted(n) => n < issued + 1
    BY <1>2 DEF IInv, Bookkeeping, Requests
  <2>2. \A i \in 1..Len(queue) : queue[i] \in Requests /\ queue[i] < issued + 1
    <3>1. \A i \in 1..Len(queue) : queue[i] \in Requests
      BY DEF IInv, TypeOK
    <3>2. \A i \in 1..Len(queue) : queue[i] <= issued
      BY DEF IInv, QueueInOrder
    <3>3. \A n \in Requests : n <= issued => n < issued + 1
      BY <1>2 DEF Requests
    <3> QED BY <3>1, <3>2, <3>3
  <2>3. CASE ~running
    <3>1. queue' = queue
      BY <2>3 DEF PublishRequest
    <3>2. \A i \in 1..Len(queue) : outcome'[queue[i]] = "waiting"
      BY <1>2, <2>2, <2>3 DEF PublishRequest, IInv, TypeOK, QueueInOrder
    <3>3. life' = life
      BY DEF PublishRequest
    <3> QED BY <1>2, <2>2, <3>1, <3>2, <3>3 DEF IInv, QueueInOrder, Posted, Requests
  <2>4. CASE running /\ Len(queue) < QueueDepth
    <3>1. queue' = Append(queue, issued + 1) /\ outcome' = [outcome EXCEPT ![issued + 1] = "waiting"]
      BY <2>4 DEF PublishRequest
    <3>2. /\ Len(queue') = Len(queue) + 1 /\ Len(queue) \in Nat
          /\ \A i \in 1..Len(queue) : queue'[i] = queue[i]
          /\ queue'[Len(queue) + 1] = issued + 1
      BY <1>2, <3>1 DEF IInv, TypeOK
    <3>3. \A i \in 1..Len(queue) : outcome'[queue[i]] = "waiting"
      BY <1>2, <2>2, <3>1 DEF IInv, TypeOK, QueueInOrder
    <3>4. outcome'[issued + 1] = "waiting" /\ life' = life
      BY <1>2, <3>1 DEF PublishRequest, IInv, TypeOK
    <3>5. \A i \in 1..Len(queue') : i \in 1..Len(queue) \/ i = Len(queue) + 1
      BY <3>2
    <3> QED BY <1>2, <2>1, <2>2, <3>2, <3>3, <3>4, <3>5 DEF IInv, QueueInOrder, Posted, Requests
  <2>5. CASE running /\ Len(queue) >= QueueDepth
    <3>1. /\ queue' = Append(Tail(queue), issued + 1)
          /\ outcome' = [outcome EXCEPT ![issued + 1] = "waiting", ![Head(queue)] = "dropped"]
      BY <2>5 DEF PublishRequest, IInv, TypeOK
    <3>2. /\ Len(queue') = Len(queue) /\ Len(queue) \in Nat \ {0}
          /\ \A i \in 1..(Len(queue) - 1) : queue'[i] = queue[i + 1]
          /\ queue'[Len(queue)] = issued + 1
          /\ Head(queue) = queue[1]
      BY <1>2, <1>4, <2>5, <3>1, HeadOfQueue DEF IInv, TypeOK
    <3>3. \A i \in 1..(Len(queue) - 1) : i + 1 \in 1..Len(queue) /\ queue[1] < queue[i + 1]
      BY <3>2 DEF IInv, QueueInOrder
    <3>4. \A i \in 1..(Len(queue) - 1) : outcome'[queue[i + 1]] = "waiting"
      <4> SUFFICES ASSUME NEW i \in 1..(Len(queue) - 1) PROVE outcome'[queue[i + 1]] = "waiting"
        OBVIOUS
      <4>1. /\ queue[i + 1] \in Requests /\ queue[i + 1] # Head(queue) /\ queue[i + 1] # issued + 1
            /\ outcome[queue[i + 1]] = "waiting"
        BY <1>2, <2>2, <3>2, <3>3 DEF IInv, QueueInOrder, Requests
      <4> QED BY <4>1, <3>1 DEF IInv, TypeOK
    <3>5. Head(queue) # issued + 1
      BY <1>3, <1>4, <2>5
    <3>6. outcome'[issued + 1] = "waiting" /\ life' = life
      BY <1>2, <3>1, <3>5 DEF PublishRequest, IInv, TypeOK
    <3>7. \A i \in 1..Len(queue') : i \in 1..(Len(queue) - 1) \/ i = Len(queue)
      BY <3>2
    <3>8. \A i \in 1..Len(queue') :
            /\ queue'[i] <= issued' /\ outcome'[queue'[i]] = "waiting"
            /\ \A n \in Requests : Posted(n)' => n < queue'[i]
      <4> SUFFICES ASSUME NEW i \in 1..Len(queue')
                   PROVE  /\ queue'[i] <= issued' /\ outcome'[queue'[i]] = "waiting"
                          /\ \A n \in Requests : Posted(n)' => n < queue'[i]
        OBVIOUS
      <4>1. CASE i \in 1..(Len(queue) - 1)
        <5>1. /\ queue'[i] = queue[i + 1] /\ i + 1 \in 1..Len(queue)
              /\ outcome'[queue[i + 1]] = "waiting"
          BY <4>1, <3>2, <3>3, <3>4
        <5>2. queue[i + 1] \in Int /\ queue[i + 1] < issued + 1
          BY <5>1, <2>2 DEF Requests
        <5>3. \A n \in Requests : Posted(n) => n < queue[i + 1]
          BY <5>1 DEF IInv, QueueInOrder
        <5> QED BY <1>2, <3>6, <5>1, <5>2, <5>3 DEF Posted
      <4>2. CASE i = Len(queue)
        BY <1>2, <2>1, <3>2, <3>6, <4>2 DEF Posted
      <4> QED BY <3>7, <4>1, <4>2
    <3>9. \A i, j \in 1..Len(queue') : i < j => queue'[i] < queue'[j]
      BY <1>2, <2>2, <3>2, <3>3, <3>7 DEF IInv, QueueInOrder, Requests
    <3> QED BY <3>8, <3>9 DEF QueueInOrder
  <2> QED BY <2>3, <2>4, <2>5 DEF IInv, TypeOK
<1> QED BY <1>1, <1>8, <1>9 DEF IInv

LEMMA DropKeepsInvariant ==
  ASSUME IInv, DropRequest
  PROVE  IInv'
<1> USE DEF processVars, serverVars, stateFlow
<1>1. TypeOK'
  BY ThreadKeepsTypes
<1> DEFINE n == Head(queue)
<1>2. /\ n \in Requests /\ n = queue[1] /\ Len(queue) \in Nat \ {0} /\ outcome[n] = "waiting"
      /\ Len(queue') = Len(queue) - 1
      /\ \A i \in 1..Len(queue') : queue'[i] = queue[i + 1] /\ i + 1 \in 1..Len(queue)
  BY HeadOfQueue DEF DropRequest, Waiting, IInv, QueueInOrder
<1>3. outcome' = [outcome EXCEPT ![n] = "dropped"]
  BY DEF DropRequest
<1>4. Bookkeeping' /\ LivesInOrder' /\ GoalsInOrder' /\ ProcessesCounted'
  <2>1. \A k \in Requests : outcome[k] \in PostOutcomes \/ outcome'[k] \in PostOutcomes
           => outcome'[k] = outcome[k]
    BY <1>2, <1>3 DEF IInv, TypeOK, PostOutcomes
  <2>2. n <= issued
    BY <1>2 DEF IInv, QueueInOrder
  <2>3. \A k \in Requests : k > issued => outcome'[k] = "new"
    BY <1>2, <1>3, <2>2 DEF IInv, TypeOK, Bookkeeping, Requests
  <2> QED BY <1>1, <2>1, <2>3, PostsUntouched DEF DropRequest
<1>5. QueueInOrder'
  <2>1. queue # <<>> /\ queue' = Tail(queue)
    BY DEF DropRequest, Waiting
  <2>2. \A i \in 1..Len(queue') : queue'[i] \in Requests /\ outcome[queue'[i]] = "waiting" /\ n < queue'[i]
    BY <2>1, RestOfQueue DEF IInv
  <2>3. \A i \in 1..Len(queue') : outcome'[queue'[i]] = "waiting"
    BY <1>2, <1>3, <2>2 DEF IInv, TypeOK, Requests
  <2> QED BY <2>1, <2>3, RestOfQueue DEF DropRequest, IInv, QueueInOrder, Posted
<1> QED BY <1>1, <1>4, <1>5 DEF IInv

-----------------------------------------------------------------------------
(* Steps that post, answer or carry out                                     *)

LEMMA DispatchKeepsInvariant ==
  ASSUME IInv, DispatchRequest
  PROVE  IInv'
<1> USE DEF processVars, serverVars, stateFlow
<1>1. TypeOK'
  BY ThreadKeepsTypes
<1> DEFINE n == Head(queue)
<1>2. /\ n \in Requests /\ n = queue[1] /\ Len(queue) \in Nat \ {0} /\ outcome[n] = "waiting"
      /\ Len(queue') = Len(queue) - 1
      /\ \A i \in 1..Len(queue') : queue'[i] = queue[i + 1] /\ i + 1 \in 1..Len(queue)
      /\ n <= issued /\ ~Posted(n) /\ \A m \in Requests : Posted(m) => m < n
  BY HeadOfQueue DEF DispatchRequest, Waiting, IInv, QueueInOrder, Bookkeeping
<1>3. /\ outcome' = [outcome EXCEPT ![n] = "pending"]
      /\ life' = [life EXCEPT ![n] = process]
      /\ current = None /\ current' = n /\ running /\ target[n] \in Doors
  BY DEF DispatchRequest, Waiting
<1>4. /\ outcome'[n] = "pending" /\ life'[n] = process /\ process # 0 /\ process \in Nat
      /\ \A m \in Requests \ {n} : outcome'[m] = outcome[m] /\ life'[m] = life[m]
      /\ \A m \in Requests : Posted(m)' <=> m = n \/ Posted(m)
  BY <1>2, <1>3, DoorAssumption DEF IInv, TypeOK, Posted
<1> HIDE DEF n
<1>5. QueueInOrder'
  <2>1. queue # <<>> /\ queue' = Tail(queue) /\ issued' = issued
    BY DEF DispatchRequest, Waiting
  <2>2. \A i \in 1..Len(queue') :
          /\ queue'[i] \in Requests /\ outcome[queue'[i]] = "waiting" /\ n < queue'[i]
          /\ \A m \in Requests : Posted(m) => m < queue'[i]
    BY <2>1, RestOfQueue DEF IInv, n
  <2>3. \A i \in 1..Len(queue') : outcome'[queue'[i]] = "waiting"
    BY <1>2, <1>4, <2>2 DEF Requests
  <2>4. \A i \in 1..Len(queue') : \A m \in Requests : Posted(m)' => m < queue'[i]
    BY <1>4, <2>2
  <2> QED BY <2>1, <2>3, <2>4, RestOfQueue DEF IInv, QueueInOrder
<1>6. Bookkeeping'
  <2>1. \A m \in Requests : m > issued => m # n
    BY <1>2 DEF IInv, TypeOK, Requests
  <2>2. \A m \in Requests : outcome[m] # "pending"
    BY <1>3, DoorAssumption DEF IInv, Bookkeeping, None, Requests
  <2>3. \A m \in Requests : Posted(m)' => m <= current'
    BY <1>2, <1>3, <1>4 DEF Requests
  <2>4. \A m \in Requests : Posted(m)' => target'[m] \in Doors /\ life'[m] <= process'
    BY <1>3, <1>4 DEF DispatchRequest, IInv, Bookkeeping
  <2>5. \A m \in Requests : Posted(m)' <=> outcome'[m] \in {"pending", "ok", "error"}
    BY <1>4 DEF IInv, Bookkeeping
  <2> QED BY <1>3, <1>4, <2>1, <2>2, <2>3, <2>4, <2>5 DEF DispatchRequest, IInv, Bookkeeping
<1>7. LivesInOrder'
  <2>1. \A m \in Requests : Posted(m) => life[m] <= process /\ m < n
    BY <1>2 DEF IInv, Bookkeeping
  <2>2. \A m \in Requests : outcome'[m] = "error" => m # n /\ outcome[m] = "error" /\ life[m] # process
    BY <1>3, <1>4 DEF IInv, LivesInOrder
  <2>3. \A l, m \in Requests : Posted(l)' /\ Posted(m)' /\ l < m => life'[l] <= life'[m]
    BY <1>2, <1>4, <2>1 DEF IInv, LivesInOrder, Requests
  <2>4. \A l, m \in Requests : outcome'[l] = "error" /\ life'[m] = life'[l] => m <= l
    BY <1>4, <2>2 DEF IInv, LivesInOrder
  <2> QED BY <1>4, <2>2, <2>3, <2>4 DEF DispatchRequest, LivesInOrder
<1>8. GoalsInOrder'
  <2>1. executed \subseteq Requests /\ n \notin executed
    BY <1>2 DEF IInv, TypeOK, GoalsInOrder
  <2>2. \A m \in executed : target[m] \in Doors /\ goal[target[m]] # None
           => goal[target[m]] \in Requests
    BY DEF IInv, TypeOK
  <2>3. \A m \in executed : target[m] \in Doors
    BY <2>1 DEF IInv, Bookkeeping, GoalsInOrder
  <2>4. \A m \in executed : goal[target[m]] # None /\ goal[target[m]] < m => goal[target[m]] # n
    BY <1>2, <2>1 DEF IInv, GoalsInOrder, Requests
  <2> QED BY <1>4, <2>1, <2>2, <2>3, <2>4 DEF DispatchRequest, IInv, GoalsInOrder
<1>9. ProcessesCounted'
  <2>1. PICK m \in 0..MaxRequests :
          /\ process <= MaxKills + 1 + m
          /\ m # 0 => Posted(m)
          /\ \A k \in Requests : life[k] = process => k > m
    BY <1>3 DEF IInv, ProcessesCounted
  <2>2. m # 0 => m \in Requests
    BY DEF Requests
  <2>3. n > m
    BY <1>2, <2>1, <2>2 DEF Requests
  <2>4. m # 0 => Posted(m)'
    BY <1>4, <2>1, <2>2
  <2>5. \A k \in Requests : life'[k] = process => k > m
    BY <1>4, <2>1, <2>3
  <2> QED BY <1>3, <2>1, <2>4, <2>5 DEF DispatchRequest, ProcessesCounted
<1> QED BY <1>1, <1>5, <1>6, <1>7, <1>8, <1>9 DEF IInv

LEMMA AcceptKeepsInvariant ==
  ASSUME IInv, PostAccepted
  PROVE  IInv'
<1> USE DEF requestVars, processVars, serverVars, stateFlow
<1>1. TypeOK'
  BY ThreadKeepsTypes
<1>2. current \in Requests /\ current # None /\ current \in executed /\ outcome[current] = "pending"
  BY DoorAssumption DEF PostAccepted, IInv, TypeOK, Requests, None
<1>3. /\ outcome'[current] = "ok" /\ \A n \in Requests \ {current} : outcome'[n] = outcome[n]
      /\ current' = None
  BY <1>2 DEF PostAccepted, IInv, TypeOK
<1>4. QueueInOrder'
  <2>1. \A i \in 1..Len(queue) : queue[i] \in Requests /\ queue[i] # current
    BY <1>2 DEF IInv, TypeOK, QueueInOrder
  <2> QED BY <1>3, <2>1 DEF PostAccepted, IInv, QueueInOrder, Posted
<1>5. Bookkeeping'
  <2>1. \A n \in Requests : n > issued => n # current
    BY <1>2 DEF IInv, Bookkeeping
  <2> QED BY <1>2, <1>3, <2>1 DEF PostAccepted, IInv, Bookkeeping, Posted
<1>6. LivesInOrder'
  BY <1>3 DEF PostAccepted, IInv, LivesInOrder, Posted
<1>7. GoalsInOrder'
  BY <1>2, <1>3 DEF PostAccepted, IInv, GoalsInOrder, Posted
<1>8. ProcessesCounted'
  BY DEF PostAccepted, IInv, ProcessesCounted, Posted
<1> QED BY <1>1, <1>4, <1>5, <1>6, <1>7, <1>8 DEF IInv

LEMMA DieKeepsInvariant ==
  ASSUME IInv, PostRaises \/ Kill
  PROVE  IInv'
<1> USE DEF serverVars
<1>0. Die
  BY DEF PostRaises, Kill
<1>1. TypeOK'
  BY <1>0, DieKeepsTypes
<1>2. /\ running' = FALSE /\ queue' = <<>> /\ current' = None
      /\ \A n \in Requests : outcome'[n] =
            IF n = current THEN "error" ELSE IF outcome[n] = "waiting" THEN "dropped" ELSE outcome[n]
      /\ UNCHANGED <<issued, target, life, process, executed, goal>>
  BY <1>0 DEF Die
<1>3. current \in Requests => current # None /\ outcome[current] = "pending"
  BY DoorAssumption DEF IInv, TypeOK, Requests, None
<1>4. QueueInOrder'
  BY <1>2 DEF QueueInOrder
<1>5. \A n \in Requests : Posted(n)' <=> Posted(n)
  BY <1>2 DEF Posted
<1>6. Bookkeeping'
  <2>1. \A n \in Requests : n > issued => outcome'[n] = "new"
    BY <1>2, <1>3 DEF IInv, Bookkeeping
  <2>2. \A n \in Requests : Posted(n)' <=> outcome'[n] \in {"pending", "ok", "error"}
    BY <1>2, <1>3, <1>5 DEF IInv, Bookkeeping
  <2>3. \A n \in Requests : Posted(n)' => target'[n] \in Doors /\ life'[n] <= process'
    BY <1>2, <1>5 DEF IInv, Bookkeeping
  <2>4. \A n \in Requests : outcome'[n] # "pending"
    BY <1>2 DEF IInv, Bookkeeping
  <2> QED BY <1>2, <2>1, <2>2, <2>3, <2>4 DEF Bookkeeping
<1>7. LivesInOrder'
  <2>1. \A n \in Requests : outcome'[n] = "error" => n = current \/ outcome[n] = "error"
    BY <1>2
  <2>2. \A n \in Requests : current \in Requests /\ life[n] = life[current] => n <= current
    BY <1>3 DEF IInv, Bookkeeping, Posted
  <2> QED BY <1>2, <1>5, <2>1, <2>2 DEF IInv, LivesInOrder
<1>8. GoalsInOrder'
  BY <1>2, <1>5 DEF IInv, GoalsInOrder, TypeOK
<1>9. ProcessesCounted'
  <2>1. CASE Kill
    <3>1. 0 \in 0..MaxRequests /\ process + 1 <= MaxKills + 1 + 0
      BY <2>1, DoorAssumption DEF Kill, IInv, TypeOK
    <3> QED BY <1>2, <3>1 DEF ProcessesCounted
  <2>2. CASE PostRaises
    <3>1. current \in Requests /\ current # None /\ running /\ life[current] = process /\ Posted(current)
      BY <2>2, <1>3 DEF PostRaises, IInv, TypeOK, Bookkeeping
    <3>2. PICK m \in 0..MaxRequests :
            process <= MaxKills + 1 + m /\ \A n \in Requests : life[n] = process => n > m
      BY <3>1 DEF IInv, ProcessesCounted
    <3>3. current \in 0..MaxRequests /\ process + 1 <= MaxKills + 1 + current
      BY <3>1, <3>2, DoorAssumption DEF Requests, IInv, TypeOK
    <3> QED BY <1>2, <1>5, <3>1, <3>3 DEF ProcessesCounted
  <2> QED BY <2>1, <2>2
<1> QED BY <1>1, <1>4, <1>6, <1>7, <1>8, <1>9 DEF IInv

LEMMA RestartKeepsInvariant ==
  ASSUME IInv, Restart
  PROVE  IInv'
<1> USE DEF requestVars, callVars, serverVars
<1>1. TypeOK'
  BY RestartKeepsTypes
<1>2. process \in Nat /\ process' = process + 1 /\ running' /\ ~running /\ current = None
  BY DEF Restart, IInv, TypeOK
<1>3. \A n \in Requests : life[n] \in Nat /\ life[n] <= process /\ life[n] # process + 1
  BY <1>2 DEF IInv, TypeOK, Bookkeeping, Posted
<1>4. QueueInOrder'
  BY DEF Restart, IInv, QueueInOrder, Posted
<1>5. Bookkeeping'
  BY <1>2, <1>3 DEF Restart, IInv, Bookkeeping, Posted
<1>6. LivesInOrder'
  BY <1>2, <1>3 DEF Restart, IInv, LivesInOrder, Posted
<1>7. GoalsInOrder'
  BY DEF Restart, IInv, GoalsInOrder, Posted
<1>8. ProcessesCounted'
  BY <1>2, <1>3 DEF Restart, IInv, ProcessesCounted, Posted
<1> QED BY <1>1, <1>4, <1>5, <1>6, <1>7, <1>8 DEF IInv

(* A late copy finds nothing newer of its own process: that process ended    *)
(* with it.                                                                  *)
LEMMA CarryOutKeepsInvariant ==
  ASSUME IInv, NEW n \in Requests, CarryOut(n)
  PROVE  IInv'
<1> USE DEF requestVars, callVars, processVars, stateFlow
<1>1. TypeOK'
  BY ServerKeepsTypes
<1>2. QueueInOrder' /\ Bookkeeping' /\ LivesInOrder' /\ ProcessesCounted'
  BY DEF CarryOut, IInv, QueueInOrder, Bookkeeping, LivesInOrder, ProcessesCounted, Posted
<1>3. Posted(n) /\ target[n] \in Doors
  BY DEF CarryOut, IInv, Bookkeeping
<1>4. \A m \in executed : n < m => life[n] < life[m]
  <2> SUFFICES ASSUME NEW m \in executed, n < m PROVE life[n] < life[m]
    OBVIOUS
  <2>1. m \in Requests /\ Posted(m)
    BY DEF IInv, TypeOK, GoalsInOrder
  <2>2. outcome[n] = "error"
    BY <2>1 DEF CarryOut, IInv, Bookkeeping, Requests, None
  <2>3. life[m] # life[n]
    BY <2>1, <2>2 DEF IInv, LivesInOrder, Requests
  <2>4. life[n] <= life[m]
    BY <1>3, <2>1 DEF IInv, LivesInOrder
  <2> QED BY <2>1, <2>3, <2>4 DEF IInv, TypeOK
<1>5. GoalsInOrder'
  <2>1. executed \subseteq Requests /\ executed' = executed \cup {n}
    BY DEF CarryOut, IInv, TypeOK
  <2>2. \A m \in executed' : Posted(m)' /\ target[m] \in Doors
    BY <1>3, <2>1 DEF CarryOut, IInv, GoalsInOrder, Bookkeeping, Posted
  <2>3. \A m \in executed' :
          goal'[target[m]] = IF target[m] = target[n] THEN n ELSE goal[target[m]]
    BY <2>2 DEF CarryOut, IInv, TypeOK
  <2>4. \A m \in executed' : goal'[target[m]] # None /\ goal'[target[m]] < m
          => life[goal'[target[m]]] < life[m]
    <3> SUFFICES ASSUME NEW m \in executed', goal'[target[m]] # None, goal'[target[m]] < m
                 PROVE  life[goal'[target[m]]] < life[m]
      OBVIOUS
    <3>1. m # n => m \in executed
      BY <2>1
    <3>2. CASE target[m] = target[n]
      BY <1>4, <2>3, <3>1, <3>2 DEF Requests
    <3>3. CASE target[m] # target[n]
      BY <2>3, <3>1, <3>3 DEF IInv, GoalsInOrder
    <3> QED BY <3>2, <3>3
  <2> QED BY <2>1, <2>2, <2>4 DEF CarryOut, IInv, GoalsInOrder
<1> QED BY <1>1, <1>2, <1>5 DEF IInv

-----------------------------------------------------------------------------
(* Every reachable state is as the invariant says. *)
THEOREM DoorInvariance == Spec => []IInv
<1>1. IInv /\ [Next]_vars => IInv'
  <2> SUFFICES ASSUME IInv, [Next]_vars PROVE IInv'
    OBVIOUS
  <2>1. CASE \E d \in Doors : HandleFrame(d) \/ DropFrame(d) \/ PumpDies(d) \/ SendFrame(d)
    <3>1. TypeOK'
      BY <2>1, FramesKeepTypes
    <3>2. UNCHANGED <<requestVars, callVars, processVars, executed, goal>>
      BY <2>1 DEF HandleFrame, DropFrame, PumpDies, SendFrame, serverVars
    <3> QED BY <3>1, <3>2, QuietSteps
  <2>2. CASE \E d \in Doors : MoveDoor(d)
    <3>1. TypeOK'
      BY <2>2, ServerKeepsTypes
    <3>2. UNCHANGED <<requestVars, callVars, processVars, executed, goal>>
      BY <2>2 DEF MoveDoor
    <3> QED BY <3>1, <3>2, QuietSteps
  <2>3. CASE UNCHANGED vars
    <3>1. TypeOK'
      BY <2>3 DEF vars, requestVars, callVars, processVars, serverVars, stateFlow, IInv, TypeOK
    <3>2. UNCHANGED <<requestVars, callVars, processVars, executed, goal>>
      BY <2>3 DEF vars, serverVars
    <3> QED BY <3>1, <3>2, QuietSteps
  <2> QED BY <2>1, <2>2, <2>3, PublishKeepsInvariant, DropKeepsInvariant, DispatchKeepsInvariant,
             AcceptKeepsInvariant, DieKeepsInvariant, RestartKeepsInvariant, CarryOutKeepsInvariant
          DEF Next
<1> QED BY <1>1, InitInvariant, PTL DEF Spec

(* The variables keep to their types; in particular the processes are no     *)
(* more than the kills and the requests account for.                         *)
THEOREM DoorTypeOK == Spec => []TypeOK
<1>1. IInv => TypeOK
  BY DEF IInv
<1> QED BY <1>1, DoorInvariance, PTL

(* A late copy of a request overtakes a later request only across a restart, *)
(* because a process ends with the first POST that raises                    *)
(* (door_handle.py:216, adapter.py:277).                                     *)
THEOREM LagOnlyAcrossRestarts == Spec => []GoalsLagOnlyAcrossRestarts
<1>1. IInv => GoalsLagOnlyAcrossRestarts
  BY DEF IInv, GoalsInOrder, GoalsLagOnlyAcrossRestarts
<1> QED BY <1>1, DoorInvariance, PTL

-----------------------------------------------------------------------------
(* The refinement: a request nobody has posted is a new call.               *)

Status ==
  [n \in Requests |-> IF outcome[n] \in {"waiting", "dropped"} THEN "new" ELSE outcome[n]]

Effect == [n \in Requests |-> n \in executed]

LEMMA QuietCalls ==
  ASSUME IInv, TypeOK', executed' = executed,
         \A n \in Requests : outcome'[n] = outcome[n]
            \/ {outcome[n], outcome'[n]} \subseteq {"new", "waiting", "dropped"}
  PROVE  UNCHANGED Remote!callVars
<1>1. Status' = Status
  BY DEF Status
<1>2. Effect' = Effect
  BY DEF Effect
<1> QED BY <1>1, <1>2 DEF Status, Effect, Remote!callVars

LEMMA CallsBeginAndEnd ==
  ASSUME IInv, TypeOK', DispatchRequest \/ PostAccepted \/ PostRaises \/ Kill
  PROVE  [Remote!CallNext]_(Remote!callVars)
<1> USE DEF serverVars
<1>1. CASE DispatchRequest
  <2>1. PICK n \in Requests : n = Head(queue)
    BY <1>1, HeadOfQueue DEF DispatchRequest, Waiting, IInv
  <2>2. outcome[n] = "waiting" /\ outcome' = [outcome EXCEPT ![n] = "pending"] /\ executed' = executed
    BY <1>1, <2>1, HeadOfQueue DEF DispatchRequest, Waiting, IInv, QueueInOrder
  <2>3. Status[n] = "new" /\ Status' = [Status EXCEPT ![n] = "pending"] /\ Effect' = Effect
    BY <2>2 DEF Status, Effect, IInv, TypeOK
  <2>4. Remote!Begin(n)
    BY <2>3 DEF Remote!Begin, Status, Effect
  <2> QED BY <2>4 DEF Remote!CallNext
<1>2. CASE PostAccepted
  <2>1. PICK n \in Requests : n = current
    BY <1>2 DEF PostAccepted, IInv, TypeOK
  <2>2. /\ outcome[n] = "pending" /\ n \in executed
        /\ outcome' = [outcome EXCEPT ![n] = "ok"] /\ executed' = executed
    BY <1>2, <2>1, DoorAssumption DEF PostAccepted, IInv, TypeOK, None, Requests
  <2>3. Status[n] = "pending" /\ Status' = [Status EXCEPT ![n] = "ok"] /\ Effect[n] /\ Effect' = Effect
    BY <2>2 DEF Status, Effect, IInv, TypeOK
  <2>4. Remote!ReturnOk(n)
    BY <2>3 DEF Remote!ReturnOk, Status, Effect
  <2> QED BY <2>4 DEF Remote!CallNext
<1>3. CASE PostRaises \/ Kill
  <2>1. Die
    BY <1>3 DEF PostRaises, Kill
  <2>2. /\ executed' = executed
        /\ \A n \in Requests : outcome'[n] =
             IF n = current THEN "error" ELSE IF outcome[n] = "waiting" THEN "dropped" ELSE outcome[n]
    BY <2>1 DEF Die
  <2>3. CASE current \in Requests
    <3>1. PICK n \in Requests : n = current
      BY <2>3
    <3>2. outcome[n] = "pending" /\ Status[n] = "pending"
      BY <3>1, DoorAssumption DEF IInv, TypeOK, None, Requests, Status
    <3>3. Status' = [Status EXCEPT ![n] = "error"] /\ Effect' = Effect
      BY <2>2, <3>1 DEF Status, Effect
    <3>4. Remote!ReturnError(n)
      BY <3>2, <3>3 DEF Remote!ReturnError, Status, Effect
    <3> QED BY <3>4 DEF Remote!CallNext
  <2>4. CASE current \notin Requests
    <3>1. \A n \in Requests : outcome'[n] = outcome[n] \/ (outcome[n] = "waiting" /\ outcome'[n] = "dropped")
      BY <2>2, <2>4
    <3> QED BY <2>2, <3>1, QuietCalls
  <2> QED BY <2>3, <2>4
<1> QED BY <1>1, <1>2, <1>3

LEMMA StepRefines ==
  ASSUME IInv, TypeOK', [Next]_vars
  PROVE  [Remote!CallNext]_(Remote!callVars)
<1>1. ASSUME NEW d \in Doors \cup {Foreign}, NEW m \in Modes, PublishRequest(d, m)
      PROVE  [Remote!CallNext]_(Remote!callVars)
  <2>1. issued + 1 \in Requests /\ outcome[issued + 1] = "new" /\ executed' = executed
    BY <1>1, DoorAssumption DEF PublishRequest, serverVars, IInv, TypeOK, Bookkeeping, Requests
  <2>2. CASE ~running \/ Len(queue) < QueueDepth
    <3>1. \A n \in Requests : outcome'[n] = outcome[n]
            \/ (n = issued + 1 /\ outcome'[n] \in {"waiting", "dropped"})
      BY <1>1, <2>2 DEF PublishRequest, IInv, TypeOK
    <3> QED BY <2>1, <3>1, QuietCalls
  <2>3. CASE running /\ ~(Len(queue) < QueueDepth)
    <3>1. queue # <<>>
      BY <2>3, DoorAssumption DEF IInv, TypeOK
    <3>2. Head(queue) \in Requests /\ outcome[Head(queue)] = "waiting"
      BY <3>1, HeadOfQueue DEF IInv, QueueInOrder
    <3>3. outcome' = [outcome EXCEPT ![issued + 1] = "waiting", ![Head(queue)] = "dropped"]
      BY <1>1, <2>3 DEF PublishRequest
    <3>4. \A n \in Requests : outcome'[n] = outcome[n]
            \/ (n \in {issued + 1, Head(queue)} /\ outcome'[n] \in {"waiting", "dropped"})
      BY <3>2, <3>3 DEF IInv, TypeOK
    <3> QED BY <2>1, <3>2, <3>4, QuietCalls
  <2> QED BY <2>2, <2>3
<1>2. CASE DropRequest
  <2>1. Head(queue) \in Requests /\ outcome[Head(queue)] = "waiting"
    BY <1>2, HeadOfQueue DEF DropRequest, Waiting, IInv, QueueInOrder
  <2>2. \A n \in Requests : outcome'[n] = outcome[n] \/ (n = Head(queue) /\ outcome'[n] = "dropped")
    BY <1>2 DEF DropRequest, IInv, TypeOK
  <2>3. executed' = executed
    BY <1>2 DEF DropRequest, serverVars
  <2> QED BY <2>1, <2>2, <2>3, QuietCalls
<1>3. ASSUME NEW n \in Requests, CarryOut(n)
      PROVE  [Remote!CallNext]_(Remote!callVars)
  <2>1. /\ outcome[n] \in {"pending", "error"} /\ n \notin executed
        /\ executed' = executed \cup {n} /\ outcome' = outcome
    BY <1>3 DEF CarryOut, callVars
  <2>2. Status[n] \in {"pending", "error"} /\ Status' = Status
    BY <2>1 DEF Status
  <2>3. ~Effect[n] /\ Effect' = [Effect EXCEPT ![n] = TRUE]
    <3>1. n \in executed' /\ \A k \in Requests \ {n} : (k \in executed') <=> (k \in executed)
      BY <2>1
    <3>2. \A k \in Requests : (k \in executed') = [Effect EXCEPT ![n] = TRUE][k]
      <4> SUFFICES ASSUME NEW k \in Requests
                   PROVE  (k \in executed') = [Effect EXCEPT ![n] = TRUE][k]
        OBVIOUS
      <4>1. CASE k = n
        BY <3>1, <4>1, Zenon DEF Effect
      <4>2. CASE k # n
        <5>1. (k \in executed') = (k \in executed)
          BY <2>1, <4>2
        <5>2. [Effect EXCEPT ![n] = TRUE][k] = (k \in executed)
          BY <4>2, Zenon DEF Effect
        <5> QED BY <5>1, <5>2, Zenon
      <4> QED BY <4>1, <4>2
    <3> QED BY <2>1, <3>2, Zenon DEF Effect
  <2>4. Remote!TakeEffect(n)
    BY <2>2, <2>3 DEF Remote!TakeEffect, Status, Effect
  <2> QED BY <2>4 DEF Remote!CallNext
<1>4. CASE \/ Restart
           \/ \E d \in Doors : HandleFrame(d) \/ DropFrame(d) \/ PumpDies(d) \/ SendFrame(d) \/ MoveDoor(d)
           \/ UNCHANGED vars
  <2>1. outcome' = outcome /\ executed' = executed
    BY <1>4 DEF Restart, HandleFrame, DropFrame, PumpDies, SendFrame, MoveDoor, vars, callVars, serverVars
  <2> QED BY <2>1, QuietCalls
<1> QED BY <1>1, <1>2, <1>3, <1>4, CallsBeginAndEnd DEF Next

(* Every dispatch is a RemoteCall, also across the deaths of the process:    *)
(* what the adapter takes for done the server has carried out, and nothing   *)
(* is asked for twice (door_handle.py:216-230).                              *)
THEOREM DispatchesRefineRemoteCall == Spec => DispatchesAreRemoteCalls
<1>1. Init => Remote!CallInit
  <2> SUFFICES ASSUME Init PROVE Remote!CallInit
    OBVIOUS
  <2>1. \A n \in Requests : outcome[n] = "new" /\ n \notin executed
    BY DEF Init
  <2>2. Status = [n \in Requests |-> "new"]
    BY <2>1 DEF Status
  <2>3. Effect = [n \in Requests |-> FALSE]
    <3>1. \A n \in Requests : (n \in executed) = FALSE
      BY <2>1
    <3> QED BY <3>1, Zenon DEF Effect
  <2> QED BY <2>2, <2>3 DEF Remote!CallInit, Status, Effect
<1>2. IInv /\ TypeOK' /\ [Next]_vars => [Remote!CallNext]_(Remote!callVars)
  BY StepRefines
<1> QED BY <1>1, <1>2, DoorInvariance, DoorTypeOK, PTL
        DEF Spec, DispatchesAreRemoteCalls, Remote!CallSpec

-----------------------------------------------------------------------------
(* Requests settle, a step of the thread at a time                          *)

Settled(n) == outcome[n] \in {"dropped", "ok", "error"}

(* The POST that is to return before the thread takes up the next request.  *)
Busy == IF current = None THEN 0 ELSE 1

(* Request n needs k more steps of the rclpy thread at most: two for each    *)
(* request up to its own, and one for the POST under way.                    *)
Within(n, k) ==
  \/ Settled(n)
  \/ n = current /\ k >= 1
  \/ \E i \in 1..Len(queue) : queue[i] = n /\ 2 * i + Busy <= k

(* Nothing is waiting but what the queue holds, and nothing is pending but   *)
(* the POST under way.                                                       *)
Accounted ==
  /\ \A n \in Requests : outcome[n] = "waiting" => running /\ \E i \in 1..Len(queue) : queue[i] = n
  /\ \A n \in Requests : outcome[n] = "pending" => n = current /\ current # None

LEMMA PublishKeepsWaiting ==
  ASSUME IInv, NEW d \in Doors \cup {Foreign}, NEW m \in Modes, PublishRequest(d, m)
  PROVE  /\ Accounted => Accounted'
         /\ \A n \in Requests, k \in Nat : Within(n, k) => Within(n, k)'
         /\ \A n \in Requests : Settled(n) => UNCHANGED outcome[n]
<1> USE DoorAssumption DEF processVars
<1> DEFINE new == issued + 1
<1>1. /\ new \in Requests /\ outcome[new] = "new" /\ UNCHANGED <<current, running>>
      /\ current # None => outcome[current] = "pending"
  BY DEF PublishRequest, IInv, TypeOK, Bookkeeping, Requests
<1>2. /\ queue \in Seq(Requests) /\ Len(queue) \in Nat
      /\ \A i \in 1..Len(queue) : queue[i] \in Requests /\ outcome[queue[i]] = "waiting"
  BY DEF IInv, TypeOK, QueueInOrder
<1>3. Busy' = Busy /\ Busy \in 0..1
  BY <1>1 DEF Busy
<1>4. outcome \in [Requests -> {"new", "waiting", "dropped", "pending", "ok", "error"}]
  BY DEF IInv, TypeOK
<1> HIDE DEF new
<1>5. CASE ~running
  <2>1. outcome' = [outcome EXCEPT ![new] = "dropped"] /\ queue' = queue
    BY <1>5 DEF PublishRequest, new
  <2>2. \A n \in Requests : Settled(n) => UNCHANGED outcome[n]
    BY <1>1, <1>4, <2>1 DEF Settled
  <2>3. Accounted => Accounted'
    BY <1>1, <1>4, <2>1 DEF Accounted
  <2>4. \A n \in Requests, k \in Nat : Within(n, k) => Within(n, k)'
    BY <1>1, <1>3, <2>1, <2>2 DEF Within, Settled
  <2> QED BY <2>2, <2>3, <2>4
<1>6. CASE running /\ Len(queue) < QueueDepth
  <2>1. outcome' = [outcome EXCEPT ![new] = "waiting"] /\ queue' = Append(queue, new)
    BY <1>6 DEF PublishRequest, new
  <2>2. /\ Len(queue') = Len(queue) + 1 /\ queue'[Len(queue) + 1] = new
        /\ \A i \in 1..Len(queue) : i \in 1..Len(queue') /\ queue'[i] = queue[i]
        /\ Len(queue) + 1 \in 1..Len(queue')
    BY <1>1, <1>2, <2>1
  <2>3. \A n \in Requests : Settled(n) => UNCHANGED outcome[n]
    BY <1>1, <1>4, <2>1 DEF Settled
  <2>4. Accounted => Accounted'
    <3> SUFFICES ASSUME Accounted PROVE Accounted'
      OBVIOUS
    <3>1. ASSUME NEW n \in Requests, outcome'[n] = "waiting"
          PROVE  running' /\ \E i \in 1..Len(queue') : queue'[i] = n
      <4>1. CASE n = new
        BY <1>1, <1>6, <2>2, <4>1
      <4>2. CASE n # new
        <5>1. outcome[n] = "waiting"
          BY <1>4, <2>1, <3>1, <4>2
        <5>2. PICK i \in 1..Len(queue) : queue[i] = n
          BY <5>1 DEF Accounted
        <5> QED BY <1>1, <1>6, <2>2, <5>2
      <4> QED BY <4>1, <4>2
    <3>2. \A n \in Requests : outcome'[n] = "pending" => n = current' /\ current' # None
      BY <1>1, <1>4, <2>1 DEF Accounted
    <3> QED BY <3>1, <3>2 DEF Accounted
  <2>5. ASSUME NEW n \in Requests, NEW k \in Nat, Within(n, k)
        PROVE  Within(n, k)'
    <3>1. CASE Settled(n) \/ (n = current /\ k >= 1)
      BY <1>1, <2>3, <3>1 DEF Within, Settled
    <3>2. ASSUME NEW i \in 1..Len(queue), queue[i] = n, 2 * i + Busy <= k
          PROVE  Within(n, k)'
      BY <1>3, <2>2, <3>2 DEF Within
    <3> QED BY <2>5, <3>1, <3>2 DEF Within
  <2> QED BY <2>3, <2>4, <2>5
<1>7. CASE running /\ ~(Len(queue) < QueueDepth)
  <2>1. /\ outcome' = [outcome EXCEPT ![new] = "waiting", ![Head(queue)] = "dropped"]
        /\ queue' = Append(Tail(queue), new)
    BY <1>7 DEF PublishRequest, new
  <2>2. queue # <<>>
    BY <1>7, <1>2
  <2>3. /\ Head(queue) \in Requests /\ Head(queue) = queue[1]
        /\ Tail(queue) \in Seq(Requests) /\ Len(Tail(queue)) = Len(queue) - 1
        /\ Len(queue) \in Nat \ {0}
        /\ \A i \in 1..Len(Tail(queue)) : Tail(queue)[i] = queue[i + 1]
    BY <2>2, HeadOfQueue DEF IInv
  <2>4. Len(queue') = Len(queue) /\ queue'[Len(queue)] = new
    BY <1>1, <2>1, <2>3
  <2>5. \A i \in 2..Len(queue) : i - 1 \in 1..Len(queue') /\ queue'[i - 1] = queue[i]
    BY <1>1, <2>1, <2>3
  <2>6. Head(queue) # new /\ outcome[Head(queue)] = "waiting"
    BY <1>1, <1>2, <2>3
  <2>7. \A n \in Requests : Settled(n) => UNCHANGED outcome[n]
    BY <1>1, <1>4, <2>1, <2>6 DEF Settled
  <2>8. Accounted => Accounted'
    <3> SUFFICES ASSUME Accounted PROVE Accounted'
      OBVIOUS
    <3>1. ASSUME NEW n \in Requests, outcome'[n] = "waiting"
          PROVE  running' /\ \E i \in 1..Len(queue') : queue'[i] = n
      <4>1. CASE n = new
        BY <1>1, <1>7, <2>3, <2>4, <4>1
      <4>2. CASE n # new
        <5>1. outcome[n] = "waiting" /\ n # Head(queue)
          BY <1>4, <2>1, <2>3, <3>1, <4>2
        <5>2. PICK i \in 1..Len(queue) : queue[i] = n
          BY <5>1 DEF Accounted
        <5>3. i \in 2..Len(queue)
          BY <2>3, <5>1, <5>2
        <5> QED BY <1>1, <1>7, <2>5, <5>2, <5>3
      <4> QED BY <4>1, <4>2
    <3>2. \A n \in Requests : outcome'[n] = "pending" => n = current' /\ current' # None
      BY <1>1, <1>4, <2>1 DEF Accounted
    <3> QED BY <3>1, <3>2 DEF Accounted
  <2>9. ASSUME NEW n \in Requests, NEW k \in Nat, Within(n, k)
        PROVE  Within(n, k)'
    <3>1. CASE Settled(n) \/ (n = current /\ k >= 1)
      BY <1>1, <2>7, <3>1 DEF Within, Settled
    <3>2. ASSUME NEW i \in 1..Len(queue), queue[i] = n, 2 * i + Busy <= k
          PROVE  Within(n, k)'
      <4>1. CASE i = 1
        <5>1. outcome'[n] = "dropped"
          BY <1>4, <2>1, <2>3, <3>2, <4>1
        <5> QED BY <5>1 DEF Within, Settled
      <4>2. CASE i # 1
        <5>1. i - 1 \in 1..Len(queue') /\ queue'[i - 1] = n
          BY <2>3, <2>5, <3>2, <4>2
        <5>2. 2 * (i - 1) + Busy' <= k
          BY <1>3, <3>2
        <5> QED BY <5>1, <5>2 DEF Within
      <4> QED BY <4>1, <4>2
    <3> QED BY <2>9, <3>1, <3>2 DEF Within
  <2> QED BY <2>7, <2>8, <2>9
<1> QED BY <1>5, <1>6, <1>7

(* Taking the head off the queue brings every other request nearer.         *)
LEMMA TakeBringsNearer ==
  ASSUME IInv, TypeOK', DropRequest \/ DispatchRequest
  PROVE  /\ Accounted => Accounted'
         /\ \A n \in Requests, k \in Nat : Within(n, k + 1) => Within(n, k)'
         /\ \A n \in Requests : Settled(n) => UNCHANGED outcome[n]
<1> USE DoorAssumption DEF processVars
<1>1. /\ queue # <<>> /\ queue' = Tail(queue) /\ current = None /\ running /\ running'
  BY DEF DropRequest, DispatchRequest, Waiting
<1>2. /\ Head(queue) \in Requests /\ Head(queue) = queue[1]
      /\ Tail(queue) \in Seq(Requests) /\ Len(Tail(queue)) = Len(queue) - 1
      /\ Len(queue) \in Nat \ {0}
      /\ \A i \in 1..Len(Tail(queue)) : Tail(queue)[i] = queue[i + 1]
  BY <1>1, HeadOfQueue DEF IInv
<1>3. outcome[Head(queue)] = "waiting" /\ None \notin Requests
  BY <1>2 DEF IInv, QueueInOrder, None, Requests
<1>4. \A i \in 2..Len(queue) : i - 1 \in 1..Len(queue') /\ queue'[i - 1] = queue[i]
  BY <1>1, <1>2
<1>5. outcome \in [Requests -> {"new", "waiting", "dropped", "pending", "ok", "error"}]
  BY DEF IInv, TypeOK
<1>6. \/ outcome' = [outcome EXCEPT ![Head(queue)] = "dropped"] /\ current' = None
      \/ outcome' = [outcome EXCEPT ![Head(queue)] = "pending"] /\ current' = Head(queue)
  BY <1>1 DEF DropRequest, DispatchRequest
<1>7. \A n \in Requests : Settled(n) => UNCHANGED outcome[n]
  BY <1>3, <1>5, <1>6 DEF Settled
<1>8. Accounted => Accounted'
  <2> SUFFICES ASSUME Accounted PROVE Accounted'
    OBVIOUS
  <2>1. ASSUME NEW n \in Requests, outcome'[n] = "waiting"
        PROVE  \E i \in 1..Len(queue') : queue'[i] = n
    <3>1. outcome[n] = "waiting" /\ n # Head(queue)
      BY <1>2, <1>5, <1>6, <2>1
    <3>2. PICK i \in 1..Len(queue) : queue[i] = n
      BY <3>1 DEF Accounted
    <3>3. i \in 2..Len(queue)
      BY <1>2, <3>1, <3>2
    <3> QED BY <1>4, <3>2, <3>3
  <2>2. \A n \in Requests : outcome'[n] = "pending" => n = current' /\ current' # None
    BY <1>1, <1>2, <1>3, <1>5, <1>6 DEF Accounted
  <2> QED BY <1>1, <2>1, <2>2 DEF Accounted
<1>9. ASSUME NEW n \in Requests, NEW k \in Nat, Within(n, k + 1)
      PROVE  Within(n, k)'
  <2>1. CASE Settled(n)
    BY <1>7, <2>1 DEF Within, Settled
  <2>2. CASE n = current
    BY <1>1, <1>3, <2>2
  <2>3. ASSUME NEW i \in 1..Len(queue), queue[i] = n, 2 * i + Busy <= k + 1
        PROVE  Within(n, k)'
    <3>1. Busy = 0 /\ Busy' \in 0..1
      BY <1>1 DEF Busy
    <3>2. CASE i = 1
      <4>1. n = Head(queue) /\ k >= 1
        BY <1>2, <2>3, <3>1, <3>2
      <4>2. outcome'[n] = "dropped" \/ n = current'
        BY <1>2, <1>5, <1>6, <4>1
      <4> QED BY <4>1, <4>2 DEF Within, Settled
    <3>3. CASE i # 1
      <4>1. i - 1 \in 1..Len(queue') /\ queue'[i - 1] = n
        BY <1>2, <1>4, <2>3, <3>3
      <4>2. \A b \in 0..1 : 2 * (i - 1) + b <= k
        BY <1>2, <2>3, <3>1
      <4>3. 2 * (i - 1) + Busy' <= k
        BY <3>1, <4>2, Zenon
      <4> QED BY <4>1, <4>3 DEF Within
    <3> QED BY <3>2, <3>3
  <2> QED BY <1>9, <2>1, <2>2, <2>3 DEF Within
<1> QED BY <1>7, <1>8, <1>9

(* When a POST returns its request is settled and the next may be taken up. *)
LEMMA ReturnBringsNearer ==
  ASSUME IInv, PostAccepted
  PROVE  /\ Accounted => Accounted'
         /\ \A n \in Requests, k \in Nat : Within(n, k + 1) => Within(n, k)'
         /\ \A n \in Requests : Settled(n) => UNCHANGED outcome[n]
<1> USE DEF processVars, requestVars
<1>1. /\ current \in Requests /\ current # None /\ outcome[current] = "pending"
      /\ outcome' = [outcome EXCEPT ![current] = "ok"] /\ current' = None
      /\ UNCHANGED <<queue, running>>
  BY DEF PostAccepted, IInv, TypeOK, None, Requests
<1>2. outcome \in [Requests -> {"new", "waiting", "dropped", "pending", "ok", "error"}]
  BY DEF IInv, TypeOK
<1>3. \A n \in Requests : Settled(n) => UNCHANGED outcome[n]
  BY <1>1, <1>2 DEF Settled
<1>4. Accounted => Accounted'
  BY <1>1, <1>2 DEF Accounted
<1>5. ASSUME NEW n \in Requests, NEW k \in Nat, Within(n, k + 1)
      PROVE  Within(n, k)'
  <2>1. CASE Settled(n) \/ n = current
    <3>1. outcome'[n] \in {"dropped", "ok", "error"}
      BY <1>1, <1>2, <1>3, <2>1 DEF Settled
    <3> QED BY <3>1 DEF Within, Settled
  <2>2. ASSUME NEW i \in 1..Len(queue), queue[i] = n, 2 * i + Busy <= k + 1
        PROVE  Within(n, k)'
    <3>1. Busy = 1 /\ Busy' = 0
      BY <1>1 DEF Busy
    <3>2. i \in 1..Len(queue') /\ queue'[i] = n /\ 2 * i + Busy' <= k
      BY <1>1, <2>2, <3>1
    <3> QED BY <3>2 DEF Within
  <2> QED BY <1>5, <2>1, <2>2 DEF Within
<1> QED BY <1>3, <1>4, <1>5

(* A process that ends settles what it was asked. *)
LEMMA DieSettles ==
  ASSUME IInv, Die
  PROVE  /\ Accounted => Accounted'
         /\ \A n \in Requests, k \in Nat : Within(n, k) => Settled(n)'
         /\ \A n \in Requests : Settled(n) => UNCHANGED outcome[n]
<1>1. \A n \in Requests : outcome'[n] = IF n = current THEN "error"
                                       ELSE IF outcome[n] = "waiting" THEN "dropped" ELSE outcome[n]
  BY DEF Die
<1>2. /\ current # None => outcome[current] = "pending"
      /\ \A i \in 1..Len(queue) : outcome[queue[i]] = "waiting"
      /\ \A n \in Requests : n # None
  BY DoorAssumption DEF IInv, TypeOK, QueueInOrder, None, Requests
<1>3. \A n \in Requests : Settled(n) => UNCHANGED outcome[n]
  BY <1>1, <1>2 DEF Settled
<1>4. Accounted => Accounted'
  BY <1>1 DEF Accounted
<1>5. \A n \in Requests, k \in Nat : Within(n, k) => Settled(n)'
  BY <1>1, <1>2 DEF Within, Settled
<1> QED BY <1>3, <1>4, <1>5

LEMMA OthersKeepWaiting ==
  ASSUME UNCHANGED <<queue, current, outcome>>, running => running'
  PROVE  /\ Accounted => Accounted'
         /\ \A n \in Requests, k \in Nat : Within(n, k) => Within(n, k)'
         /\ \A n \in Requests : Settled(n) => UNCHANGED outcome[n]
BY DEF Accounted, Within, Settled, Busy

(* Fewer steps are enough for more. *)
LEMMA WithinMore ==
  ASSUME TypeOK, NEW n \in Requests, NEW k \in Nat, Within(n, k)
  PROVE  Within(n, k + 1)
BY DEF TypeOK, Within, Busy

LEMMA NoStepsLeft ==
  ASSUME TypeOK, NEW n \in Requests
  PROVE  Within(n, 0) <=> Settled(n)
BY DEF TypeOK, Within, Busy

(* No step takes a request back, and a step of the rclpy thread brings every *)
(* request nearer to its end.                                                *)
Advances ==
  \A n \in Requests :
    /\ Settled(n) => UNCHANGED outcome[n]
    /\ \A k \in Nat : /\ Within(n, k) => Within(n, k)'
                     /\ ThreadStep /\ Within(n, k + 1) => Within(n, k)'

LEMMA StepAdvances ==
  ASSUME IInv, IInv', [Next]_vars
  PROVE  Advances /\ (Accounted => Accounted')
<1> USE DEF callVars, processVars, requestVars, serverVars, stateFlow
<1>1. \A n \in Requests, k \in Nat : k + 1 \in Nat /\ (Within(n, k) => Within(n, k + 1))
  BY WithinMore DEF IInv
<1>2. CASE DropRequest \/ DispatchRequest
  BY <1>1, <1>2, TakeBringsNearer DEF Advances, IInv
<1>3. CASE PostAccepted
  BY <1>1, <1>3, ReturnBringsNearer DEF Advances
<1>4. CASE PostRaises \/ Kill
  <2>1. Die
    BY <1>4 DEF PostRaises, Kill
  <2>2. \A n \in Requests, k \in Nat : Within(n, k) => Within(n, k)' /\ Settled(n)'
    BY <2>1, DieSettles DEF Within
  <2>3. \A n \in Requests, k \in Nat : Within(n, k + 1) => Within(n, k)'
    BY <1>1, <2>1, DieSettles DEF Within
  <2> QED BY <2>1, <2>2, <2>3, DieSettles DEF Advances
<1>5. CASE ~ThreadStep /\ \E d \in Doors \cup {Foreign}, m \in Modes : PublishRequest(d, m)
  BY <1>5, PublishKeepsWaiting DEF Advances
<1>6. CASE ~ThreadStep /\ UNCHANGED <<queue, current, outcome>> /\ (running => running')
  BY <1>6, OthersKeepWaiting DEF Advances
<1>7. CASE \/ Restart
           \/ \E d \in Doors : HandleFrame(d) \/ DropFrame(d) \/ PumpDies(d) \/ SendFrame(d) \/ MoveDoor(d)
           \/ \E n \in Requests : CarryOut(n)
           \/ UNCHANGED vars
  <2>1. UNCHANGED <<queue, current, outcome>> /\ (running => running')
    BY <1>7 DEF Restart, HandleFrame, DropFrame, PumpDies, SendFrame, MoveDoor, CarryOut, vars
  <2> QED BY <1>2, <1>3, <1>4, <1>6, <2>1 DEF ThreadStep
<1> QED BY <1>2, <1>3, <1>4, <1>5, <1>7 DEF Next, ThreadStep

LEMMA NothingForgotten == Spec => []Accounted
<1>1. Init => Accounted
  BY DEF Init, Accounted
<1>2. IInv /\ IInv' /\ Accounted /\ [Next]_vars => Accounted'
  BY StepAdvances
<1> QED BY <1>1, <1>2, DoorInvariance, PTL DEF Spec

(* A request that waits or is being posted is settled after at most          *)
(* 2 * QueueDepth + 1 steps of the one executor thread, and none of the      *)
(* other steps, not even the requests published meanwhile, takes it back;    *)
(* once settled it stays as it is (node.py route_request, door_handle.py     *)
(* dispatch_request).                                                        *)
THEOREM RequestsAdvance ==
  Spec => /\ [](\A n \in Requests : outcome[n] \in {"waiting", "pending"}
                                      => Within(n, 2 * QueueDepth + 1))
          /\ [][Advances]_vars
<1> DEFINE InTime == \A n \in Requests : outcome[n] \in {"waiting", "pending"}
                                           => Within(n, 2 * QueueDepth + 1)
<1>1. IInv /\ Accounted => InTime
  <2> SUFFICES ASSUME IInv, Accounted, NEW n \in Requests, outcome[n] \in {"waiting", "pending"}
               PROVE  Within(n, 2 * QueueDepth + 1)
    OBVIOUS
  <2> USE DoorAssumption
  <2>1. CASE outcome[n] = "pending"
    BY <2>1 DEF Accounted, Within
  <2>2. CASE outcome[n] = "waiting"
    <3>1. PICK i \in 1..Len(queue) : queue[i] = n
      BY <2>2 DEF Accounted
    <3>2. Len(queue) \in Nat /\ Len(queue) <= QueueDepth /\ Busy \in 0..1
      BY DEF IInv, TypeOK, Busy
    <3>3. 2 * i + Busy <= 2 * QueueDepth + 1
      BY <3>1, <3>2
    <3> QED BY <3>1, <3>3 DEF Within
  <2> QED BY <2>1, <2>2
<1>2. IInv /\ IInv' /\ [Next]_vars => [Advances]_vars
  BY StepAdvances
<1> QED BY <1>1, <1>2, DoorInvariance, NothingForgotten, PTL DEF Spec
=============================================================================
