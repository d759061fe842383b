------------------------ MODULE SubscriptionsProofs ------------------------
(* Proofs about Subscriptions, for any finite set of pumps, any limit and    *)
(* any window of the circuit breaker.                                        *)
EXTENDS Subscriptions, SequenceTheorems, FiniteSetTheorems, TLAPS

Ended == {p \in Pumps : phase[p] = "ended"}

Connecting == {p \in Pumps : phase[p] = "connecting"}

(* At every age, the older refusals come before the younger ones.            *)
TimesInOrder ==
  \A t \in 0..(Window + 1) : \E n \in 0..Len(failureTimes) :
    \A i \in 1..Len(failureTimes) : failureTimes[i] < t <=> i > n

(* A pump is told to stop only by a stop() that closes the client, and the   *)
(* node is stopped only when no pump is left.                                *)
StopsAreComplete ==
  /\ \A p \in Pumps : stopRequested[p] => closed
  /\ node = "stopped" => \A p \in Pumps : phase[p] = "off"

(* Beyond the limit, every refusal ends the pump it reaches.  After the      *)
(* client was closed no pump connects any more, so only those that were      *)
(* connecting are still refused.                                             *)
RefusalsAreFew ==
  IF closed
  THEN Len(failureTimes) + Cardinality(Connecting) < Limit + Cardinality(Pumps)
  ELSE Len(failureTimes) < Limit + Cardinality(Ended)

IInv == TypeOK /\ TimesInOrder /\ StopsAreComplete /\ RefusalsAreFew

-----------------------------------------------------------------------------
(* Counting                                                                  *)

(* The two sets of pumps are finite, have no pump in common and so count to  *)
(* no more than all.                                                         *)
LEMMA PumpsCounted ==
  /\ Cardinality(Pumps) \in Nat
  /\ IsFiniteSet(Ended) /\ IsFiniteSet(Connecting)
  /\ Cardinality(Ended) \in Nat /\ Cardinality(Connecting) \in Nat
  /\ Cardinality(Ended) + Cardinality(Connecting) <= Cardinality(Pumps)
<1>1. IsFiniteSet(Pumps) /\ Cardinality(Pumps) \in Nat
  BY BreakerAssumption, FS_CardinalityType
<1>2. IsFiniteSet(Ended) /\ IsFiniteSet(Connecting)
  BY <1>1, FS_Subset DEF Ended, Connecting
<1>3. Cardinality(Ended) \in Nat /\ Cardinality(Connecting) \in Nat
  BY <1>2, FS_CardinalityType
<1>4. Cardinality(Ended \cup Connecting)
        = Cardinality(Ended) + Cardinality(Connecting) - Cardinality(Ended \cap Connecting)
  BY <1>2, FS_Union
<1>5. Ended \cap Connecting = {}
  BY DEF Ended, Connecting
<1>6. Cardinality(Ended \cap Connecting) = 0
  BY <1>5, FS_EmptySet
<1>7. Cardinality(Ended \cup Connecting) <= Cardinality(Pumps)
  BY <1>1, FS_Subset, Ended \cup Connecting \in SUBSET Pumps DEF Ended, Connecting
<1>8. QED
  BY <1>1, <1>2, <1>3, <1>4, <1>6, <1>7

(* The same in the next state. *)
LEMMA PumpsCountedNext ==
  /\ IsFiniteSet(Ended') /\ IsFiniteSet(Connecting')
  /\ Cardinality(Ended') \in Nat /\ Cardinality(Connecting') \in Nat
  /\ Cardinality(Ended') + Cardinality(Connecting') <= Cardinality(Pumps)
<1>1. IsFiniteSet(Pumps) /\ Cardinality(Pumps) \in Nat
  BY BreakerAssumption, FS_CardinalityType
<1>2. IsFiniteSet(Ended') /\ IsFiniteSet(Connecting')
  BY <1>1, FS_Subset DEF Ended, Connecting
<1>3. Cardinality(Ended') \in Nat /\ Cardinality(Connecting') \in Nat
  BY <1>2, FS_CardinalityType
<1>4. Cardinality(Ended' \cup Connecting')
        = Cardinality(Ended') + Cardinality(Connecting') - Cardinality(Ended' \cap Connecting')
  BY <1>2, FS_Union
<1>5. Ended' \cap Connecting' = {}
  BY DEF Ended, Connecting
<1>6. Cardinality(Ended' \cap Connecting') = 0
  BY <1>5, FS_EmptySet
<1>7. Cardinality(Ended' \cup Connecting') <= Cardinality(Pumps)
  BY <1>1, FS_Subset, Ended' \cup Connecting' \in SUBSET Pumps DEF Ended, Connecting
<1>8. QED
  BY <1>1, <1>2, <1>3, <1>4, <1>6, <1>7

(* A step that adds no refusal keeps the bound, as long as the ended pumps   *)
(* stay ended and, once the client is closed, no other pump connects.        *)
LEMMA NoNewRefusal ==
  ASSUME RefusalsAreFew, Len(failureTimes) \in Nat,
         Len(failureTimes') = Len(failureTimes), closed' = closed,
         Ended \subseteq Ended',
         closed => Connecting' \subseteq Connecting
  PROVE  RefusalsAreFew'
<1>1. Cardinality(Ended) <= Cardinality(Ended')
  BY PumpsCountedNext, FS_Subset, Ended \in SUBSET Ended'
<1>2. closed => Cardinality(Connecting') <= Cardinality(Connecting)
  BY PumpsCounted, FS_Subset
<1>3. QED
  BY <1>1, <1>2, PumpsCounted, PumpsCountedNext, BreakerAssumption DEF RefusalsAreFew

(* The bound of the type invariant follows from that on refusals.            *)
LEMMA BoundFollows ==
  ASSUME RefusalsAreFew', Len(failureTimes') \in Nat
  PROVE  Len(failureTimes') < Limit + Cardinality(Pumps)
BY PumpsCounted, PumpsCountedNext, BreakerAssumption DEF RefusalsAreFew

-----------------------------------------------------------------------------
(* The list of refusals                                                      *)

(* _record_401 drops what is out of the window and nothing else, and adds    *)
(* the new refusal as the youngest.                                          *)
LEMMA RecordedTimes ==
  ASSUME failureTimes \in Seq(0..Window), TimesInOrder
  PROVE  /\ Record401 \in Seq(0..Window)
         /\ Len(Record401) \in 1..(Len(failureTimes) + 1)
         /\ \A i \in 1..Len(Record401) : Record401[i] < Window
         /\ \A t \in 0..(Window + 1) : \E n \in 0..Len(Record401) :
              \A i \in 1..Len(Record401) : Record401[i] < t <=> i > n
<1> DEFINE last == Len(failureTimes)
           k == Outdated
           rest == SubSeq(failureTimes, k + 1, last)
<1>1. last \in Nat /\ Window \in Nat \ {0}
  BY BreakerAssumption
<1>2. /\ k \in 0..last
      /\ \A i \in 1..last : failureTimes[i] < Window <=> i > k
  <2>1. Window \in 0..(Window + 1)
    BY <1>1
  <2>2. \E n \in 0..last : \A i \in 1..last : failureTimes[i] < Window <=> i > n
    BY <2>1 DEF TimesInOrder
  <2>3. QED
    BY <2>2 DEF Outdated
<1> HIDE DEF k
<1>3. \A i \in (k + 1)..last : failureTimes[i] \in 0..Window
  BY <1>1, <1>2
<1>4. /\ rest \in Seq(0..Window)
      /\ Len(rest) = last - k
      /\ \A i \in 1..(last - k) : rest[i] = failureTimes[k + i]
  <2>1. k + 1 \in Int /\ last \in Int
    BY <1>1, <1>2
  <2>2. /\ rest \in Seq(0..Window)
        /\ Len(rest) = IF k + 1 <= last THEN last - (k + 1) + 1 ELSE 0
        /\ \A i \in 1..(last - (k + 1) + 1) : rest[i] = failureTimes[(k + 1) + i - 1]
    BY <1>3, <2>1, SubSeqProperties
  <2>3. QED
    BY <1>1, <1>2, <2>2
<1> DEFINE new == Append(rest, 0)
<1>5. Record401 = new
  BY DEF Record401, k
<1>6. /\ new \in Seq(0..Window)
      /\ Len(new) = last - k + 1
      /\ \A i \in 1..(last - k) : new[i] = failureTimes[k + i]
      /\ new[last - k + 1] = 0
  <2>1. 0 \in 0..Window
    BY <1>1
  <2>2. QED
    BY <1>4, <2>1, AppendProperties
<1> HIDE DEF new, last
<1>7. Len(new) \in 1..(last + 1)
  BY <1>1, <1>2, <1>6
<1>8. ASSUME NEW i \in 1..Len(new)
      PROVE  new[i] < Window
  <2>1. CASE i = last - k + 1
    BY <1>1, <1>6, <2>1
  <2>2. CASE i # last - k + 1
    <3>1. i \in 1..(last - k) /\ k + i \in 1..last /\ k + i > k
      BY <1>1, <1>2, <1>6, <2>2
    <3>2. QED
      BY <1>2, <1>6, <3>1
  <2>3. QED
    BY <2>1, <2>2
<1>9. ASSUME NEW t \in 0..(Window + 1)
      PROVE  \E n \in 0..Len(new) : \A i \in 1..Len(new) : new[i] < t <=> i > n
  <2>1. PICK n \in 0..last : \A i \in 1..last : failureTimes[i] < t <=> i > n
    BY DEF TimesInOrder, last
  <2>2. CASE t = 0
    <3>1. Len(new) \in 0..Len(new)
      BY <1>1, <1>2, <1>6
    <3>2. ASSUME NEW i \in 1..Len(new)
          PROVE  ~(new[i] < t) /\ ~(i > Len(new))
      <4>1. new[i] \in 0..Window
        BY <1>6, ElementOfSeq
      <4>2. QED
        BY <2>2, <4>1, <1>1, <1>7
    <3>3. QED
      BY <3>1, <3>2
  <2>3. CASE t # 0
    <3> DEFINE m == IF n < k THEN 0 ELSE n - k
    <3>1. m \in 0..Len(new)
      BY <1>1, <1>2, <1>6
    <3>2. ASSUME NEW i \in 1..Len(new)
          PROVE  new[i] < t <=> i > m
      <4>1. CASE i = last - k + 1
        BY <1>1, <1>2, <1>6, <2>3, <4>1
      <4>2. CASE i # last - k + 1
        <5>1. i \in 1..(last - k) /\ k + i \in 1..last
          BY <1>1, <1>2, <1>6, <4>2
        <5>2. new[i] < t <=> k + i > n
          BY <1>6, <2>1, <5>1
        <5>3. k + i > n <=> i > m
          BY <1>1, <1>2, <5>1
        <5>4. QED
          BY <5>2, <5>3
      <4>3. QED
        BY <4>1, <4>2
    <3>3. QED
      BY <3>1, <3>2
  <2>4. QED
    BY <2>2, <2>3
<1>10. QED
  BY <1>5, <1>6, <1>7, <1>8, <1>9 DEF last

(* A tick makes all refusals older alike.                                    *)
LEMMA AgedTimes ==
  ASSUME failureTimes \in Seq(0..Window), TimesInOrder, Tick
  PROVE  /\ failureTimes' \in Seq(0..Window)
         /\ Len(failureTimes') = Len(failureTimes)
         /\ TimesInOrder'
<1>1. Len(failureTimes) \in Nat /\ Window \in Nat \ {0}
  BY BreakerAssumption
<1>2. \A i \in 1..Len(failureTimes) : failureTimes[i] \in 0..Window
  BY ElementOfSeq
<1>3. /\ failureTimes' \in Seq(0..Window)
      /\ Len(failureTimes') = Len(failureTimes)
  BY <1>1, <1>2 DEF Tick
<1>4. ASSUME NEW i \in 1..Len(failureTimes)
      PROVE  failureTimes'[i] = IF failureTimes[i] < Window THEN failureTimes[i] + 1 ELSE Window
  BY DEF Tick
<1>5. ASSUME NEW t \in 0..(Window + 1)
      PROVE  \E n \in 0..Len(failureTimes') :
               \A i \in 1..Len(failureTimes') : failureTimes'[i] < t <=> i > n
  <2> DEFINE before == IF t = 0 THEN 0 ELSE IF t = Window + 1 THEN t ELSE t - 1
  <2>1. before \in 0..(Window + 1)
    BY <1>1
  <2>2. PICK n \in 0..Len(failureTimes) :
          \A i \in 1..Len(failureTimes) : failureTimes[i] < before <=> i > n
    BY <2>1 DEF TimesInOrder
  <2>3. ASSUME NEW i \in 1..Len(failureTimes)
        PROVE  failureTimes'[i] < t <=> i > n
    <3>1. failureTimes[i] \in 0..Window
      BY <1>2
    <3>2. failureTimes'[i] < t <=> failureTimes[i] < before
      BY <1>1, <1>4, <3>1
    <3>3. QED
      BY <2>2, <3>2
  <2>4. QED
    BY <1>3, <2>3
<1>6. QED
  BY <1>3, <1>5 DEF TimesInOrder

(* Every step keeps the list typed and in order.                             *)
LEMMA TimesStep ==
  ASSUME failureTimes \in Seq(0..Window), TimesInOrder, [Next]_vars
  PROVE  failureTimes' \in Seq(0..Window) /\ TimesInOrder'
<1>1. CASE UNCHANGED failureTimes
  BY <1>1 DEF TimesInOrder
<1>2. ASSUME NEW p \in Pumps, Refused(p)
      PROVE  failureTimes' \in Seq(0..Window) /\ TimesInOrder'
  <2>1. failureTimes' = Record401
    BY <1>2 DEF Refused
  <2>2. QED
    BY <2>1, RecordedTimes DEF TimesInOrder
<1>3. CASE Tick
  BY <1>3, AgedTimes
<1>4. QED
  BY <1>1, <1>2, <1>3
  DEF Next, vars, NodeStart, NodeStop, StopPump, TaskGone, PumpsAwaited, LoopEnds, Joined,
      CallBegins, CallReturns, Enter, TokenFails, Connected, Disconnected, Receive, Undecodable

-----------------------------------------------------------------------------
(* The invariant                                                             *)

LEMMA InitInvariant == Init => IInv
<1> SUFFICES ASSUME Init PROVE IInv
  OBVIOUS
<1>1. failureTimes = <<>> /\ Len(failureTimes) = 0
  BY DEF Init
<1>2. TimesInOrder
  <2>1. 0 \in 0..Len(failureTimes) /\ 1..Len(failureTimes) = {}
    BY <1>1
  <2>2. QED
    BY <2>1 DEF TimesInOrder
<1>6. StopsAreComplete
  BY DEF Init, StopsAreComplete
<1>3. RefusalsAreFew
  BY <1>1, PumpsCounted, BreakerAssumption DEF Init, RefusalsAreFew
<1>4. Len(failureTimes) < Limit + Cardinality(Pumps)
  BY <1>1, PumpsCounted, BreakerAssumption
<1>5. TypeOK
  <2>1. failureTimes \in Seq(0..Window)
    BY <1>1
  <2>2. /\ phase \in [Pumps -> Running \cup {"off", "ended", "lost"}]
        /\ stopRequested \in [Pumps -> BOOLEAN]
        /\ seen \in [Pumps -> BOOLEAN]
    BY DEF Init
  <2>3. closed \in BOOLEAN /\ node = "stopped" /\ loop = "none"
    BY DEF Init
  <2>4. QED
    BY <1>4, <2>1, <2>2, <2>3 DEF TypeOK
<1>7. QED
  BY <1>2, <1>3, <1>5, <1>6 DEF IInv

(* The bound on refusals: only a refusal adds to the list, and only the      *)
(* first stop changes which side of the bound counts.                        *)
LEMMA RefusalsStep ==
  ASSUME IInv, [Next]_vars
  PROVE  RefusalsAreFew'
<1> DEFINE n == Len(failureTimes)
<1>0. /\ n \in Nat /\ RefusalsAreFew
      /\ phase \in [Pumps -> Running \cup {"off", "ended", "lost"}]
      /\ closed \in BOOLEAN
      /\ Limit \in Nat \ {0}
  BY BreakerAssumption DEF IInv, TypeOK
<1>1. ASSUME NEW p \in Pumps, Refused(p)
      PROVE  RefusalsAreFew'
  <2>1. phase[p] = "connecting" /\ closed' = closed /\ failureTimes' = Record401
    BY <1>1 DEF Refused
  <2>2. Len(failureTimes') \in 1..(n + 1)
    BY <2>1, RecordedTimes DEF IInv, TypeOK
  <2>3. CASE closed
    <3>1. Connecting' = Connecting \ {p} /\ p \in Connecting
      BY <1>0, <1>1, <2>1, <2>3 DEF Refused, Goto, Connecting
    <3>2. Cardinality(Connecting') = Cardinality(Connecting) - 1
      BY <3>1, PumpsCounted, FS_RemoveElement
    <3>3. QED
      BY <1>0, <2>1, <2>2, <2>3, <3>2, PumpsCounted DEF RefusalsAreFew
  <2>4. CASE ~closed /\ Len(failureTimes') >= Limit
    <3>1. Ended' = Ended \cup {p} /\ p \notin Ended
      BY <1>0, <1>1, <2>1, <2>4 DEF Refused, Goto, Ended
    <3>2. Cardinality(Ended') = Cardinality(Ended) + 1
      BY <3>1, PumpsCounted, FS_AddElement
    <3>3. QED
      BY <1>0, <2>1, <2>2, <2>4, <3>2, PumpsCounted DEF RefusalsAreFew
  <2>5. CASE ~closed /\ ~(Len(failureTimes') >= Limit)
    BY <1>0, <2>1, <2>2, <2>5, PumpsCountedNext DEF RefusalsAreFew
  <2>6. QED
    BY <2>3, <2>4, <2>5
<1>2. ASSUME NEW p \in Pumps, StopPump(p)
      PROVE  RefusalsAreFew'
  <2>1. /\ closed' = TRUE /\ UNCHANGED failureTimes
        /\ phase' = [phase EXCEPT ![p] = IF phase[p] = "open" THEN "closing" ELSE "off"]
    BY <1>2 DEF StopPump, Goto
  <2>2. Connecting' \subseteq Connecting
    BY <1>0, <2>1 DEF Connecting
  <2>3. Cardinality(Connecting') <= Cardinality(Connecting)
    BY <2>2, PumpsCounted, FS_Subset
  <2>4. QED
    BY <1>0, <2>1, <2>3, PumpsCounted, PumpsCountedNext DEF RefusalsAreFew
<1>3. CASE Tick
  <2>1. Len(failureTimes') = n /\ closed' = closed /\ phase' = phase
    BY <1>3, AgedTimes DEF IInv, TypeOK, Tick
  <2>2. Ended' = Ended /\ Connecting' = Connecting
    BY <2>1 DEF Ended, Connecting
  <2>3. QED
    BY <1>0, <2>1, <2>2, NoNewRefusal
<1>4. CASE NodeStart
  <2>1. UNCHANGED <<failureTimes, closed>> /\ Ended = {} /\ Connecting' \subseteq Connecting
    BY <1>4 DEF NodeStart, IInv, StopsAreComplete, Ended, Connecting
  <2>2. QED
    BY <1>0, <2>1, NoNewRefusal
<1>5. CASE LoopEnds
  <2>1. /\ UNCHANGED <<failureTimes, closed>>
        /\ phase' = [q \in Pumps |-> IF phase[q] \in Running THEN "lost" ELSE phase[q]]
    BY <1>5 DEF LoopEnds
  <2>2. Ended' = Ended /\ Connecting' \subseteq Connecting
    BY <2>1 DEF Ended, Connecting, Running
  <2>3. QED
    BY <1>0, <2>1, <2>2, NoNewRefusal
<1>6. ASSUME NEW p \in Pumps,
             \/ Enter(p) \/ TokenFails(p) \/ Connected(p) \/ Disconnected(p) \/ Receive(p)
             \/ Undecodable(p) \/ TaskGone(p)
      PROVE  RefusalsAreFew'
  <2>1. UNCHANGED <<failureTimes, closed>>
    BY <1>6 DEF Enter, TokenFails, Connected, Disconnected, Receive, Undecodable, TaskGone
  <2>2. Ended \subseteq Ended'
    BY <1>0, <1>6
    DEF Enter, TokenFails, Connected, Disconnected, Receive, Undecodable, TaskGone, Stopping,
        Goto, Ended
  <2>3. closed => Connecting' \subseteq Connecting
    BY <1>0, <1>6
    DEF Enter, TokenFails, Connected, Disconnected, Receive, Undecodable, TaskGone, Stopping,
        Goto, Connecting
  <2>4. QED
    BY <1>0, <2>1, <2>2, <2>3, NoNewRefusal
<1>7. CASE UNCHANGED <<failureTimes, closed, phase>>
  <2>1. Ended' = Ended /\ Connecting' = Connecting
    BY <1>7 DEF Ended, Connecting
  <2>2. QED
    BY <1>0, <1>7, <2>1, NoNewRefusal
<1>8. QED
  BY <1>1, <1>2, <1>3, <1>4, <1>5, <1>6, <1>7
  DEF Next, vars, NodeStop, PumpsAwaited, Joined, CallBegins, CallReturns

(* A stop() is complete only with every pump off, and none is told to stop   *)
(* while the client is open.                                                 *)
LEMMA StopsStep ==
  ASSUME TypeOK, StopsAreComplete, [Next]_vars
  PROVE  StopsAreComplete'
<1> USE DEF StopsAreComplete
<1>1. CASE NodeStart
  BY <1>1 DEF NodeStart, TypeOK
<1>2. ASSUME NEW p \in Pumps, StopPump(p)
      PROVE  StopsAreComplete'
  <2>1. closed' = TRUE /\ node # "stopped" /\ node' = node
    BY <1>2 DEF StopPump
  <2>2. QED
    BY <2>1
<1>3. CASE NodeStop \/ PumpsAwaited \/ Joined
  BY <1>3 DEF NodeStop, PumpsAwaited, Joined
<1>4. CASE LoopEnds
  BY <1>4 DEF LoopEnds
<1>5. ASSUME NEW p \in Pumps,
             \/ Enter(p) \/ TokenFails(p) \/ Connected(p) \/ Refused(p)
             \/ Disconnected(p) \/ Receive(p) \/ Undecodable(p) \/ TaskGone(p)
      PROVE  StopsAreComplete'
  <2>1. phase[p] # "off" /\ UNCHANGED <<closed, stopRequested, node>>
    BY <1>5 DEF Enter, TokenFails, Connected, Refused, Disconnected, Receive, Undecodable,
                TaskGone, Stopping
  <2>2. QED
    BY <2>1
<1>6. CASE UNCHANGED <<closed, stopRequested, node, phase>>
  BY <1>6
<1>7. QED
  BY <1>1, <1>2, <1>3, <1>4, <1>5, <1>6
  DEF Next, vars, CallBegins, CallReturns, Tick

LEMMA TypeStep ==
  ASSUME TypeOK, [Next]_vars,
         failureTimes' \in Seq(0..Window), Len(failureTimes') < Limit + Cardinality(Pumps)
  PROVE  TypeOK'
<1> USE DEF TypeOK
<1>1. CASE NodeStart \/ NodeStop \/ PumpsAwaited \/ LoopEnds \/ Joined
  BY <1>1 DEF NodeStart, NodeStop, PumpsAwaited, LoopEnds, Joined, Running
<1>2. ASSUME NEW p \in Pumps, StopPump(p) \/ CallBegins(p)
      PROVE  TypeOK'
  BY <1>2 DEF StopPump, CallBegins, Goto, Running
<1>3. ASSUME NEW p \in Pumps,
             \/ Enter(p) \/ TokenFails(p) \/ Connected(p) \/ Refused(p)
             \/ Disconnected(p) \/ Receive(p) \/ Undecodable(p) \/ TaskGone(p)
      PROVE  TypeOK'
  <2> USE DEF Enter, TokenFails, Connected, Refused, Disconnected, Receive, Undecodable, TaskGone
  <2>1. UNCHANGED <<closed, stopRequested, node, loop>>
    BY <1>3
  <2>2. phase' \in [Pumps -> Running \cup {"off", "ended", "lost"}]
    BY <1>3 DEF Goto, Running
  <2>3. seen' \in [Pumps -> BOOLEAN]
    BY <1>3
  <2>4. QED
    BY <2>1, <2>2, <2>3
<1>4. CASE CallReturns \/ Tick \/ UNCHANGED vars
  BY <1>4 DEF CallReturns, Tick, vars
<1>5. QED
  BY <1>1, <1>2, <1>3, <1>4 DEF Next

LEMMA InvariantStep == IInv /\ [Next]_vars => IInv'
<1> SUFFICES ASSUME IInv, [Next]_vars PROVE IInv'
  OBVIOUS
<1>1. failureTimes' \in Seq(0..Window) /\ TimesInOrder'
  BY TimesStep DEF IInv, TypeOK
<1>2. StopsAreComplete'
  BY StopsStep DEF IInv
<1>3. RefusalsAreFew'
  BY RefusalsStep
<1>4. Len(failureTimes') < Limit + Cardinality(Pumps)
  BY <1>1, <1>3, BoundFollows
<1>5. TypeOK'
  BY <1>1, <1>4, TypeStep DEF IInv
<1>6. QED
  BY <1>1, <1>2, <1>3, <1>5 DEF IInv

THEOREM SubscriptionsInvariance == Spec => []IInv
<1>1. QED
  BY InitInvariant, InvariantStep, PTL DEF Spec

-----------------------------------------------------------------------------
(* The properties                                                            *)

(* The list of refusals is bounded: however many pumps of a node share the   *)
(* client, beyond the limit each adds one at most.                           *)
THEOREM SubscriptionsTypeOK == Spec => []TypeOK
<1>1. IInv => TypeOK
  BY DEF IInv
<1>2. QED
  BY <1>1, SubscriptionsInvariance, PTL

(* Once any pump of the client has been stopped, no pump of it hands another *)
(* frame to its callback.                                                    *)
THEOREM StoppedClientIsSilent == Spec => SilentAfterClose
<1>1. [Next]_vars => [closed => UNCHANGED seen]_vars
  BY DEF Next, vars, NodeStart, NodeStop, StopPump, TaskGone, PumpsAwaited, LoopEnds, Joined,
         CallBegins, CallReturns, Enter, TokenFails, Connected, Refused, Disconnected, Receive,
         Undecodable, Tick
<1>2. QED
  BY <1>1, PTL DEF Spec, SilentAfterClose

(* A subscription ends only without a token, with the client closed, by a    *)
(* frame that cannot be decoded, or with as many refusals in the window as   *)
(* the breaker asks for.                                                     *)
THEOREM EndsAreCaused == Spec => EndsForCause
<1> DEFINE Caused(p) ==
             \/ closed \/ stopRequested[p]
             \/ TokenFails(p) \/ Undecodable(p)
             \/ Cardinality({i \in 1..Len(failureTimes') : failureTimes'[i] < Window}) >= Limit
           Ends == \A p \in Pumps : phase[p] \in Running /\ phase'[p] = "ended" => Caused(p)
<1>1. ASSUME IInv, Next, NEW p \in Pumps, phase[p] \in Running, phase'[p] = "ended"
      PROVE  Caused(p)
  <2>0. phase \in [Pumps -> Running \cup {"off", "ended", "lost"}] /\ phase[p] # "ended"
    BY <1>1 DEF IInv, TypeOK, Running
  <2>1. ASSUME NEW q \in Pumps, Refused(q)
        PROVE  Caused(p)
    <3>1. q = p
      BY <1>1, <2>0, <2>1 DEF Refused, Goto
    <3>2. closed \/ Len(Record401) >= Limit
      BY <1>1, <2>0, <2>1, <3>1 DEF Refused, Goto
    <3>3. failureTimes' = Record401
      BY <2>1 DEF Refused
    <3>4. /\ Len(failureTimes') \in Nat
          /\ \A i \in 1..Len(failureTimes') : failureTimes'[i] < Window
      BY <1>1, <3>3, RecordedTimes DEF IInv, TypeOK
    <3>5. {i \in 1..Len(failureTimes') : failureTimes'[i] < Window} = 1..Len(failureTimes')
      BY <3>4
    <3>6. Cardinality(1..Len(failureTimes')) = Len(failureTimes')
      <4>1. /\ 1 \in Int /\ Len(failureTimes') \in Int
            /\ 1 > Len(failureTimes') => Len(failureTimes') = 0
        BY <3>4
      <4>2. Cardinality(1..Len(failureTimes'))
              = IF 1 > Len(failureTimes') THEN 0 ELSE Len(failureTimes') - 1 + 1
        BY <4>1, FS_Interval
      <4>3. QED
        BY <4>1, <4>2
    <3>7. QED
      BY <3>2, <3>3, <3>5, <3>6
  <2>2. ASSUME NEW q \in Pumps,
               \/ Enter(q) \/ TokenFails(q) \/ Connected(q) \/ Disconnected(q) \/ Receive(q)
               \/ Undecodable(q) \/ StopPump(q) \/ TaskGone(q)
        PROVE  Caused(p)
    <3>1. q = p
      BY <1>1, <2>0, <2>2
      DEF Enter, TokenFails, Connected, Disconnected, Receive, Undecodable, StopPump, TaskGone, Goto
    <3>2. QED
      BY <1>1, <2>0, <2>2, <3>1
      DEF Enter, Connected, Disconnected, Receive, StopPump, TaskGone, Goto
  <2>3. CASE NodeStart \/ LoopEnds
    BY <1>1, <2>0, <2>3 DEF NodeStart, LoopEnds, Running
  <2>4. CASE UNCHANGED phase
    BY <1>1, <2>0, <2>4
  <2>5. QED
    BY <1>1, <2>1, <2>2, <2>3, <2>4
    DEF Next, NodeStop, PumpsAwaited, Joined, CallBegins, CallReturns, Tick
<1>2. IInv /\ [Next]_vars => [Ends]_vars
  BY <1>1
<1>3. QED
  BY <1>2, SubscriptionsInvariance, PTL DEF Spec, EndsForCause

(* The client is closed for good by the first stop(), so a node that is      *)
(* started again never has a subscription: its pumps end at the head of      *)
(* their loops (ws.py:76, :103).                                             *)
THEOREM RestartedNodeIsDeaf ==
  Spec => [](closed /\ node = "running" => \A p \in Pumps : phase[p] \in {"ready", "ended"})
<1> DEFINE Deaf == closed /\ node = "running" => \A p \in Pumps : phase[p] \in {"ready", "ended"}
<1>1. Init => Deaf
  BY DEF Init
<1>2. ASSUME IInv, Deaf, [Next]_vars
      PROVE  Deaf'
  <2> USE <1>2
  <2>1. CASE NodeStart
    <3>1. \A p \in Pumps : phase[p] = "off"
      BY <2>1 DEF NodeStart, IInv, StopsAreComplete
    <3>2. \A p \in Pumps : phase'[p] = "ready"
      BY <2>1, <3>1 DEF NodeStart, Running
    <3>3. QED
      BY <3>2
  <2>2. CASE NodeStop \/ PumpsAwaited \/ Joined \/ LoopEnds \/ \E p \in Pumps : StopPump(p)
    <3>1. node' # "running"
      BY <2>2 DEF NodeStop, PumpsAwaited, Joined, LoopEnds, StopPump
    <3>2. QED
      BY <3>1
  <2>3. ASSUME NEW p \in Pumps,
               \/ Enter(p) \/ TokenFails(p) \/ Connected(p) \/ Refused(p)
               \/ Disconnected(p) \/ Receive(p) \/ Undecodable(p) \/ TaskGone(p)
        PROVE  Deaf'
    <3>1. CASE closed /\ node = "running"
      <4>1. Enter(p) /\ phase' = [phase EXCEPT ![p] = "ended"] /\ UNCHANGED <<closed, node>>
        BY <2>3, <3>1 DEF Enter, TokenFails, Connected, Refused, Disconnected, Receive, Undecodable,
                          TaskGone, Stopping, Goto
      <4>2. QED
        BY <3>1, <4>1 DEF IInv, TypeOK
    <3>2. CASE ~(closed /\ node = "running")
      <4>1. UNCHANGED <<closed, node>>
        BY <2>3 DEF Enter, TokenFails, Connected, Refused, Disconnected, Receive, Undecodable,
                    TaskGone
      <4>2. QED
        BY <3>2, <4>1
    <3>3. QED
      BY <3>1, <3>2
  <2>4. CASE CallReturns \/ Tick \/ (\E p \in Pumps : CallBegins(p)) \/ UNCHANGED vars
    BY <2>4 DEF CallReturns, Tick, CallBegins, vars
  <2>5. QED
    BY <2>1, <2>2, <2>3, <2>4 DEF Next
<1>3. QED
  BY <1>1, <1>2, SubscriptionsInvariance, PTL DEF Spec
=============================================================================
