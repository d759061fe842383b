---------------------- MODULE LiftSessionManagerProofs ----------------------
(***************************************************************************)
(* Theorems about LiftSessionManager for every set of lifts, every set of  *)
(* sessions and every TTL.  The inductive invariant is TypeOK together     *)
(* with ClaimAgreesWithView; everything else follows from it step by step. *)
(***************************************************************************)
EXTENDS LiftSessionManager, TLAPS

IInv == TypeOK /\ ClaimAgreesWithView

(* MaxAge is a natural number, so 0..MaxAge is never empty. *)
LEMMA MaxAgeNat == MaxAge \in Nat
  BY SessionAssumption DEF MaxAge

(* SetRequest keeps the two dictionaries well typed, and writes one entry. *)
LEMMA SetRequestWrites ==
  ASSUME TypeOK, NEW l \in Lifts, NEW s \in Holder, NEW age \in 0..MaxAge,
         SetRequest(l, s, age)
  PROVE  /\ requested' \in [Lifts -> Holder]
         /\ requestedAge' \in [Lifts -> 0..MaxAge]
         /\ requested'[l] = s
         /\ \A k \in Lifts \ {l} : requested'[k] = requested[k]
         /\ \A k \in Lifts \ {l} : requestedAge'[k] = requestedAge[k]
  BY MaxAgeNat DEF TypeOK, SetRequest

(* Eviction leaves the entry or removes it. *)
LEMMA LiveIsEntryOrFree ==
  ASSUME TypeOK, NEW l \in Lifts
  PROVE  Live(l) \in Holder /\ Live(l) \in {requested[l], Free}
  BY DEF Live, TypeOK, Holder

(* Every method keeps the types of the dictionaries. *)
LEMMA TypeStep ==
  ASSUME TypeOK, [Next]_managerVars
  PROVE  TypeOK'
<1> USE DEF Holder
<1>1. ASSUME NEW l \in Lifts, NEW s \in Holder, NEW granted \in BOOLEAN,
             TryAcquire(l, s, granted)
      PROVE  TypeOK'
  <2>1. CASE s = Free
    BY <1>1, <2>1 DEF TryAcquire, TypeOK
  <2>2. CASE s # Free
    <3>1. \/ SetRequest(l, s, 0)
          \/ SetRequest(l, Live(l), requestedAge[l])
      BY <1>1, <2>2 DEF TryAcquire
    <3>2. requestedAge[l] \in 0..MaxAge /\ 0 \in 0..MaxAge
      BY MaxAgeNat DEF TypeOK
    <3>3. server' = server
      BY <1>1 DEF TryAcquire
    <3>4. QED
      BY <3>1, <3>2, <3>3, SetRequestWrites, LiveIsEntryOrFree DEF TypeOK
  <2>3. QED
    BY <2>1, <2>2
<1>2. ASSUME NEW l \in Lifts, NEW s \in Sessions, NEW released \in BOOLEAN,
             Release(l, s, released)
      PROVE  TypeOK'
  BY <1>2, MaxAgeNat, SetRequestWrites DEF Release, TypeOK
<1>3. ASSUME NEW l \in Lifts, NEW h \in Holder, ObserveServerState(l, h)
      PROVE  TypeOK'
  BY <1>3, SetRequestWrites DEF ObserveServerState, TypeOK
<1>4. ASSUME NEW l \in Lifts, NEW h \in Holder, CurrentHolder(l, h)
      PROVE  TypeOK'
  BY <1>4, SetRequestWrites, LiveIsEntryOrFree DEF CurrentHolder, TypeOK
<1>5. CASE Tick
  BY <1>5, MaxAgeNat DEF Tick, TypeOK
<1>6. CASE Restart
  BY <1>6, MaxAgeNat DEF Restart, TypeOK
<1>7. CASE UNCHANGED managerVars
  BY <1>7 DEF managerVars, TypeOK
<1>8. QED
  BY <1>1, <1>2, <1>3, <1>4, <1>5, <1>6, <1>7 DEF Next

(* Every dictionary keeps its type, and no age exceeds MaxAge: the first half *)
(* of the inductive invariant.                                               *)
THEOREM ManagerTypeOK == Spec => []TypeOK
<1>1. Init => TypeOK
  BY MaxAgeNat DEF Init, TypeOK, Holder
<1> QED BY <1>1, TypeStep, PTL DEF Spec

-----------------------------------------------------------------------------
(* One step of the manager keeps the two views of every lift compatible.    *)
LEMMA AgreementStep ==
  ASSUME IInv, [Next]_managerVars
  PROVE  ClaimAgreesWithView'
<1> USE SessionAssumption DEF Holder
<1> SUFFICES ASSUME NEW k \in Lifts, requested'[k] # Free
             PROVE  server'[k] \in {Unseen, Free, requested'[k]}
  BY DEF ClaimAgreesWithView
<1>0. /\ TypeOK
      /\ requested[k] # Free => server[k] \in {Unseen, Free, requested[k]}
      /\ requestedAge[k] \in 0..MaxAge
      /\ 0 \in 0..MaxAge
  BY MaxAgeNat DEF IInv, ClaimAgreesWithView, TypeOK
<1>1. ASSUME NEW l \in Lifts, NEW s \in Holder, NEW granted \in BOOLEAN,
             TryAcquire(l, s, granted)
      PROVE  server'[k] \in {Unseen, Free, requested'[k]}
  <2>0. server' = server
    BY <1>1 DEF TryAcquire
  <2>1. CASE requested'[k] = requested[k]
    BY <1>0, <2>0, <2>1
  <2>2. CASE requested'[k] # requested[k]
    <3>1. s # Free
      BY <1>1, <2>2 DEF TryAcquire
    <3>2. requestedAge[l] \in 0..MaxAge
      BY <1>0 DEF TypeOK
    <3>3. CASE granted
      <4>1. SetRequest(l, s, 0) /\ Acquirable(l, s)
        BY <1>1, <3>1, <3>3 DEF TryAcquire
      <4>2. k = l /\ requested'[k] = s
        BY <4>1, <1>0, <2>2, SetRequestWrites
      <4>3. \/ server[l] \in {Free, Unseen}
            \/ Live(l) = s
            \/ server[l] = s
        BY <4>1 DEF Acquirable, ServerSaysFree
      <4>4. Live(l) = s => requested[l] = s
        BY <1>0, <3>1, LiveIsEntryOrFree
      <4>5. QED
        BY <4>2, <4>3, <4>4, <2>0, <2>2
    <3>4. CASE ~granted
      <4>1. SetRequest(l, Live(l), requestedAge[l])
        BY <1>1, <3>1, <3>4 DEF TryAcquire
      <4>2. k = l /\ requested'[k] = Live(l)
        BY <4>1, <1>0, <2>2, <3>2, SetRequestWrites, LiveIsEntryOrFree
      <4>3. QED
        BY <4>2, <1>0, <2>2, LiveIsEntryOrFree
    <3>5. QED
      BY <3>3, <3>4
  <2>3. QED
    BY <2>1, <2>2
<1>2. ASSUME NEW l \in Lifts, NEW s \in Sessions, NEW released \in BOOLEAN,
             Release(l, s, released)
      PROVE  server'[k] \in {Unseen, Free, requested'[k]}
  <2>1. requested'[k] \in {requested[k], Free}
    BY <1>2, <1>0, SetRequestWrites DEF Release
  <2>2. QED
    BY <1>2, <1>0, <2>1 DEF Release
<1>3. ASSUME NEW l \in Lifts, NEW h \in Holder, ObserveServerState(l, h)
      PROVE  server'[k] \in {Unseen, Free, requested'[k]}
  <2>1. /\ SetRequest(l, IF Live(l) = h THEN h ELSE Free, requestedAge[l])
        /\ requestedAge[l] \in 0..MaxAge
        /\ server' = [server EXCEPT ![l] = h]
    BY <1>3, <1>0 DEF ObserveServerState, TypeOK
  <2>2. CASE k = l
    <3>1. requested'[l] \in {h, Free}
      BY <2>1, <1>0, SetRequestWrites
    <3>2. server'[l] = h
      BY <2>1, <1>0 DEF TypeOK
    <3>3. QED
      BY <2>2, <3>1, <3>2
  <2>3. CASE k # l
    <3>1. requested'[k] = requested[k] /\ server'[k] = server[k]
      BY <2>1, <2>3, <1>0, SetRequestWrites DEF TypeOK
    <3>2. QED
      BY <3>1, <1>0
  <2>4. QED
    BY <2>2, <2>3
<1>4. ASSUME NEW l \in Lifts, NEW h \in Holder, CurrentHolder(l, h)
      PROVE  server'[k] \in {Unseen, Free, requested'[k]}
  <2>1. SetRequest(l, Live(l), requestedAge[l]) /\ requestedAge[l] \in 0..MaxAge
    BY <1>4, <1>0 DEF CurrentHolder, TypeOK
  <2>2. requested'[k] \in {requested[k], Free}
    BY <2>1, <1>0, SetRequestWrites, LiveIsEntryOrFree
  <2>3. QED
    BY <1>4, <1>0, <2>2 DEF CurrentHolder
<1>5. CASE Tick
  BY <1>5, <1>0 DEF Tick
<1>6. CASE Restart
  BY <1>6 DEF Restart
<1>7. CASE UNCHANGED managerVars
  BY <1>7, <1>0 DEF managerVars
<1>8. QED
  BY <1>1, <1>2, <1>3, <1>4, <1>5, <1>6, <1>7 DEF Next

(* The adapter's claim and the last state frame never name two different     *)
(* sessions (ClaimAgreesWithView), whatever the order of calls and frames.   *)
THEOREM AgreementHolds == Spec => []ClaimAgreesWithView
<1>1. Init => ClaimAgreesWithView
  BY DEF Init, ClaimAgreesWithView
<1>2. TypeOK /\ ClaimAgreesWithView /\ [Next]_managerVars => ClaimAgreesWithView'
  BY AgreementStep DEF IInv
<1>3. QED
  BY <1>1, <1>2, ManagerTypeOK, PTL DEF Spec

-----------------------------------------------------------------------------
(* A step that loses a claim is one of the four that may.                    *)
LEMMA ClaimLossStep ==
  ASSUME IInv, [Next]_managerVars, NEW k \in Lifts,
         requested[k] # Free, requested'[k] # requested[k], ~Expired(k)
  PROVE  \/ Release(k, requested[k], TRUE)
         \/ \E h \in Holder \ {requested[k]} : ObserveServerState(k, h)
         \/ Restart
<1> USE SessionAssumption
<1>0. /\ TypeOK
      /\ server[k] \in {Unseen, Free, requested[k]}
      /\ Live(k) = requested[k]
      /\ requested[k] \in Sessions
  BY DEF IInv, ClaimAgreesWithView, TypeOK, Live, Holder
<1>1. ASSUME NEW l \in Lifts, NEW s \in Holder, NEW granted \in BOOLEAN,
             TryAcquire(l, s, granted)
      PROVE  FALSE
  <2>1. s # Free
    BY <1>1 DEF TryAcquire
  <2>2. requestedAge[l] \in 0..MaxAge /\ 0 \in 0..MaxAge
    BY <1>0, MaxAgeNat DEF TypeOK
  <2>3. CASE granted
    <3>1. SetRequest(l, s, 0) /\ Acquirable(l, s)
      BY <1>1, <2>1, <2>3 DEF TryAcquire
    <3>2. k = l /\ s # requested[k]
      BY <3>1, <1>0, <2>2, SetRequestWrites
    <3>3. QED
      BY <3>1, <3>2, <1>0, <2>1 DEF Acquirable, Holder
  <2>4. CASE ~granted
    <3>1. SetRequest(l, Live(l), requestedAge[l])
      BY <1>1, <2>1, <2>4 DEF TryAcquire
    <3>2. k = l /\ Live(l) # requested[k]
      BY <3>1, <1>0, <2>2, SetRequestWrites, LiveIsEntryOrFree
    <3>3. QED
      BY <3>2, <1>0
  <2>5. QED
    BY <2>3, <2>4
<1>2. ASSUME NEW l \in Lifts, NEW s \in Sessions, NEW released \in BOOLEAN,
             Release(l, s, released)
      PROVE  Release(k, requested[k], TRUE)
  <2>1. HeldBy(l, s) /\ SetRequest(l, Free, 0) /\ server' = server
    BY <1>2 DEF Release
  <2>2. k = l
    BY <2>1, <1>0, MaxAgeNat, SetRequestWrites DEF Holder
  <2>3. s = requested[k]
    BY <2>1, <2>2, <1>0 DEF HeldBy
  <2>4. released = TRUE
    BY <1>2, <2>1 DEF Release
  <2>5. QED
    BY <1>2, <2>2, <2>3, <2>4
<1>3. ASSUME NEW l \in Lifts, NEW h \in Holder, ObserveServerState(l, h)
      PROVE  \E g \in Holder \ {requested[k]} : ObserveServerState(k, g)
  <2>1. /\ SetRequest(l, IF Live(l) = h THEN h ELSE Free, requestedAge[l])
        /\ requestedAge[l] \in 0..MaxAge
    BY <1>3, <1>0 DEF ObserveServerState, TypeOK
  <2>2. k = l
    BY <2>1, <1>0, SetRequestWrites DEF Holder
  <2>3. h # requested[k]
    BY <2>1, <2>2, <1>0, SetRequestWrites DEF Holder
  <2>4. QED
    BY <1>3, <2>2, <2>3
<1>4. ASSUME NEW l \in Lifts, NEW h \in Holder, CurrentHolder(l, h)
      PROVE  FALSE
  <2>1. SetRequest(l, Live(l), requestedAge[l]) /\ requestedAge[l] \in 0..MaxAge
    BY <1>4, <1>0 DEF CurrentHolder, TypeOK
  <2>2. k = l
    BY <2>1, <1>0, SetRequestWrites, LiveIsEntryOrFree
  <2>3. QED
    BY <2>1, <2>2, <1>0, SetRequestWrites, LiveIsEntryOrFree
<1>5. ~Tick
  BY DEF Tick
<1>6. ~UNCHANGED managerVars
  BY DEF managerVars
<1>7. QED
  BY <1>1, <1>2, <1>3, <1>4, <1>5, <1>6 DEF Next

(* A session that does not hold the claim leaves it as it is. *)
LEMMA StrangersReleaseNothing ==
  ASSUME IInv, NEW k \in Lifts, requested[k] # Free,
         NEW s \in Sessions \ {requested[k]}, Release(k, s, TRUE)
  PROVE  requested' = requested
<1>1. server[k] \in {Unseen, Free, requested[k]}
  BY DEF IInv, ClaimAgreesWithView
<1>2. ~HeldBy(k, s)
  BY <1>1, SessionAssumption DEF HeldBy
<1>3. QED
  BY <1>2 DEF Release

(* A claim is lost only by its own release, a contrary frame, its TTL or a   *)
(* restart (ClaimLostByRight).                                               *)
THEOREM LossesAreRightful == Spec => ClaimLostByRight
<1>1. IInv /\ [Next]_managerVars =>
        [\A l \in Lifts :
           requested[l] # Free /\ requested'[l] # requested[l] =>
             /\ \/ Release(l, requested[l], TRUE)
                \/ \E h \in Holder \ {requested[l]} : ObserveServerState(l, h)
                \/ Expired(l)
                \/ Restart
             /\ \A s \in Sessions \ {requested[l]} : ~Release(l, s, TRUE)]_managerVars
  BY ClaimLossStep, StrangersReleaseNothing
<1>2. QED
  BY <1>1, ManagerTypeOK, AgreementHolds, PTL DEF Spec, IInv, ClaimLostByRight

-----------------------------------------------------------------------------
(* What SetRequest does to the entries that count: the one it writes counts  *)
(* unless the age it is given is past the TTL, the others stay.              *)
LEMMA SetRequestLive ==
  ASSUME TypeOK, NEW l \in Lifts, NEW s \in Holder, NEW age \in 0..MaxAge,
         SetRequest(l, s, age)
  PROVE  /\ Live(l)' = IF TTL > 0 /\ age > TTL THEN Free ELSE s
         /\ \A k \in Lifts \ {l} : Live(k)' = Live(k)
<1>1. /\ requested'[l] = s
      /\ \A k \in Lifts \ {l} : requested'[k] = requested[k]
      /\ \A k \in Lifts \ {l} : requestedAge'[k] = requestedAge[k]
  BY SetRequestWrites
<1>2. s # Free => requestedAge'[l] = age
  BY DEF SetRequest, TypeOK
<1>3. QED
  BY <1>1, <1>2 DEF Live, Expired

(* Rewriting an entry with what eviction left of it changes nothing that     *)
(* counts.                                                                   *)
LEMMA EvictionIsSilent ==
  ASSUME TypeOK, NEW l \in Lifts, SetRequest(l, Live(l), requestedAge[l])
  PROVE  \A k \in Lifts : Live(k)' = Live(k)
<1>1. requestedAge[l] \in 0..MaxAge /\ Live(l) \in Holder
  BY LiveIsEntryOrFree DEF TypeOK
<1>2. TTL > 0 /\ requestedAge[l] > TTL => Live(l) = Free
  BY DEF Live, Expired
<1>3. QED
  BY <1>1, <1>2, SetRequestLive

(* Every step of the manager is a step of SessionClaim, or none, on the      *)
(* claims that count and the frames seen.                                    *)
LEMMA RefinementStep ==
  ASSUME IInv, [Next]_managerVars
  PROVE  [Abstract!ClaimNext]_(Abstract!claimVars)
<1> USE SessionAssumption
<1> DEFINE claim == [l \in Lifts |-> Live(l)]
           seen == [l \in Lifts |-> IF server[l] = Unseen THEN Free ELSE server[l]]
<1>0. /\ TypeOK
      /\ ClaimAgreesWithView
      /\ 0 \in 0..MaxAge
      /\ \A l \in Lifts : requestedAge[l] \in 0..MaxAge
  BY MaxAgeNat DEF IInv, TypeOK
<1>1. ASSUME claim' = claim, seen' = seen
      PROVE  UNCHANGED Abstract!claimVars
  BY <1>1 DEF Abstract!claimVars
<1>2. ASSUME NEW l \in Lifts, NEW s \in Holder, NEW granted \in BOOLEAN,
             TryAcquire(l, s, granted)
      PROVE  Abstract!ClaimNext \/ UNCHANGED Abstract!claimVars
  <2>1. seen' = seen
    BY <1>2 DEF TryAcquire
  <2>2. CASE s = Free
    <3>1. claim' = claim
      BY <1>2, <2>2 DEF TryAcquire, Live, Expired
    <3>2. QED
      BY <3>1, <2>1, <1>1
  <2>3. CASE s # Free /\ ~granted
    <3>1. SetRequest(l, Live(l), requestedAge[l])
      BY <1>2, <2>3 DEF TryAcquire
    <3>2. claim' = claim
      BY <3>1, <1>0, EvictionIsSilent
    <3>3. QED
      BY <3>2, <2>1, <1>1
  <2>4. CASE s # Free /\ granted
    <3>1. SetRequest(l, s, 0) /\ Acquirable(l, s)
      BY <1>2, <2>4 DEF TryAcquire
    <3>2. claim' = [claim EXCEPT ![l] = s]
      <4>1. ~(TTL > 0 /\ 0 > TTL)
        OBVIOUS
      <4>2. Live(l)' = s /\ \A k \in Lifts \ {l} : Live(k)' = Live(k)
        BY <3>1, <4>1, <1>0, SetRequestLive
      <4>3. QED
        BY <4>2
    <3>3. /\ Live(l) \in {requested[l], Free}
          /\ requested[l] # Free => server[l] \in {Unseen, Free, requested[l]}
      BY <1>0, LiveIsEntryOrFree DEF ClaimAgreesWithView
    <3>4. claim[l] \in {Free, s} /\ seen[l] \in {Free, s}
      BY <3>1, <3>3, <2>4 DEF Acquirable, ServerSaysFree, Holder
    <3>5. s \in Sessions
      BY <2>4 DEF Holder
    <3>6. Abstract!Claim(l, s)
      BY <3>2, <3>4, <2>1 DEF Abstract!Claim
    <3>7. QED
      BY <3>5, <3>6 DEF Abstract!ClaimNext
  <2>5. QED
    BY <2>2, <2>3, <2>4
<1>3. ASSUME NEW l \in Lifts, NEW s \in Sessions, NEW released \in BOOLEAN,
             Release(l, s, released)
      PROVE  Abstract!ClaimNext \/ UNCHANGED Abstract!claimVars
  <2>1. seen' = seen
    BY <1>3 DEF Release
  <2>2. CASE HeldBy(l, s)
    <3>1. SetRequest(l, Free, 0)
      BY <1>3, <2>2 DEF Release
    <3>2. claim' = [k \in Lifts |-> IF k \in {l} THEN Free ELSE claim[k]]
      BY <3>1, <1>0, SetRequestLive DEF Holder
    <3>3. Abstract!Drop({l})
      BY <3>2, <2>1 DEF Abstract!Drop
    <3>4. QED
      BY <3>3 DEF Abstract!ClaimNext
  <2>3. CASE ~HeldBy(l, s)
    <3>1. claim' = claim
      BY <1>3, <2>3 DEF Release, Live, Expired
    <3>2. QED
      BY <3>1, <2>1, <1>1
  <2>4. QED
    BY <2>2, <2>3
<1>4. ASSUME NEW l \in Lifts, NEW h \in Holder, ObserveServerState(l, h)
      PROVE  Abstract!ClaimNext
  <2>1. /\ SetRequest(l, IF Live(l) = h THEN h ELSE Free, requestedAge[l])
        /\ server' = [server EXCEPT ![l] = h]
    BY <1>4 DEF ObserveServerState
  <2>2. seen' = [seen EXCEPT ![l] = h]
    BY <2>1, <1>0 DEF TypeOK, Holder
  <2>3. Live(l)' = IF TTL > 0 /\ requestedAge[l] > TTL
                   THEN Free ELSE IF Live(l) = h THEN h ELSE Free
    BY <2>1, <1>0, SetRequestLive DEF Holder
  <2>4. \A k \in Lifts \ {l} : Live(k)' = Live(k)
    BY <2>1, <1>0, SetRequestLive DEF Holder
  <2>5. TTL > 0 /\ requestedAge[l] > TTL => Live(l) = Free
    BY DEF Live, Expired
  <2>6. Live(l)' = IF Live(l) = h THEN h ELSE Free
    BY <2>3, <2>5
  <2>7. claim' = [claim EXCEPT ![l] = IF claim[l] = h THEN h ELSE Free]
    BY <2>4, <2>6
  <2>8. Abstract!See(l, h)
    BY <2>2, <2>7 DEF Abstract!See
  <2>9. h \in Abstract!Holder
    BY DEF Abstract!Holder, Holder
  <2>10. QED
    BY <2>8, <2>9 DEF Abstract!ClaimNext
<1>5. ASSUME NEW l \in Lifts, NEW h \in Holder, CurrentHolder(l, h)
      PROVE  UNCHANGED Abstract!claimVars
  <2>1. claim' = claim
    BY <1>5, <1>0, EvictionIsSilent DEF CurrentHolder
  <2>2. seen' = seen
    BY <1>5 DEF CurrentHolder
  <2>3. QED
    BY <2>1, <2>2, <1>1
<1>6. CASE Tick
  <2> DEFINE gone == {l \in Lifts : Live(l)' = Free}
  <2>1. \A l \in Lifts : Live(l)' \in {Live(l), Free}
    BY <1>6, <1>0, MaxAgeNat DEF Tick, Live, Expired, TypeOK
  <2>2. claim' = [l \in Lifts |-> IF l \in gone THEN Free ELSE claim[l]]
    BY <2>1
  <2>3. seen' = seen
    BY <1>6 DEF Tick
  <2>4. Abstract!Drop(gone)
    BY <2>2, <2>3 DEF Abstract!Drop
  <2>5. QED
    BY <2>4 DEF Abstract!ClaimNext
<1>7. CASE Restart
  <2>1. claim' = [l \in Lifts |-> Free] /\ seen' = [l \in Lifts |-> Free]
    BY <1>7 DEF Restart, Live, Expired
  <2>2. QED
    BY <2>1 DEF Abstract!Forget, Abstract!ClaimNext
<1>8. CASE UNCHANGED managerVars
  <2>1. claim' = claim /\ seen' = seen
    BY <1>8 DEF managerVars, Live, Expired
  <2>2. QED
    BY <2>1, <1>1
<1>9. QED
  BY <1>2, <1>3, <1>4, <1>5, <1>6, <1>7, <1>8 DEF Next

(* The manager, dictionaries, ages and lazy eviction included, behaves like  *)
(* SessionClaim (ImplementsSessionClaim).                                    *)
THEOREM Refinement == Spec => ImplementsSessionClaim
<1>1. Init => Abstract!ClaimInit
  BY SessionAssumption DEF Init, Abstract!ClaimInit, Live, Expired
<1>2. IInv /\ [Next]_managerVars => [Abstract!ClaimNext]_(Abstract!claimVars)
  BY RefinementStep
<1>3. QED
  BY <1>1, <1>2, ManagerTypeOK, AgreementHolds, PTL
  DEF Spec, IInv, ImplementsSessionClaim, Abstract!ClaimSpec

=============================================================================
