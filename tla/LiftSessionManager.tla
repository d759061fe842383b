------------------------- MODULE LiftSessionManager -------------------------
(***************************************************************************)
(* lift_adapter_quiksync/session_manager.py: the adapter-side occupant     *)
(* lock, one entry per lift.  Every method runs under one RLock, so each   *)
(* is one action.  The rclpy thread calls TryAcquire and Release, the      *)
(* asyncio thread ObserveServerState.                                      *)
(*                                                                         *)
(* _requested_at is kept as the age of the entry: the code only ever asks  *)
(* whether now - requested_at > ttl_seconds, so ages above the TTL are     *)
(* equal for it and the age saturates just above.                          *)
(***************************************************************************)
EXTENDS Integers

CONSTANTS Lifts, Sessions,
          Free,    \* an absent _requested entry; "" in a state frame
          Unseen,  \* an absent _server entry: no frame seen yet
          TTL      \* ttl_seconds, in ticks; <= 0 disables eviction

ASSUME SessionAssumption ==
  /\ Free \notin Sessions
  /\ Unseen \notin Sessions
  /\ Free # Unseen
  /\ TTL \in Int

VARIABLES requested,     \* _requested[l]
          requestedAge,  \* time.time() - _requested_at[l], saturating
          server         \* _server[l]

managerVars == <<requested, requestedAge, server>>

Holder == Sessions \cup {Free}
MaxAge == IF TTL > 0 THEN TTL + 1 ELSE 0

TypeOK ==
  /\ requested \in [Lifts -> Holder]
  /\ requestedAge \in [Lifts -> 0..MaxAge]
  /\ server \in [Lifts -> Holder \cup {Unseen}]

(* _evict_stale_locked: what is left of the entry once a stale one is gone *)
Expired(l) == TTL > 0 /\ requestedAge[l] > TTL
Live(l) == IF Expired(l) THEN Free ELSE requested[l]

(* Write the entry of lift l; a session it keeps keeps its age. *)
SetRequest(l, s, age) ==
  /\ requested' = [requested EXCEPT ![l] = s]
  /\ requestedAge' = [requestedAge EXCEPT ![l] = IF s = Free THEN 0 ELSE age]

ServerSaysFree(l) == server[l] \in {Free, Unseen}

(* Fault: the "and not current_server" of the free case forgotten. *)
AcquirableIgnoringServer(l, s) == Live(l) \in {Free, s}

Acquirable(l, s) ==
  \/ Live(l) = Free /\ ServerSaysFree(l)
  \/ Live(l) = s
  \/ server[l] = s

(* Fault: the attempt forgets to evict. *)
TryAcquireWithoutEvicting(l, s, granted) ==
  /\ s # Free
  /\ granted = ((requested[l] = Free /\ ServerSaysFree(l)) \/ s \in {requested[l], server[l]})
  /\ IF granted THEN SetRequest(l, s, 0) ELSE UNCHANGED <<requested, requestedAge>>
  /\ UNCHANGED server

TryAcquire(l, s, granted) ==
  /\ UNCHANGED server
  /\ \/ /\ s = Free            \* an empty session id is refused untouched
        /\ granted = FALSE
        /\ UNCHANGED <<requested, requestedAge>>
     \/ /\ s # Free
        /\ granted = Acquirable(l, s)
        /\ IF granted THEN SetRequest(l, s, 0)
                      ELSE SetRequest(l, Live(l), requestedAge[l])

(* release() does not evict first. *)
HeldBy(l, s) == requested[l] = s \/ server[l] = s

(* Fault: any END_SESSION pops the entry. *)
ReleaseUnchecked(l, s, released) ==
  /\ released = TRUE
  /\ SetRequest(l, Free, 0)
  /\ UNCHANGED server

Release(l, s, released) ==
  /\ released = (HeldBy(l, s) \/ (requested[l] = Free /\ ServerSaysFree(l)))
  /\ IF HeldBy(l, s) THEN SetRequest(l, Free, 0)
                     ELSE UNCHANGED <<requested, requestedAge>>
  /\ UNCHANGED server

(* Fault: a frame without a session leaves the entry alone. *)
ObserveOnlyNamedHolders(l, h) ==
  /\ server' = [server EXCEPT ![l] = h]
  /\ SetRequest(l, IF h \in {Free, Live(l)} THEN Live(l) ELSE Free, requestedAge[l])

(* A frame names the holder h, or Free.  An entry of h survives, but is not *)
(* refreshed; any other entry is cleared.                                   *)
ObserveServerState(l, h) ==
  /\ server' = [server EXCEPT ![l] = h]
  /\ SetRequest(l, IF Live(l) = h THEN h ELSE Free, requestedAge[l])

CurrentHolder(l, holder) ==
  /\ holder = IF server[l] = Unseen THEN Live(l) ELSE server[l]
  /\ SetRequest(l, Live(l), requestedAge[l])
  /\ UNCHANGED server

(* Fault: the age of an entry outlives the entry. *)
TickUnbounded ==
  /\ requestedAge' = [l \in Lifts |-> requestedAge[l] + 1]
  /\ UNCHANGED <<requested, server>>

(* time.time() moves on, for every entry at once. *)
Tick ==
  /\ requestedAge' = [l \in Lifts |->
        IF requested[l] # Free /\ requestedAge[l] < MaxAge
        THEN requestedAge[l] + 1 ELSE requestedAge[l]]
  /\ UNCHANGED <<requested, server>>

(* The process is restarted: the node builds a fresh manager. *)
Restart ==
  /\ requested' = [l \in Lifts |-> Free]
  /\ requestedAge' = [l \in Lifts |-> 0]
  /\ server' = [l \in Lifts |-> Unseen]

(* __init__ *)
Init ==
  /\ requested = [l \in Lifts |-> Free]
  /\ requestedAge = [l \in Lifts |-> 0]
  /\ server = [l \in Lifts |-> Unseen]

Next ==
  \/ \E l \in Lifts, s \in Holder, granted \in BOOLEAN : TryAcquire(l, s, granted)
  \/ \E l \in Lifts, s \in Sessions, released \in BOOLEAN : Release(l, s, released)
  \/ \E l \in Lifts, h \in Holder : ObserveServerState(l, h)
  \/ \E l \in Lifts, h \in Holder : CurrentHolder(l, h)
  \/ Tick
  \/ Restart

Spec == Init /\ [][Next]_managerVars

(* Only a call evicts, so a claim that its fleet has forgotten depends on the *)
(* attempts of the other sessions: those keep coming, and time passes.        *)
ContestedAttempt(l) ==
  /\ requested[l] # Free
  /\ \E s \in Sessions \ {requested[l]}, granted \in BOOLEAN : TryAcquire(l, s, granted)

FairSpec ==
  /\ Spec
  /\ WF_managerVars(Tick)
  /\ \A l \in Lifts : WF_managerVars(ContestedAttempt(l))

-----------------------------------------------------------------------------
(* The two views of a lift never name two different sessions: while the     *)
(* adapter honours a claim, the last frame named that session or nobody.    *)
(* release() and try_acquire() test the two views with "or" and are only    *)
(* right because of this.                                                   *)
ClaimAgreesWithView ==
  \A l \in Lifts :
    requested[l] # Free => server[l] \in {Unseen, Free, requested[l]}

(* A claim is lost only by right: its own session released it, a frame named *)
(* somebody else or nobody, its TTL ran out, or the process restarted.  In   *)
(* particular no release by another session pops it, although release() also *)
(* accepts a caller that only the server view names, and no attempt of       *)
(* another session overwrites it.                                            *)
ClaimLostByRight ==
  [][\A l \in Lifts :
       requested[l] # Free /\ requested'[l] # requested[l] =>
         /\ \/ Release(l, requested[l], TRUE)
            \/ \E h \in Holder \ {requested[l]} : ObserveServerState(l, h)
            \/ Expired(l)
            \/ Restart
         /\ \A s \in Sessions \ {requested[l]} : ~Release(l, s, TRUE)]_managerVars

(* Clocks and dictionaries forgotten, the manager is a SessionClaim: an     *)
(* expired entry counts as no claim although it is still in the dictionary  *)
(* until the next call evicts it.                                           *)
Abstract == INSTANCE SessionClaim WITH
  claim <- [l \in Lifts |-> Live(l)],
  seen <- [l \in Lifts |-> IF server[l] = Unseen THEN Free ELSE server[l]]

ImplementsSessionClaim == Abstract!ClaimSpec

(* With a TTL, a session that stops asking loses its claim if the server    *)
(* does not confirm it: either it keeps acquiring, or the server view keeps *)
(* naming it, or the entry is gone again and again.                         *)
UnrefreshedClaimLapses ==
  \A l \in Lifts, s \in Sessions :
    \/ []<><<TryAcquire(l, s, TRUE)>>_managerVars
    \/ []<>(server[l] = s)
    \/ []<>(requested[l] # s)

(* config.py:31 and state_pump.py:9: a state frame that confirms the        *)
(* session refreshes its TTL.  ObserveServerState leaves _requested_at.     *)
FrameRefreshesClaim ==
  [][\A l \in Lifts, s \in Sessions :
       ObserveServerState(l, s) /\ Live(l) = s => requestedAge'[l] = 0]_managerVars
=============================================================================
