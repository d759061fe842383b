-------------------------- MODULE HttpClientProofs --------------------------
(* Proofs about HttpClient, for any number of calls and tokens, any retry   *)
(* limits, and any lifetimes and jitters of the tokens.                     *)
EXTENDS HttpClient, TLAPS

(* A call is under way exactly between Post and Finish. *)
CallInHand ==
  /\ pc # "idle" => call \in Calls /\ outcome[call] = "pending"
  /\ \A c \in Calls : c > call => outcome[c] = "new"
  /\ \A c \in Calls : outcome[c] = "pending" => c = call /\ pc # "idle"
  /\ pc # "wait" => reply = "none"

(* The token of an attempt was in the cache, which only moves forward; a     *)
(* refused one has been replaced before the next turn of the loop begins.    *)
TokensAdvance ==
  /\ carried <= token
  /\ refused # 0 => refused < token
  /\ refused # 0 /\ pc = "wait" => carried > refused

(* What the server has done, and what the adapter knows of it. *)
ServerLedger ==
  /\ \A p \in net : outcome[p.call] # "new"
  /\ pc = "wait" /\ reply = "2xx" => effects[call] = 1
  /\ \A c \in Calls : outcome[c] = "ok" => effects[c] = 1
  /\ \A c \in Calls : effects[c] = 1 => outcome[c] # "new"

IInv == TypeOK /\ CallInHand /\ TokensAdvance /\ ServerLedger

-----------------------------------------------------------------------------
(* The operators the actions share                                          *)

(* Whatever get_token does, the cache keeps its type and no older token      *)
(* comes back; a token it returns is one, and a forced one is new.           *)
LEMMA GetTokenSteps ==
  ASSUME TokenTypeOK, NEW force \in BOOLEAN, NEW result, GetToken(force, result)
  PROVE  /\ TokenTypeOK'
         /\ token <= token'
         /\ result = "token" => token' \in 1..MaxTokens
         /\ result = "token" /\ force => token < token'
<1> USE TokenAssumption DEF TokenTypeOK
<1>1. CASE UNCHANGED tokenVars /\ (result = "token" => MayReuse(force))
  BY <1>1 DEF tokenVars, MayReuse
<1>2. CASE Mint
  BY <1>2 DEF Mint, FailureLimit
<1>3. CASE MintFails /\ result # "token"
  BY <1>3 DEF MintFails, FailureLimit
<1> QED BY <1>1, <1>2, <1>3 DEF GetToken, MintGarbled

(* The end of a call, with a failure or with an effect behind it. *)
LEMMA FinishSteps ==
  ASSUME IInv, NEW how \in {"ok"} \cup Failures, pc # "idle", Finish(how),
         how = "ok" => effects[call] = 1,
         TokenTypeOK', token <= token',
         UNCHANGED <<maxRetries, net, effects, revoked>>
  PROVE  IInv'
<1> USE HttpAssumption, TokenAssumption
<1>1. /\ call \in Calls /\ outcome[call] = "pending" /\ call' = call
      /\ pc' = "idle" /\ reply' = "none"
  BY DEF IInv, CallInHand, Finish
<1>2. /\ outcome' \in [Calls -> {"new", "pending", "ok"} \cup Failures]
      /\ outcome'[call] = how
      /\ \A c \in Calls \ {call} : outcome'[c] = outcome[c]
  BY <1>1 DEF Finish, IInv, TypeOK
<1>3. how \notin {"new", "pending"}
  BY DEF Failures
<1>4. TypeOK'
  BY <1>2 DEF Finish, IInv, TypeOK, TokenTypeOK
<1>5. CallInHand'
  BY <1>1, <1>2, <1>3 DEF IInv, TypeOK, CallInHand, Calls
<1>6. TokensAdvance'
  BY DEF Finish, IInv, TypeOK, TokenTypeOK, TokensAdvance
<1>7. ServerLedger'
  <2>1. \A p \in net : p.call \in Calls
    BY DEF IInv, TypeOK
  <2> QED BY <1>1, <1>2, <1>3, <2>1 DEF IInv, TypeOK, ServerLedger
<1> QED BY <1>4, <1>5, <1>6, <1>7 DEF IInv

LEMMA RetrySteps ==
  ASSUME IInv, NEW how \in Failures, pc # "idle", RetryOr(how),
         TokenTypeOK', token <= token',
         UNCHANGED <<maxRetries, net, effects, revoked>>
  PROVE  IInv'
<1>1. CASE attempt < maxRetries
  <2>1. attempt + 1 \in 0..maxRetries
    BY <1>1, HttpAssumption DEF IInv, TypeOK
  <2>2. TypeOK'
    BY <1>1, <2>1 DEF RetryOr, IInv, TypeOK
  <2>3. CallInHand' /\ ServerLedger'
    BY <1>1 DEF RetryOr, IInv, CallInHand, ServerLedger
  <2>4. TokensAdvance'
    BY <1>1, TokenAssumption DEF RetryOr, IInv, TypeOK, TokenTypeOK, TokensAdvance
  <2> QED BY <2>2, <2>3, <2>4 DEF IInv
<1>2. CASE ~(attempt < maxRetries)
  <2>1. Finish(how) /\ how # "ok"
    BY <1>2 DEF RetryOr, Failures
  <2> QED BY <2>1, FinishSteps
<1> QED BY <1>1, <1>2

-----------------------------------------------------------------------------
(* The steps of a call                                                      *)

LEMMA PostKeeps ==
  ASSUME IInv, Post
  PROVE  IInv'
<1> USE HttpAssumption DEF tokenVars
<1>1. call + 1 \in Calls /\ call' = call + 1 /\ call \in Nat
  BY DEF Post, IInv, TypeOK, Calls
<1>2. /\ outcome' \in [Calls -> {"new", "pending", "ok"} \cup Failures]
      /\ outcome'[call + 1] = "pending" /\ outcome[call + 1] = "new"
      /\ \A c \in Calls \ {call + 1} : outcome'[c] = outcome[c]
  BY <1>1 DEF Post, IInv, TypeOK, CallInHand
<1>3. TypeOK'
  BY <1>1, <1>2 DEF Post, IInv, TypeOK, TokenTypeOK, Calls
<1>4. CallInHand'
  BY <1>1, <1>2 DEF Post, IInv, CallInHand, Calls
<1>5. TokensAdvance'
  BY DEF Post, IInv, TokensAdvance
<1>6. ServerLedger'
  <2>1. \A p \in net : p.call \in Calls
    BY DEF IInv, TypeOK
  <2> QED BY <1>1, <1>2, <2>1 DEF Post, IInv, ServerLedger
<1> QED BY <1>3, <1>4, <1>5, <1>6 DEF IInv

LEMMA AttemptKeeps ==
  ASSUME IInv, Attempt
  PROVE  IInv'
<1> USE TokenAssumption
<1> DEFINE sent == [call |-> call, attempt |-> attempt, token |-> token']
<1>1. TokenTypeOK' /\ token <= token' /\ token' \in 1..MaxTokens
  BY GetTokenSteps DEF Attempt, IInv, TypeOK
<1>2. call \in Calls /\ outcome[call] = "pending" /\ reply \in {"none", "2xx", "401", "4xx", "5xx"}
  BY DEF Attempt, IInv, TypeOK, CallInHand
<1>3. sent \in [call : Calls, attempt : 0..maxRetries, token : 1..MaxTokens]
  BY <1>1, <1>2 DEF IInv, TypeOK
<1>4. TypeOK'
  BY <1>1, <1>3 DEF Attempt, IInv, TypeOK
<1>5. CallInHand'
  BY DEF Attempt, IInv, CallInHand
<1>6. TokensAdvance'
  BY <1>1 DEF Attempt, IInv, TypeOK, TokenTypeOK, TokensAdvance
<1>7. reply = "none"
  BY DEF Attempt, IInv, CallInHand
<1>8. ServerLedger'
  BY <1>2, <1>7 DEF Attempt, IInv, ServerLedger
<1> QED BY <1>4, <1>5, <1>6, <1>8 DEF IInv

LEMMA NoTokenKeeps ==
  ASSUME IInv, NoToken
  PROVE  IInv'
<1>1. PICK result \in {"transport", "auth"} :
        /\ GetToken(FALSE, result)
        /\ IF result = "transport" THEN RetryOr("connection") ELSE Finish("auth")
  BY DEF NoToken
<1>2. TokenTypeOK' /\ token <= token'
  BY <1>1, GetTokenSteps DEF IInv, TypeOK
<1>3. pc # "idle" /\ UNCHANGED <<maxRetries, net, effects, revoked>>
  BY DEF NoToken
<1>4. CASE result = "transport"
  <2>1. RetryOr("connection") /\ "connection" \in Failures
    BY <1>1, <1>4 DEF Failures
  <2> QED BY <1>2, <1>3, <2>1, RetrySteps
<1>5. CASE result = "auth"
  <2>1. Finish("auth") /\ "auth" \in {"ok"} \cup Failures /\ "auth" # "ok"
    BY <1>1, <1>5 DEF Failures
  <2> QED BY <1>2, <1>3, <2>1, FinishSteps
<1> QED BY <1>1, <1>4, <1>5

(* An attempt that is not followed by a token: failed, rejected or accepted. *)
LEMMA AnswersKeep ==
  ASSUME IInv, TransportFails \/ ServerFails \/ Rejected \/ Accepted
  PROVE  IInv'
<1>1. pc = "wait" /\ UNCHANGED <<tokenVars, maxRetries, net, effects, revoked>>
  BY DEF TransportFails, ServerFails, Rejected, Accepted
<1>2. TokenTypeOK' /\ token <= token'
  BY <1>1 DEF tokenVars, IInv, TypeOK, TokenTypeOK
<1>3. CASE TransportFails \/ ServerFails
  <2>1. PICK how \in Failures : RetryOr(how)
    BY <1>3 DEF TransportFails, ServerFails, Failures
  <2> QED BY <1>1, <1>2, <2>1, RetrySteps
<1>4. CASE Rejected
  <2>1. Finish("client") /\ "client" \in {"ok"} \cup Failures /\ "client" # "ok"
    BY <1>4 DEF Rejected, Failures
  <2> QED BY <1>1, <1>2, <2>1, FinishSteps
<1>5. CASE Accepted
  <2>1. Finish("ok") /\ effects[call] = 1
    BY <1>5 DEF Accepted, IInv, ServerLedger
  <2> QED BY <1>1, <1>2, <2>1, FinishSteps
<1> QED BY <1>3, <1>4, <1>5

LEMMA RefreshKeeps ==
  ASSUME IInv, Refresh
  PROVE  IInv'
<1>1. pc # "idle" /\ pc = "wait" /\ UNCHANGED <<maxRetries, net, effects, revoked>>
  BY DEF Refresh
<1>2. ASSUME NEW how \in Failures, NEW result, GetToken(TRUE, result), Finish(how)
      PROVE  IInv'
  <2>1. TokenTypeOK' /\ token <= token' /\ how # "ok"
    BY <1>2, GetTokenSteps DEF IInv, TypeOK, Failures
  <2> QED BY <1>1, <1>2, <2>1, FinishSteps
<1>3. CASE /\ GetToken(TRUE, "token") /\ maxRetries > 0
           /\ pc' = "token" /\ attempt' = 1 /\ refused' = carried /\ reply' = "none"
           /\ UNCHANGED <<call, carried, outcome>>
  <2>1. TokenTypeOK' /\ token < token'
    BY <1>3, GetTokenSteps DEF IInv, TypeOK
  <2>2. TypeOK'
    BY <1>1, <1>3, <2>1, HttpAssumption DEF IInv, TypeOK
  <2>3. CallInHand' /\ ServerLedger'
    BY <1>1, <1>3 DEF IInv, CallInHand, ServerLedger
  <2>4. TokensAdvance'
    BY <1>3, <2>1, TokenAssumption DEF IInv, TypeOK, TokenTypeOK, TokensAdvance
  <2> QED BY <2>2, <2>3, <2>4 DEF IInv
<1>4. {"connection", "httpx", "auth"} \subseteq Failures
  BY DEF Failures
<1> QED BY <1>2, <1>3, <1>4 DEF Refresh

-----------------------------------------------------------------------------
(* The pumps, the clock and the server                                      *)

LEMMA OthersKeep ==
  ASSUME IInv,
         \/ \E force \in BOOLEAN : PumpGetsToken(force)
         \/ TimePasses
         \/ Revoke
         \/ UNCHANGED vars
  PROVE  IInv'
<1>1. TokenTypeOK' /\ token <= token'
  <2>1. CASE \E force \in BOOLEAN : PumpGetsToken(force)
    BY <2>1, GetTokenSteps DEF PumpGetsToken, IInv, TypeOK
  <2>2. CASE TimePasses
    BY <2>2, TokenAssumption DEF TimePasses, Pass, IInv, TypeOK, TokenTypeOK
  <2>3. CASE Revoke \/ UNCHANGED vars
    BY <2>3 DEF Revoke, vars, tokenVars, IInv, TypeOK, TokenTypeOK
  <2> QED BY <2>1, <2>2, <2>3
<1>2. /\ UNCHANGED <<maxRetries, pc, call, attempt, carried, refused, reply, outcome, net, effects>>
      /\ revoked' \in 0..MaxTokens
  BY DEF PumpGetsToken, TimePasses, Revoke, vars, localVars, IInv, TypeOK, TokenTypeOK
<1>3. TypeOK' /\ CallInHand' /\ ServerLedger'
  BY <1>1, <1>2 DEF IInv, TypeOK, CallInHand, ServerLedger
<1>4. TokensAdvance'
  BY <1>1, <1>2, TokenAssumption DEF IInv, TypeOK, TokenTypeOK, TokensAdvance
<1> QED BY <1>3, <1>4 DEF IInv

LEMMA NetworkKeeps ==
  ASSUME IInv, NEW p \in net, LoseAttempt(p) \/ Serve(p)
  PROVE  IInv'
<1> USE DEF tokenVars, localVars
<1>1. /\ net' = net \ {p} /\ p.call \in Calls /\ outcome[p.call] # "new"
      /\ UNCHANGED <<tokenVars, maxRetries, pc, call, attempt, carried, refused, outcome, revoked>>
  BY DEF LoseAttempt, Serve, IInv, TypeOK, ServerLedger
<1>2. /\ effects' \in [Calls -> 0..1]
      /\ \A c \in Calls : effects[c] = 1 => effects'[c] = 1
      /\ \A c \in Calls : effects'[c] = 1 => effects[c] = 1 \/ c = p.call
  BY <1>1 DEF LoseAttempt, Serve, IInv, TypeOK
<1>3. \/ UNCHANGED reply
      \/ /\ pc = "wait" /\ p.call = call /\ reply' \in {"none", "2xx", "401", "4xx", "5xx"}
         /\ reply' = "2xx" => effects'[call] = 1
  BY <1>1 DEF LoseAttempt, Serve, AnswerTo, IInv, TypeOK
<1>4. TypeOK'
  BY <1>1, <1>2, <1>3 DEF IInv, TypeOK, TokenTypeOK
<1>5. CallInHand' /\ TokensAdvance'
  BY <1>1, <1>3 DEF IInv, CallInHand, TokensAdvance
<1>6. ServerLedger'
  BY <1>1, <1>2, <1>3 DEF IInv, ServerLedger, CallInHand
<1> QED BY <1>4, <1>5, <1>6 DEF IInv

-----------------------------------------------------------------------------
(* Every reachable state is as the invariant says. *)
THEOREM HttpInvariance == HttpSpec => []IInv
<1>1. HttpInit => IInv
  <2> SUFFICES ASSUME HttpInit PROVE IInv
    OBVIOUS
  <2>1. TypeOK
    BY HttpAssumption, TokenAssumption DEF HttpInit, TokenInit, TypeOK, TokenTypeOK, FailureLimit
  <2> QED BY <2>1 DEF HttpInit, TokenInit, IInv, CallInHand, TokensAdvance, ServerLedger
<1>2. IInv /\ [HttpNext]_vars => IInv'
  BY PostKeeps, AttemptKeeps, NoTokenKeeps, AnswersKeep, RefreshKeeps, OthersKeep, NetworkKeeps
     DEF HttpNext
<1> QED BY <1>1, <1>2, PTL DEF HttpSpec

(* The variables keep to their types: the attempt never exceeds the retry    *)
(* limit, and the server carries no call out twice.                          *)
THEOREM HttpTypeOK == HttpSpec => []TypeOK
<1>1. IInv => TypeOK
  BY DEF IInv
<1> QED BY <1>1, HttpInvariance, PTL

(* No attempt of a call carries a token the server refused to this call      *)
(* (http.py:310), whatever the pumps do to the shared cache in between.      *)
THEOREM RetriesCarryNewTokens == HttpSpec => []RetryCarriesNewToken
<1>1. IInv => RetryCarriesNewToken
  BY DEF IInv, TokensAdvance, RetryCarriesNewToken
<1> QED BY <1>1, HttpInvariance, PTL

-----------------------------------------------------------------------------
(* The refinement: a call is what its outcome says, its effect what the      *)
(* server has counted.                                                       *)

Status == [c \in Calls |-> IF outcome[c] \in Failures THEN "error" ELSE outcome[c]]

Effect == [c \in Calls |-> effects[c] = 1]

LEMMA FinishReturns ==
  ASSUME IInv, NEW how \in {"ok"} \cup Failures, pc # "idle", Finish(how),
         how = "ok" => effects[call] = 1, UNCHANGED effects
  PROVE  \E c \in Calls : Remote!ReturnOk(c) \/ Remote!ReturnError(c)
<1>1. PICK c \in Calls : c = call
  BY DEF IInv, CallInHand
<1>2. Status[c] = "pending" /\ (how = "ok" => Effect[c])
  BY <1>1 DEF Status, Effect, Failures, IInv, CallInHand
<1>3. Effect' = Effect
  BY DEF Effect
<1>4. Status' = [Status EXCEPT ![c] = IF how = "ok" THEN "ok" ELSE "error"]
  <2>1. outcome' = [outcome EXCEPT ![call] = how] /\ outcome \in [Calls -> {"new", "pending", "ok"} \cup Failures]
    BY DEF Finish, IInv, TypeOK
  <2>2. "ok" \notin Failures
    BY DEF Failures
  <2> QED BY <1>1, <2>1, <2>2 DEF Status
<1>5. CASE how = "ok"
  <2>1. Remote!ReturnOk(c)
    BY <1>2, <1>3, <1>4, <1>5 DEF Remote!ReturnOk, Status, Effect
  <2> QED BY <1>1, <2>1
<1>6. CASE how # "ok"
  <2>1. Remote!ReturnError(c)
    BY <1>2, <1>3, <1>4, <1>6 DEF Remote!ReturnError, Status, Effect
  <2> QED BY <1>1, <2>1
<1> QED BY <1>5, <1>6

LEMMA QuietSteps ==
  ASSUME UNCHANGED <<outcome, effects>>
  PROVE  UNCHANGED Remote!callVars
BY DEF Remote!callVars

LEMMA RetryReturns ==
  ASSUME IInv, NEW how \in Failures, pc # "idle", RetryOr(how), UNCHANGED effects
  PROVE  [Remote!CallNext]_Remote!callVars
<1>1. CASE attempt < maxRetries
  BY <1>1, QuietSteps DEF RetryOr
<1>2. CASE ~(attempt < maxRetries)
  <2>1. Finish(how) /\ how # "ok"
    BY <1>2 DEF RetryOr, Failures
  <2> QED BY <2>1, FinishReturns DEF Remote!CallNext
<1> QED BY <1>1, <1>2

LEMMA ServeRefines ==
  ASSUME IInv, NEW p \in net, Serve(p)
  PROVE  [Remote!CallNext]_Remote!callVars
<1>1. p.call \in Calls /\ outcome[p.call] # "new" /\ UNCHANGED outcome
  BY DEF Serve, IInv, TypeOK, ServerLedger
<1>2. CASE UNCHANGED effects
  BY <1>1, <1>2, QuietSteps
<1>3. CASE effects' = [effects EXCEPT ![p.call] = 1]
  <2>1. CASE effects[p.call] = 1
    <3>1. effects' = effects
      BY <1>1, <1>3, <2>1 DEF IInv, TypeOK
    <3> QED BY <1>2, <3>1
  <2>2. CASE effects[p.call] # 1
    <3>1. Status[p.call] \in {"pending", "error"}
      BY <1>1, <2>2 DEF Status, IInv, TypeOK, ServerLedger
    <3>2. ~Effect[p.call] /\ Effect' = [Effect EXCEPT ![p.call] = TRUE] /\ Status' = Status
      BY <1>1, <1>3, <2>2 DEF Effect, Status, IInv, TypeOK
    <3>3. Remote!TakeEffect(p.call)
      BY <3>1, <3>2 DEF Remote!TakeEffect, Status, Effect
    <3> QED BY <1>1, <3>3 DEF Remote!CallNext
  <2> QED BY <2>1, <2>2
<1> QED BY <1>2, <1>3 DEF Serve

LEMMA StepRefines ==
  ASSUME IInv, [HttpNext]_vars
  PROVE  [Remote!CallNext]_Remote!callVars
<1>1. CASE Post
  <2>1. PICK c \in Calls : c = call + 1
    BY <1>1, HttpAssumption DEF Post, IInv, TypeOK, Calls
  <2>2. outcome[c] = "new" /\ UNCHANGED effects
    BY <1>1, <2>1 DEF Post, IInv, TypeOK, CallInHand, Calls
  <2>3. Status[c] = "new" /\ Status' = [Status EXCEPT ![c] = "pending"]
    BY <1>1, <2>1, <2>2 DEF Post, Status, Failures, IInv, TypeOK
  <2>4. Remote!Begin(c)
    BY <2>2, <2>3 DEF Remote!Begin, Status, Effect
  <2> QED BY <2>4 DEF Remote!CallNext
<1>2. CASE NoToken \/ TransportFails \/ ServerFails
  <2>1. pc # "idle" /\ UNCHANGED effects
    BY <1>2 DEF NoToken, TransportFails, ServerFails
  <2>2. \/ \E how \in Failures : RetryOr(how)
        \/ Finish("auth")
    BY <1>2 DEF NoToken, TransportFails, ServerFails, Failures
  <2>3. "auth" \in Failures /\ "auth" # "ok"
    BY DEF Failures
  <2> QED BY <2>1, <2>2, <2>3, RetryReturns, FinishReturns DEF Remote!CallNext
<1>3. CASE Refresh \/ Rejected \/ Accepted
  <2>1. pc # "idle" /\ UNCHANGED effects
    BY <1>3 DEF Refresh, Rejected, Accepted
  <2>2. \/ UNCHANGED outcome
        \/ \E how \in Failures : Finish(how)
        \/ Finish("ok") /\ effects[call] = 1
    BY <1>3 DEF Refresh, Rejected, Accepted, Failures, IInv, ServerLedger
  <2>3. "ok" \notin Failures
    BY DEF Failures
  <2> QED BY <2>1, <2>2, <2>3, QuietSteps, FinishReturns DEF Remote!CallNext
<1>4. ASSUME NEW p \in net, Serve(p)
      PROVE  [Remote!CallNext]_Remote!callVars
  BY <1>4, ServeRefines
<1>5. CASE \/ Attempt
           \/ \E force \in BOOLEAN : PumpGetsToken(force)
           \/ TimePasses
           \/ \E p \in net : LoseAttempt(p)
           \/ Revoke
           \/ UNCHANGED vars
  BY <1>5, QuietSteps DEF Attempt, PumpGetsToken, TimePasses, LoseAttempt, Revoke, vars, localVars
<1> QED BY <1>1, <1>2, <1>3, <1>4, <1>5 DEF HttpNext

(* Every call of the client is a RemoteCall: "ok" is returned only for what  *)
(* the server has carried out, through every retry, refresh and late copy    *)
(* (http.py:290-331).                                                        *)
THEOREM ClientImplementsRemoteCall == HttpSpec => ImplementsRemoteCall
<1>1. HttpInit => Remote!CallInit
  <2> SUFFICES ASSUME HttpInit PROVE Remote!CallInit
    OBVIOUS
  <2>1. \A c \in Calls : outcome[c] = "new" /\ effects[c] # 1
    BY DEF HttpInit
  <2>2. Status = [c \in Calls |-> "new"]
    BY <2>1 DEF Status, Failures
  <2>3. Effect = [c \in Calls |-> FALSE]
    BY <2>1, Zenon DEF Effect
  <2> QED BY <2>2, <2>3 DEF Remote!CallInit, Status, Effect
<1> QED BY <1>1, StepRefines, HttpInvariance, PTL
        DEF HttpSpec, ImplementsRemoteCall, Remote!CallSpec

(* A token taken from the cache has not expired: what the margin and a       *)
(* negative jitter would let pass, the test for an expired token does not    *)
(* (auth.py:75-92).                                                          *)
THEOREM CachedTokensAreLive == HttpSpec => HandsOutLiveTokens
<1>1. IInv => (Attempt /\ token' = token => remaining > 0)
  <2> SUFFICES ASSUME IInv, Attempt, token' = token PROVE remaining > 0
    OBVIOUS
  <2>1. token \in Nat /\ remaining \in Nat
    BY TokenAssumption DEF IInv, TypeOK, TokenTypeOK
  <2>2. ~Mint
    BY <2>1 DEF Mint
  <2>3. MayReuse(FALSE)
    BY <2>2, Zenon DEF Attempt, GetToken
  <2>4. PICK j \in -Jitter..Jitter : ~ShouldRefresh(j)
    BY <2>3 DEF MayReuse
  <2> QED BY <2>1, <2>4 DEF ShouldRefresh
<1> QED BY <1>1, HttpInvariance, PTL DEF HttpSpec, HandsOutLiveTokens

-----------------------------------------------------------------------------
(* Calls are bounded                                                        *)

(* The steps a call has at most left, its own and no one else's. *)
StepsLeft ==
  IF pc = "idle" THEN 0 ELSE 2 * (maxRetries - attempt) + (IF pc = "token" THEN 2 ELSE 1)

LEMMA StepsLeftIsBounded ==
  ASSUME IInv
  PROVE  StepsLeft \in 0..(2 * maxRetries + 2)
BY HttpAssumption DEF IInv, TypeOK, StepsLeft

(* A turn of the loop, or its end, is a step further. *)
LEMMA RetryAdvances ==
  ASSUME IInv, pc # "idle", NEW how, RetryOr(how) \/ Finish(how), maxRetries' = maxRetries
  PROVE  StepsLeft' < StepsLeft
<1>1. maxRetries \in Nat /\ attempt \in 0..maxRetries /\ pc \in {"token", "wait"}
  BY HttpAssumption DEF IInv, TypeOK
<1>2. CASE Finish(how)
  BY <1>1, <1>2 DEF Finish, StepsLeft
<1>3. CASE attempt < maxRetries /\ pc' = "token" /\ attempt' = attempt + 1
  BY <1>1, <1>3 DEF StepsLeft
<1> QED BY <1>2, <1>3 DEF RetryOr

(* Every step of a call is one of at most 2 * maxRetries + 2, and nothing    *)
(* else gives it steps back: neither the server's answers, nor the pumps     *)
(* that use the same token cache, nor the passing of time (http.py:289-331). *)
(* Only the next Post starts again.                                          *)
THEOREM CallsAdvance ==
  HttpSpec => /\ [](StepsLeft \in 0..(2 * maxRetries + 2))
              /\ [][/\ CallStep => StepsLeft' < StepsLeft
                    /\ StepsLeft' > StepsLeft => Post]_vars
<1> DEFINE Advances == /\ CallStep => StepsLeft' < StepsLeft
                       /\ StepsLeft' > StepsLeft => Post
<1>1. IInv /\ IInv' /\ [HttpNext]_vars => [Advances]_vars
  <2> SUFFICES ASSUME IInv, IInv', HttpNext PROVE Advances
    OBVIOUS
  <2>0. /\ maxRetries \in Nat /\ attempt \in 0..maxRetries /\ pc \in {"idle", "token", "wait"}
        /\ StepsLeft \in Nat
    BY HttpAssumption DEF IInv, TypeOK, StepsLeft
  <2>5. StepsLeft' \in Nat
    <3>1. maxRetries' \in Nat /\ attempt' \in 0..maxRetries'
      BY HttpAssumption DEF IInv, TypeOK
    <3>2. \A m \in Nat : \A a \in 0..m : 2 * (m - a) + 2 \in Nat /\ 2 * (m - a) + 1 \in Nat
      OBVIOUS
    <3>3. /\ 2 * (maxRetries' - attempt') + 2 \in Nat
          /\ 2 * (maxRetries' - attempt') + 1 \in Nat
      BY <3>1, <3>2, Zenon
    <3> QED BY <3>3 DEF StepsLeft
  <2>1. CASE Post
    <3>1. ~CallStep
      BY <2>1 DEF Post, CallStep, Attempt, NoToken, TransportFails, ServerFails, Refresh,
                  Rejected, Accepted
    <3> QED BY <2>1, <3>1
  <2>2. ASSUME CallStep PROVE StepsLeft' < StepsLeft
    <3>1. CASE Attempt
      BY <2>0, <3>1 DEF Attempt, StepsLeft
    <3>2. CASE NoToken \/ TransportFails \/ ServerFails \/ Rejected \/ Accepted
      <4>1. /\ pc # "idle" /\ maxRetries' = maxRetries
            /\ \E how \in {"ok"} \cup Failures : RetryOr(how) \/ Finish(how)
        BY <3>2 DEF NoToken, TransportFails, ServerFails, Rejected, Accepted, Failures
      <4> QED BY <4>1, <2>0, RetryAdvances
    <3>3. CASE Refresh
      <4>1. /\ pc = "wait" /\ maxRetries' = maxRetries /\ attempt = 0
            /\ \/ \E how \in Failures : Finish(how)
               \/ maxRetries > 0 /\ pc' = "token" /\ attempt' = 1
        BY <3>3 DEF Refresh, Failures
      <4>2. CASE maxRetries > 0 /\ pc' = "token" /\ attempt' = 1
        BY <2>0, <4>1, <4>2 DEF StepsLeft
      <4> QED BY <4>1, <4>2, RetryAdvances
    <3> QED BY <2>2, <3>1, <3>2, <3>3 DEF CallStep
  <2>3. CASE CallStep
    BY <2>0, <2>2, <2>3, <2>5
  <2>4. CASE \/ \E force \in BOOLEAN : PumpGetsToken(force)
             \/ TimePasses
             \/ \E p \in net : LoseAttempt(p)
             \/ \E p \in net : Serve(p)
             \/ Revoke
    <3>1. UNCHANGED <<maxRetries, pc, attempt>>
      BY <2>4 DEF PumpGetsToken, TimePasses, LoseAttempt, Serve, Revoke, localVars
    <3> QED BY <2>0, <2>2, <3>1 DEF StepsLeft
  <2> QED BY <2>1, <2>3, <2>4 DEF HttpNext, CallStep
<1>2. IInv => StepsLeft \in 0..(2 * maxRetries + 2)
  BY StepsLeftIsBounded
<1> QED BY <1>1, <1>2, HttpInvariance, PTL DEF HttpSpec
=============================================================================
