----------------------------- MODULE HttpClient -----------------------------
(***************************************************************************)
(* quiksync_client/http.py: _request_json for POSTs with an execution_id,  *)
(* one call after the other on the rclpy thread, sharing the token cache   *)
(* with the state pumps on the asyncio thread.  Attempts are lost, late or *)
(* answered late; the server remembers the execution_ids it carried out.   *)
(***************************************************************************)
EXTENDS TokenCache

CONSTANTS MaxCalls,    \* bound: calls
          RetryLimits  \* values of HttpConfig.max_retries

ASSUME HttpAssumption == MaxCalls \in Nat /\ RetryLimits \subseteq Nat

VARIABLES
  maxRetries,  \* HttpConfig.max_retries
  pc,          \* "idle", "token", "wait"
  call,        \* the current call's execution_id; the last one's when idle
  attempt,     \* the loop variable
  carried,     \* token of the current attempt
  refused,     \* token the server answered 401 to in this call, or 0
  reply,       \* response to the current attempt
  outcome,     \* per call: how it ended
  net,         \* attempts on their way to the server
  effects,     \* server: how often it carried out each call
  revoked      \* server: tokens up to this number are refused

localVars == <<pc, call, attempt, carried, refused, reply, outcome>>
vars == <<tokenVars, maxRetries, localVars, net, effects, revoked>>

Calls == 1..MaxCalls
Failures == {"client", "server", "connection", "auth", "httpx"}

TypeOK ==
  /\ TokenTypeOK
  /\ maxRetries \in RetryLimits
  /\ pc \in {"idle", "token", "wait"}
  /\ call \in 0..MaxCalls
  /\ attempt \in 0..maxRetries
  /\ carried \in 0..MaxTokens /\ refused \in 0..MaxTokens
  /\ reply \in {"none", "2xx", "401", "4xx", "5xx"}
  /\ outcome \in [Calls -> {"new", "pending", "ok"} \cup Failures]
  /\ net \subseteq [call : Calls, attempt : 0..maxRetries, token : 1..MaxTokens]
  /\ effects \in [Calls -> 0..1]
  /\ revoked \in 0..MaxTokens

HttpInit ==
  /\ TokenInit
  /\ maxRetries \in RetryLimits
  /\ pc = "idle" /\ call = 0 /\ attempt = 0 /\ carried = 0 /\ refused = 0
  /\ reply = "none"
  /\ outcome = [c \in Calls |-> "new"]
  /\ net = {}
  /\ effects = [c \in Calls |-> 0]
  /\ revoked = 0

-----------------------------------------------------------------------------
Finish(how) ==
  /\ pc' = "idle"
  /\ outcome' = [outcome EXCEPT ![call] = how]
  /\ attempt' = 0 /\ carried' = 0 /\ refused' = 0 /\ reply' = "none"
  /\ UNCHANGED call

(* Fault: the last turn of the loop counted one short. *)
RetryOnceMoreOr(how) ==
  IF attempt <= maxRetries
  THEN /\ pc' = "token"
       /\ attempt' = attempt + 1
       /\ reply' = "none"
       /\ UNCHANGED <<call, carried, refused, outcome>>
  ELSE Finish(how)

(* Fault: the loop test forgotten. *)
RetryAlways(how) ==
  /\ pc' = "token"
  /\ reply' = "none"
  /\ UNCHANGED <<call, attempt, carried, refused, outcome>>

(* The next turn of the loop, or "how" when this was the last. *)
RetryOr(how) ==
  IF attempt < maxRetries
  THEN /\ pc' = "token"
       /\ attempt' = attempt + 1
       /\ reply' = "none"
       /\ UNCHANGED <<call, carried, refused, outcome>>
  ELSE Finish(how)

Post ==
  /\ pc = "idle" /\ call < MaxCalls
  /\ call' = call + 1
  /\ pc' = "token"
  /\ outcome' = [outcome EXCEPT ![call + 1] = "pending"]
  /\ UNCHANGED <<tokenVars, maxRetries, attempt, carried, refused, reply, net, effects, revoked>>

(* The top of the loop: a token, then the attempt leaves. *)
Attempt ==
  /\ pc = "token"
  /\ GetToken(FALSE, "token")
  /\ pc' = "wait"
  /\ carried' = token'
  /\ net' = net \cup {[call |-> call, attempt |-> attempt, token |-> token']}
  /\ UNCHANGED <<maxRetries, call, attempt, refused, reply, outcome, effects, revoked>>

(* The mint fails: a transport failure is an httpx.HTTPError like that of    *)
(* the POST itself, an AuthError passes through.                             *)
NoToken ==
  /\ pc = "token"
  /\ \/ GetToken(FALSE, "transport") /\ RetryOr("connection")
     \/ GetToken(FALSE, "auth") /\ Finish("auth")
  /\ UNCHANGED <<maxRetries, net, effects, revoked>>

(* Timeout, refused or broken connection: nothing is known of the attempt. *)
TransportFails ==
  /\ pc = "wait" /\ reply = "none"
  /\ RetryOr("connection")
  /\ UNCHANGED <<tokenVars, maxRetries, net, effects, revoked>>

ServerFails ==
  /\ pc = "wait" /\ reply = "5xx"
  /\ RetryOr("server")
  /\ UNCHANGED <<tokenVars, maxRetries, net, effects, revoked>>

(* A 401 to the first attempt only: refresh outside the try, then continue.  *)
(* Without a second turn the loop ends in the raise below it.                *)
Refresh ==
  /\ pc = "wait" /\ reply = "401" /\ attempt = 0
  /\ \/ /\ GetToken(TRUE, "token")
        /\ IF maxRetries > 0
           THEN /\ pc' = "token" /\ attempt' = 1 /\ refused' = carried /\ reply' = "none"
                /\ UNCHANGED <<call, carried, outcome>>
           ELSE Finish("connection")
     \/ GetToken(TRUE, "transport") /\ Finish("httpx")
     \/ GetToken(TRUE, "auth") /\ Finish("auth")
  /\ UNCHANGED <<maxRetries, net, effects, revoked>>

Rejected ==
  /\ pc = "wait"
  /\ reply = "4xx" \/ (reply = "401" /\ attempt > 0)
  /\ Finish("client")
  /\ UNCHANGED <<tokenVars, maxRetries, net, effects, revoked>>

(* Fault: any answer counts as success. *)
AcceptedAnyhow ==
  /\ pc = "wait" /\ reply # "none"
  /\ Finish("ok")
  /\ UNCHANGED <<tokenVars, maxRetries, net, effects, revoked>>

Accepted ==
  /\ pc = "wait" /\ reply = "2xx"
  /\ Finish("ok")
  /\ UNCHANGED <<tokenVars, maxRetries, net, effects, revoked>>

-----------------------------------------------------------------------------
(* The asyncio thread: a subscription fetches a token, by force after a 401. *)
PumpGetsToken(force) ==
  /\ \E result \in {"token", "auth", "transport"} : GetToken(force, result)
  /\ UNCHANGED <<maxRetries, localVars, net, effects, revoked>>

TimePasses ==
  /\ Pass
  /\ UNCHANGED <<maxRetries, localVars, net, effects, revoked>>

-----------------------------------------------------------------------------
(* The network and the server (external)                                    *)

LoseAttempt(p) ==
  /\ p \in net
  /\ net' = net \ {p}
  /\ UNCHANGED <<tokenVars, maxRetries, localVars, effects, revoked>>

AnswerTo(p, code) ==
  IF pc = "wait" /\ p.call = call /\ p.attempt = attempt
  THEN reply' \in {code, "none"}
  ELSE UNCHANGED reply

TokenRefused(t) == t <= revoked \/ (t = token /\ remaining = 0)

Serve(p) ==
  /\ p \in net
  /\ net' = net \ {p}
  /\ \/ AnswerTo(p, "5xx") /\ UNCHANGED effects
     \/ /\ TokenRefused(p.token)
        /\ AnswerTo(p, "401") /\ UNCHANGED effects
     \/ /\ ~TokenRefused(p.token)
        /\ \/ /\ \E code \in {"2xx", "5xx"} : AnswerTo(p, code)
              /\ effects' = [effects EXCEPT ![p.call] = 1]
           \/ effects[p.call] = 0 /\ AnswerTo(p, "4xx") /\ UNCHANGED effects
  /\ UNCHANGED <<tokenVars, maxRetries, pc, call, attempt, carried, refused, outcome, revoked>>

Revoke ==
  /\ revoked < token
  /\ revoked' = token
  /\ UNCHANGED <<tokenVars, maxRetries, localVars, net, effects>>

-----------------------------------------------------------------------------
CallStep == Attempt \/ NoToken \/ TransportFails \/ ServerFails \/ Refresh \/ Rejected \/ Accepted

HttpNext ==
  \/ Post
  \/ Attempt
  \/ NoToken
  \/ TransportFails
  \/ ServerFails
  \/ Refresh
  \/ Rejected
  \/ Accepted
  \/ \E force \in BOOLEAN : PumpGetsToken(force)
  \/ TimePasses
  \/ \E p \in net : LoseAttempt(p)
  \/ \E p \in net : Serve(p)
  \/ Revoke

HttpSpec == HttpInit /\ [][HttpNext]_vars

(* httpx times out and Auth0's client does: a step of the call is taken.    *)
FairSpec == HttpSpec /\ WF_vars(CallStep)

-----------------------------------------------------------------------------
(* With its retries, refreshes and late copies, every call is a RemoteCall:  *)
(* "ok" is only ever returned for a call the server has carried out, however *)
(* many of its attempts were lost, refused or answered 5xx.                  *)
Remote == INSTANCE RemoteCall WITH
  Calls <- Calls,
  status <- [c \in Calls |-> IF outcome[c] \in Failures THEN "error" ELSE outcome[c]],
  effect <- [c \in Calls |-> effects[c] = 1]

ImplementsRemoteCall == Remote!CallSpec

(* After a 401, no later attempt of the call carries the token that was      *)
(* refused, whatever the pumps do to the shared cache in between.            *)
RetryCarriesNewToken == refused # 0 /\ pc = "wait" => carried > refused

(* A token taken from the cache has not expired, although a negative jitter  *)
(* alone would keep it past its end (auth.py:78).                            *)
HandsOutLiveTokens == [][Attempt /\ token' = token => remaining > 0]_vars

(* Every call comes back: the loop is bounded whatever the server answers.   *)
CallReturns == pc # "idle" ~> pc = "idle"
=============================================================================
