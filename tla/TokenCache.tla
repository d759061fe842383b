----------------------------- MODULE TokenCache -----------------------------
(***************************************************************************)
(* quiksync_client/auth.py: the one token that all threads of an adapter   *)
(* share.  get_token runs under a lock from the check to the end of the    *)
(* mint, so it is one action.  Tokens are numbered in the order of the     *)
(* mints; time is counted in units for which the sixty seconds of          *)
(* _estimate_total_ttl are Slack and the jitter is -Jitter..Jitter.        *)
(***************************************************************************)
EXTENDS Integers

CONSTANTS Ttl,       \* expires_in of a minted token
          Jitter,    \* jitter_seconds_max = -jitter_seconds_min
          Slack,     \* the 60.0 of _estimate_total_ttl
          MaxTokens  \* bound: mints

ASSUME TokenAssumption ==
  /\ Ttl \in Nat \ {0}
  /\ Jitter \in Nat
  /\ Slack \in Nat
  /\ MaxTokens \in Nat

VARIABLES token,     \* number of the cached token, 0 for none
          remaining, \* expires_at_unix - time.time(), cut off at 0
          failures   \* _consecutive_failures, cut off at 3

tokenVars == <<token, remaining, failures>>

FailureLimit == 3

TokenTypeOK ==
  /\ token \in 0..MaxTokens
  /\ remaining \in 0..Ttl
  /\ failures \in 0..FailureLimit

TokenInit == token = 0 /\ remaining = 0 /\ failures = 0

(* Fault: no test for an expired token. *)
ShouldRefreshByMarginOnly(jitter) == 5 * remaining < remaining + Slack + 5 * jitter

(* _should_refresh: remaining < (remaining + 60) * (1 - 0.8) + jitter, with *)
(* a jitter drawn anew by every check.                                      *)
ShouldRefresh(jitter) ==
  \/ remaining <= 0
  \/ 5 * remaining < remaining + Slack + 5 * jitter

MayReuse(force) == ~force /\ token # 0 /\ \E j \in -Jitter..Jitter : ~ShouldRefresh(j)
MayMint(force) == force \/ token = 0 \/ \E j \in -Jitter..Jitter : ShouldRefresh(j)

Mint ==
  /\ token < MaxTokens
  /\ token' = token + 1
  /\ remaining' = Ttl
  /\ failures' = 0

(* The token cached before a failed mint stays cached. *)
MintFails ==
  /\ failures' = IF failures < FailureLimit THEN failures + 1 ELSE failures
  /\ UNCHANGED <<token, remaining>>

(* A 200 whose body is no JSON object, or whose lifetime is no number,       *)
(* raises before it is counted.                                             *)
MintGarbled == UNCHANGED tokenVars

(* Fault: a forced refresh returns the cached token. *)
GetTokenUnforced(force, result) ==
  /\ result = "token"
  /\ \/ MayReuse(FALSE) /\ UNCHANGED tokenVars
     \/ token = 0 /\ Mint

(* "auth" is what no caller retries: AuthError, for any answer that is no    *)
(* usable token or for the third failure in a row, and what a garbled answer *)
(* raises; "transport" is the httpx.HTTPError of the first two failures.     *)
GetToken(force, result) ==
  \/ result = "token" /\ MayReuse(force) /\ UNCHANGED tokenVars
  \/ result = "token" /\ MayMint(force) /\ Mint
  \/ result = "auth" /\ MayMint(force) /\ (MintFails \/ MintGarbled)
  \/ result = "transport" /\ MayMint(force) /\ MintFails /\ failures' < FailureLimit

Pass ==
  /\ remaining > 0
  /\ remaining' = remaining - 1
  /\ UNCHANGED <<token, failures>>
=============================================================================
