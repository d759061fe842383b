----------------------------- MODULE RemoteCall -----------------------------
(***************************************************************************)
(* What QuikSyncHttpClient promises its callers about one POST with a      *)
(* fresh execution_id: the effect happens at most once, "ok" is reported   *)
(* only after it has happened, and an error says nothing: the effect may   *)
(* have happened, or happen later.                                         *)
(***************************************************************************)
CONSTANT Calls  \* execution ids

VARIABLES status,  \* "new", "pending", "ok" or "error"
          effect   \* the server has carried the call out

callVars == <<status, effect>>

CallInit ==
  /\ status = [c \in Calls |-> "new"]
  /\ effect = [c \in Calls |-> FALSE]

Begin(c) ==
  /\ status[c] = "new"
  /\ status' = [status EXCEPT ![c] = "pending"]
  /\ UNCHANGED effect

(* Also after an error: a copy may still be under way. *)
TakeEffect(c) ==
  /\ status[c] \in {"pending", "error"}
  /\ ~effect[c]
  /\ effect' = [effect EXCEPT ![c] = TRUE]
  /\ UNCHANGED status

ReturnOk(c) ==
  /\ status[c] = "pending" /\ effect[c]
  /\ status' = [status EXCEPT ![c] = "ok"]
  /\ UNCHANGED effect

ReturnError(c) ==
  /\ status[c] = "pending"
  /\ status' = [status EXCEPT ![c] = "error"]
  /\ UNCHANGED effect

CallNext ==
  \E c \in Calls : Begin(c) \/ TakeEffect(c) \/ ReturnOk(c) \/ ReturnError(c)

CallSpec == CallInit /\ [][CallNext]_callVars
=============================================================================
