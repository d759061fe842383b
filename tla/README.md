# QuikSync Open-RMF adapters: verification project

TLA+ models of the three adapters in this repository (fleet, door, lift) and of the
client package they share, model-checked with TLC and, where marked, proved with TLAPS.
Paths below are relative to `src/packages/`; `lift/`, `door/`, `fleet/` and `client/`
stand for `lift_adapter_quiksync/lift_adapter_quiksync/` and so on.

## 1. The system

Each adapter is one Python process between Open-RMF (ROS 2 topics or the EasyFullControl
C++ binding) and the QuikSync server (REST for commands, WebSocket for state).

| Component | State | Operations |
|---|---|---|
| Token cache `client/auth.py` | cached JWT, expiry, consecutive failures | `get_token(force_refresh)` under one lock, from any thread |
| HTTP client `client/http.py` | none but the token cache | `post_*`: the loop `_request_json` with retries on 5xx and transport errors, one refresh on 401 |
| WebSocket client `client/ws.py` | `_closed`, `_failure_times`, shared by all subscriptions | `subscribe_*`, `close`, circuit breaker on 401 |
| State pumps `*/state_pump.py` | task, `_stop_requested` | `start`, `stop`, dispatch of frames to a callback |
| Nodes `door/node.py`, `lift/node.py` | handles, asyncio loop on a thread of its own | `start`, `stop`, `route_request`, publish |
| Fleet process `fleet/adapter.py` | configuration, handles, event loop of the pump thread | start-up up to one of seven exit codes, `_StatePumpRunner` start and `request_stop`, `join`, dry run |
| Lift session manager `lift/session_manager.py` | `_requested`, `_requested_at`, `_server` per lift | `try_acquire`, `release`, `observe_server_state`, `current_holder`, TTL eviction |
| Lift handle `lift/lift_handle.py` | counters | `dispatch_request` (gate, POST, release), `_on_state_frame` |
| Door handle `door/door_handle.py` | counters | `dispatch_request`, `_on_state_frame` |
| Robot handle `fleet/robot_handle.py` | prepared, bound, current activity | `on_state` with lazy `add_robot`, `set_current_activity` |
| Robot callbacks `fleet/callbacks.py` | none | `navigate`, `stop`, `action_executor` |
| Binding and configuration: `fleet/binding.py`, `*/config.py` | none | run once at start-up: what is refused, skipped and returned |

How they interact:

- Every process has two threads that matter. ROS callbacks run on the rclpy thread
  (doors and lifts: a `SingleThreadedExecutor`; fleet: a thread of Open-RMF); state pumps run
  on an asyncio loop in a thread of its own. They share the token cache (a lock), the session
  manager (an RLock), the robot handle (a lock) and, among the pumps, one WebSocket client.
- `dispatch_request` blocks the rclpy thread through all retries of a POST. State frames keep
  arriving meanwhile and change what the gate had decided on.
- What a POST raises leaves `route_request` and `executor.spin()`: the door and the lift process
  end, and docker (`src/docker/docker-compose.yaml.example:15, 28, 41`, `restart: unless-stopped`) starts a new one
  with empty memory. The fleet callbacks catch and log QuikSync errors instead.

What is hard: two threads between any two steps of a dispatch; frames older than the decisions
made on them; POSTs that take effect late, after a retry, after a failure or after the process
that sent them; tokens that expire or are revoked between an attempt and its retry; pumps that
end silently; a shared client that one stop closes for all; stops that come while a loop is
starting, or while a call holds it up; start-up checks that are made in several places about the same name.

## 2. Modules

| Module | Models | State and actions |
|---|---|---|
| `SessionClaim` | abstract: what the session manager promises | `claim`, `seen` per lift; `Claim`, `Drop`, `See`, `Forget` |
| `LiftSessionManager` | `lift/session_manager.py` | `requested`, `requestedAge`, `server` are the three dictionaries; one action per method, `Tick` for `time.time()`, `Restart` for a new process |
| `LiftSessionManagerProofs` | theorems | see section 6 |
| `LiftAdapterProofs` | theorems | takes the manager's steps from `LiftSessionManagerProofs` by INSTANCE |
| `LiftAdapter` | `lift_handle.py`, `node.py`, `adapter.py`, the pump as up or dead, network, server; INSTANCEs `LiftSessionManager` | the rclpy thread is `pc`: gate, `SendPost`, `RetryPost`, `PostAccepted`, `ReleaseLocally`, or `PostRaises`; the asyncio thread is `HandleFrame`, `DropFrame`, `PumpDies` |
| `RemoteCall` | abstract: what a POST promises its caller | `status`, `effect` per execution id |
| `TokenCache` | `client/auth.py` | `token` (numbered), `remaining`, `failures`; `GetToken(force, result)` |
| `HttpClient` | `client/http.py`, `_request_json`; EXTENDS `TokenCache` | one action per branch of the loop: `Attempt`, `NoToken`, `TransportFails`, `ServerFails`, `Refresh`, `Rejected`, `Accepted` |
| `HttpClientProofs` | theorems | see section 6 |
| `Subscriptions` | `client/ws.py`, the pumps, start and stop of the nodes | per pump the await its task is in, the loop free or held up by a call, how far `stop()` has come; `Enter`, `Connected`, `Refused`, `Disconnected`, `Receive`, `StopPump`, `TaskGone`, `PumpsAwaited`, `Joined`, `CallBegins`, ... |
| `SubscriptionsProofs` | theorems | see section 6 |
| `FleetRobot` | `fleet/robot_handle.py`, `fleet/callbacks.py` | `OnState` takes its decision under the lock, `Update` / `AddRobot` / `Bind` follow outside it; `Callback`, `PostAccepted`, `PostFails`, `SetActivity` on the other thread |
| `FleetRobotProofs` | theorems | see section 6 |
| `DoorAdapter` | `door/door_handle.py`, `node.py`, `adapter.py`; INSTANCEs `RemoteCall` | subscription queue, `DispatchRequest`, `PostAccepted`, `PostRaises`, `Kill`, `Restart`, `HandleFrame`, the server's goals and the doors |
| `DoorAdapterProofs` | theorems | see section 6 |
| `FleetConfig` | `fleet/config.py` | which documents and environments the loaders accept, and what they return |
| `FleetBinding` | `fleet/binding.py`, the discovery part of `fleet/adapter.py`; EXTENDS `FleetConfig` | which of its failures each builder ends in, in the order of the code; which robots get a handle and are prepared |
| `FleetProcess` | `fleet/adapter.py`, `fleet/state_pump.py`; EXTENDS `FleetBinding` | the main thread from `Load` to its exit code; the pump thread in the iterations of its event loop; `RequestStop`, `JoinReturns`, `JoinExpires`, `StopPump`, `ClosePump`, `ReceiveFrame`, `HandleRobot`, `CallBegins`, `DryPoll` |
| `FleetProcessProofs` | theorems | see section 6 |
| `TimeConversion` | `client/time_conv.py` | a pure operator and its laws |
| `MC*` | TLC instances | |

How they compose: `LiftAdapter` uses the actions of `LiftSessionManager` themselves and shows with
`UsesManager` that its maps follow that specification in every interleaving; the manager implements
`SessionClaim`. `HttpClient` implements `RemoteCall`; `DoorAdapter` takes a POST as a `RemoteCall` and
shows with `DispatchesAreRemoteCalls` that its use, deaths of the process included, stays within
that contract; `FleetRobot` takes its POSTs the same way (`CommandsAreRemoteCalls`). `LiftAdapter` keeps the retry loop itself,
because its late and repeated copies are the point there, and shows that a whole dispatch, over retries, deaths and restarts, is a
`RemoteCall` again (`DispatchesAreRemoteCalls`). So all four users of a POST come under one contract. `FleetProcess` evaluates the operators of `FleetConfig` and
`FleetBinding` in its start-up actions, so that what the loaders accept, the builders build and the pump serves
is one behaviour; what a handle does with a state is left to `FleetRobot`, and how the pump keeps its connection to `Subscriptions`.

Definitions marked `Fault:` are plausible bugs. No specification uses them; each is a replacement
for the definition after it that one of the checked properties must reject.

### Abstractions

- Session ids, lifts, doors are model values. `Free` is an absent dictionary entry, or the empty
  `session_id` of a frame; `Unseen` is a lift without a frame so far.
- Time is counted in ticks; ages saturate just above the TTL, where the code stops telling them
  apart. In `TokenCache` the constants keep the arithmetic of `_should_refresh` (`5 * remaining <
  remaining + Slack + 5 * jitter` is its comparison multiplied by five). In `Subscriptions` the length of a back-off
  is left open: `Enter` may follow at any time.
- A lock held over a whole method makes it one action. `get_token` holds its lock during the mint,
  so it is one action too, however long Auth0 takes.
- The server (marked external in the map) answers 202 to a repeated `execution_id` without doing
  anything again, gives a lift to one session at a time and releases it some time after
  END_SESSION. It never answers 1xx or 3xx: `_request_json` would return those like a 2xx.
- A YAML document is reduced to what the loaders tell apart: its form, the value of each key that decides
  something, and one "defect" for the keys that raise whatever the rest says. An entry of `/discovery` is its name,
  its robots and how complete its traits and battery are.
- `asyncio` is modelled by its iterations where that matters (`FleetProcess`): `loop.stop` ends the batch it is run
  in, `run_until_complete` ends with the callback its future queues, `is_running()` is false between the two runs.
- Open-RMF's `adapter.start()`, `Adapter.make` and the parsing of the configuration files may succeed or fail.
- Bodies, logs, counters for tests, and the wording of errors are left out.

## 3. Properties and runs

Passing runs:

- `manager`: two lifts, three sessions, TTL of two ticks. `ClaimAgreesWithView`: the two views of a lift
  never name two sessions (`release` and `try_acquire` join them with "or" and are right only because
  of this). `ClaimLostByRight`: no call of another session takes a claim away. `ImplementsSessionClaim`.
  `UnrefreshedClaimLapses`: eviction is lazy, so a forgotten claim goes only if another session asks.
- `lift_adapter`: `UsesManager`; `HolderWasAcknowledged` (the server's lock belongs to a session that was told so, whose release is
  pending, or of which an AGV_MODE is under way or was lost with its dispatch: no late copy of an answered POST takes a lift back for a session
  that has ended); `DispatchesAreRemoteCalls`; `ConfirmedHoldBlocksOthers` (smoke.md 6.5): no AGV_MODE passes the gate against the
  last frame. One that passed it before the frame came is still sent, and so are its retries (section 5); of those the property says that
  the frame has taken their claim, so the adapter does not hold the lift for two sessions.
- `lift_adapter_liveness`: `DispatchReturns`, `GateReopens` (stale frames, lost races and claims left behind heal,
  unless the lift's pump has ended).
- `http_client`: `ImplementsRemoteCall`, `RetryCarriesNewToken`, `HandsOutLiveTokens`, `CallReturns`.
- `subscriptions`: `SilentAfterClose` (no pump dispatches after any stop), `EndsForCause`, `Reconnects`, `StopEnds` (also when
  a call holds up the loop for longer than both timeouts, or a close handshake for longer than the first, and with pumps that wait for
  frames that never come).
- `fleet_robot`: `ToldWasAccepted`, `OnlyFailedCommandsLag`, `CommandsAreRemoteCalls`, `Registers`, `AcceptedIsReported`; `TypeOK` bounds successful
  registrations by one.
- `door_adapter`: `GoalsLagOnlyAcrossRestarts` (a late copy never overtakes an acknowledged request of its own
  process, which is so because the process ends with the first POST that raises),
  `DispatchesAreRemoteCalls`, `StateReachesRmf`, `RequestsSettle`.
- `fleet_process`: every document and environment of the loaders, every discovery answer of two entries, every
  order of the main thread's stop and the pump's loop. `OneFleet`: the fleet registered with Open-RMF is the one the pump
  subscribes to, which in YAML mode rests on a check in the loader and in dynamic mode on the discovery match.
  `PreparedRobotsAreServed`: a robot that waits for its first state has a handle the pump finds, although binding and
  handles are built from different documents. `FrameReachesEveryRobot`: one bad entry or handler does not
  cost the others their state. `StopTakesHold`: a stop asked for in the second iteration of `run_until_complete` or in
  `run_forever` is kept until it ends the loop; in `new`, `made` and `gap` no loop runs and the stop is lost, and in `start1` either may happen.
  `StopHonoured`: a stop of the first kind closes the client and cancels the pump's task, unless a call holds up the loop until the join expires.
  It does not say that the thread has ended when the join does: the close handshake may take longer. `InterruptEnds`: the process
  ends whatever the pump thread does, also with a stop that was lost.

Runs that find a documented behaviour the code does not have:

- `manager_refresh`: `lift/config.py:31` and `lift/state_pump.py:9` say a frame refreshes the TTL;
  `observe_server_state` does not touch `_requested_at`.
- `lift_adapter_end_session`: `docs/smoke.md:382` publishes END_SESSION with an empty `destination_floor`;
  `_require_str` drops it.
- `lift_adapter_conflict`: `docs/smoke.md:439` expects the next frame to reconcile a 409; the process has ended.
- `fleet_activity`: `fleet/callbacks.py:217` expects a frame to clear the activity; nothing does.

### Bounds

| Run | Bounds | Why they are enough |
|---|---|---|
| `manager` | 2 lifts, 3 sessions, TTL 2 | lifts touch only in `Tick` and `Restart`; a holder, a rival and a third session; ages before, at and after the TTL |
| `lift_adapter` | 1 lift, 2 sessions, 2 dispatches, 1 retry, 2 frames in transit, 1 kill | two dispatches are needed for a copy of an old one to be late; two frames for one to be stale; the sessions are symmetric (no liveness in this run) |
| `lift_adapter_liveness` | the same without kills, 1 frame, TTL disabled | a TTL could only help `GateReopens`; deaths through exceptions remain |
| `http_client` | 2 calls, `max_retries` 0 and 1, 3 tokens, TTL 2 with jitter 1 and slack 1 | the first, the last and the only turn of the loop; tokens fresh, reusable only by jitter, expired, and revoked |
| `subscriptions` | 2 pumps, 3 refusals, window of 2 ticks | refusals of one pump, of both, in and out of the window; one pump stopped and the other not |
| `fleet_robot` | 3 commands, 1 frame in transit | an older, a current and a stop command |
| `door_adapter` | 2 doors, 2 requests, queue of 1, 1 frame, 1 kill | a request behind the POST of another door, an overflow, two requests for one door across a restart |
| `fleet_process` | 2 fleets, 2 robots, 1 graph, all documents and environments, entries with 4 lists of robots and all combinations of traits, battery and graph, 3 frames of 2 or 3 entries, 1 poll | two names are enough to differ; frames begin, end or go on with an entry that names no robot; a dry run leaves with a frame, with the last poll, and between |

Bounds on executions, calls, frames, tokens, commands, requests and kills are constants in the
guards (`Max...`), named in each module. Deadlock is checked in every run but `door_adapter` and `fleet_process`, where
the node may come to rest and the process ends.

### Fairness

Weak fairness of the steps of a call: httpx has timeouts and the retry limit is finite. Weak fairness of
`Restart`: `restart: unless-stopped`. Frames: the server pushes state periodically; connections
break again and again and some frames are malformed, so handling one is strongly fair. `Connected` is strongly fair: a server asked
again and again accepts again and again, otherwise a pump never comes back. `Tick` and
`ContestedAttempt` in the manager: time passes, and other sessions ask. Requests, kills, stops, revocations and
the server's own TTL are never assumed.

Event loops: asyncio runs what is queued in turn, so `LoopEnds`, `StopPump`, `TaskGone`, `Enter` in `Subscriptions` and `StopLoop`, `StopPump`,
`SecondIteration`, `HandleRobot` in `FleetProcess` are strongly fair: a call may hold up the loop again and again, and each time it
returns, the queue moves. A close handshake ends, by its own timeout of ten seconds if not before (`TaskGone`, `ClosePump`). That a call returns at all is assumed nowhere: `StopEnds` and `InterruptEnds` hold because of the
timeouts in the code, `StopHonoured` names the exception, and `Reconnects` is stated for loops that are not held for ever.

## 4. Hazards

`PROJECT.json` lists the main ones at their lines with the properties that cover them. Those without one, and three smaller ones it does not list
(`client/http.py:329`, `client/ws.py:116`, `client/time_conv.py:59`):

- `client/http.py:329`: a 3xx answer counts as success. The server sends none; a model that let it would only restate the line.
- `client/ws.py:160`: with the back-off at its cap (30 s, with jitter 22.5 to 37.5 s) three refusals of one pump span 45 to 75 s, so
  they may or may not fall into the window of 60 s, and the breaker may never open. `Subscriptions` leaves the length of a sleep open.
- `fleet/callbacks.py:159`: an `AuthError` or an httpx error of the token refresh goes past the handlers for QuikSync errors into Open-RMF's
  C++ binding, which is not part of the repository.
- `lift/session_manager.py:206`: `_server` has no TTL; without frames the last holder keeps the lift refused to everybody. `GateReopens`
  assumes a live pump for this reason.
- `lift/state_pump.py:95`, `door/state_pump.py:94`: a pump that has ended is not started again while the adapter lives on. `GateReopens` and
  `StateReachesRmf` exclude it openly; the code has nothing that could bring it back.
- `door/adapter.py:261`: while a POST retries, the subscription keeps ten requests of all doors and drops the oldest without a word.
  `RequestsSettle` counts a dropped request as settled. What waits when the process dies (`door/door_handle.py:216`) is lost the same way.
- `client/http.py:310`: the forced refresh runs outside the `try`, so its errors are none the callers catch. To `CallReturns` that
  is a return.
- `client/ws.py:76`: `_closed` is never reset, so a node that is started again is deaf. `EndsForCause` counts a closed client as a cause; the theorem
  `RestartedNodeIsDeaf` states it.
- `client/ws.py:116`: a binary frame that is no UTF-8 ends the pump (`Undecodable`), and `EndsForCause` names it as a cause.
- `client/time_conv.py:59`: proved for every integer (`NanosecIsAFraction`) instead of checked by a run.

## 5. Disagreements of docs and code without a run

Met while modelling, and visible by reading the code with the models at hand:

- `lift/config.py:32`: the TTL is "the upper bound on how long a session can remain held" without frames. `_evict_stale_locked`
  evicts `_requested` only; `_server` keeps the last holder for ever.
- `lift/session_manager.py:151-156`: a frame clears a claim only if it was superseded or expired. A frame sent
  before the POST was processed clears the claim of the dispatch under way.
- `lift/session_manager.py:88-90`: a refused caller would get a 409 anyway. With a stale view it would not.
- `*/state_pump.py` ("Safe to start/stop multiple times"): `stop` closes the shared client for good.
- `client/ws.py:19-20`: no preemptive reconnect exists.
- `client/auth.py:8-10, 80-88`: the refresh margin is computed from the remaining time, so tokens are
  used until their last minutes, and the jitter is drawn for every check.
- `client/ws.py:17`: "3 consecutive 401s" open the circuit. The code counts all refusals of all pumps of the client within the window, and
  a connection in between clears nothing.
- `fleet_adapter_quiksync/README.md:153-165`: exit code 1 is "config load failed" and 7 a binding failure, an unsupported
  `rmf_adapter` included. A failing `/building_map`, a missing key of a discovery entry, a missing `rmf_adapter` attribute and a
  `base_url` with another scheme are no `BindingError`s: all end with a traceback and 1.
- `fleet/adapter.py` (module docstring): "Cleanly shut down: stop pump, join thread, ..., `rclpy.shutdown()`". A stop asked for while the loop is
  starting, or between `run_until_complete` and `run_forever`, is lost; a handler that blocks, or a close handshake (`client/ws.py:109`, ten seconds by default),
  outlasts the five seconds of the join. Updates may reach Open-RMF after the shutdown.
- `fleet/config.py:124-134`: the guard that a YAML mode has an `rmf_fleet` block tests the raw value for truth. The text "false", or the flat
  form with `dynamic_mode: false`, passes it and fails only in `bind_from_yaml`, with 7 instead of a `ConfigError`.
- `fleet/config.py:165-169`: environment variables with `dynamic_mode` false are to go with a separate YAML. `main` reads the one or the other, so
  in a full run a false value without `--config` always ends in a `BindingError`.
- `docs/smoke.md` 6.5 expects "No REST POST is sent" for a session that is not the holder. That holds for what the gate refuses. Between the gate and the
  POST, and before each retry, nobody looks at the frames again (`lift/lift_handle.py:290-305`): a frame that names another holder does not stop it.
- `client/ws.py:117`: malformed frames are to be dropped. A binary frame that is no UTF-8 raises `UnicodeDecodeError`, which is no
  `JSONDecodeError`, and ends the pump.
- `client/auth.py:112-140`: three failures in a row are an `AuthError`. A 200 whose body is no JSON, or whose `expires_in` is no number, raises something
  else and is not counted.
- `fleet/adapter.py:110-112`: 3 is "discovery fetch failed", 4 "fleet not found". An answer that is no dictionary (93), `fleets` that cannot be iterated
  (121) and `robots` that cannot (135) raise where nothing catches: a traceback and 1.
- Root `README.md:205-206`: `update_interval_seconds` and `state_subscribe_reconnect_seconds` are parsed and never used.
- Root `README.md:274`: every REST and WSS call carries the namespace; the dry runs of door and lift build their pumps without it.
- `door/adapter.py` (module docstring): exit codes 3 and 4 are never returned, and the dry run is content with a frame of any door.
- `fleet/state_pump.py:94-96`: "caller decides whether to restart"; no caller does.
- `client/http.py:331`: the line called unreachable is reached with `max_retries = 0` and a 401.

## 6. Proofs

Constants are arbitrary: any sets of lifts and sessions, any TTL, with `Free` and `Unseen` different from
each other and from every session (`SessionAssumption`, `AdapterAssumption`); any retry limits, token lifetimes, slack and jitter (`HttpAssumption`, `TokenAssumption`); any pumps and breaker settings (`BreakerAssumption`); any number of
commands, requests, kills and frames in transit (`FleetAssumption`, `DoorAssumption`); any fleet names, robots, documents, discovery
entries and frames (`NameAssumption`, `RobotAssumption`, `ProcessAssumption`).

`LiftSessionManagerProofs`:

- `ManagerTypeOK`: typing is inductive by itself; `SetRequestWrites` is the lemma every action uses.
- `AgreementHolds`: `ClaimAgreesWithView` is not inductive without types, so `IInv == TypeOK /\ ClaimAgreesWithView`.
  The interesting case is a granted `try_acquire`: the caller is named by one view, and the invariant
  of the previous state says the other view names nobody else.
- `LossesAreRightful`: from `IInv`; `StrangersReleaseNothing` shows that a session neither view names releases nothing,
  and by the invariant no stranger is named while somebody else holds the claim.
- `Refinement`: every step of the manager is a step of `SessionClaim` or a stutter under the mapping
  claim = the entry unless expired, seen = the last frame. Eviction is invisible, because an expired entry already counts as none
  (`EvictionIsSilent`); `Tick` is a `Drop` of the claims that expire in it.

`TimeConversion`: the parts of a time add up, the nanoseconds are a fraction of a second, order is kept,
for every integer.

`FleetRobotProofs`: none of the three properties is inductive, so `IInv` adds to `TypeOK` what the threads
rely on: `Registration` (add, then bind, and never again once bound), `CallPhases` (every command but the
last is decided, those after it are new), `ServerLedger` (an acknowledged command was carried out; if the robot executes a command older
than one already carried out, the older one has failed) and `ActivitiesAccepted` (an activity is
that of an accepted command in the handle, in the hands of `on_state` and in Open-RMF). One lemma each for the steps of the pump,
the callback thread and the server; sequences are dealt with once, in `FramesTyped`.

- `FleetTypeOK`: in particular `add_robot` succeeds at most once; this is what `Registration` is for.
- `OnlyAcceptedIsTold`: from `ActivitiesAccepted`; `status` never leaves "ok", as `CallPhases` says the
  answered command is pending.
- `LaggardsHaveFailed`: from `ServerLedger`. When a command arrives after a later one, it is not the last, so by `CallPhases`
  it is decided, and it is not "ok" because those have arrived already.
- `CommandsRefineRemoteCall`: each step begins a call, returns from one or carries one out. `CallPhases` says a new command has no
  status yet, and `ServerLedger` that an accepted one has had its effect.
- `ReportsNeverGoBack`: told, in the hands of `on_state`, in the handle and under way are in this order (`ReportsLag`); the gap
  between the lock and the report can delay a report but not reorder it, because only one pump reports.

`LiftAdapterProofs`: `HolderWasAcknowledged` needs to know what the copies in the network can still do. The history variable `lost` keeps the
requests whose dispatch ended without a 202; with the one under way they are the open ones. `IInv` adds `Executions` (ids are
fresh, and a lost one is not used again), `Answers` (a 202 means carried out), `OldCopiesAreSpent` (only copies of open requests can still have an
effect) and `EndsAreUnderWay` (a session whose end was accepted holds its lift no longer, or not for long, unless another request of its own is open).

- `HoldersAreAcknowledged`: whatever fails and however often the process dies. A lost AGV_MODE is the one excuse, and the property names it.
- `DispatchesRefineRemoteCall`: the status of a dispatch is read off `nextExec`, `lost` and `pc`. A copy that has an effect belongs to an
  open request, which is pending or an error to `RemoteCall`; by `Executions` an error never turns into anything else.
- `AdapterUsesManager`: every step of the adapter is a step of `LiftSessionManager` or a stutter; with it the manager's theorems hold inside the
  adapter: `ViewsAgree` is `AgreementHolds` carried over by INSTANCE, `AdapterLosesClaimsByRight` is `LossesAreRightful`, and
  `AdapterIsSessionClaim` composes the two refinements, so the running adapter implements `SessionClaim`.
- `ConfirmedHoldsBlock`: from `ViewsAgree`: the gate cannot pass a session while the last frame names another one, and what is sent against a later
  frame has lost its claim, because no claim and frame name two sessions.

`HttpClientProofs`: `IInv` is `TypeOK` with `CallInHand` (one call, between `Post` and its end), `TokensAdvance` (the token of an attempt is no newer
than the cache, a refused one has been replaced before the retry) and `ServerLedger` (what was acknowledged was carried out, once).
`CachedTokensAreLive` holds for every jitter, negative margins included; `ClientImplementsRemoteCall` is the refinement under the mapping the run uses.

`DoorAdapterProofs`: the order of the queue, of the posts, of the processes and of the server's goals are four invariants
(`QueueInOrder`, `Bookkeeping`, `LivesInOrder`, `GoalsInOrder`), each used for the next; `ProcessesCounted` bounds the number of the process, which
dies by a kill or by a request of its own. `LagOnlyAcrossRestarts` follows from `LivesInOrder` and `GoalsInOrder`. `DispatchesRefineRemoteCall` is the
step-by-step refinement of `RemoteCall`, death and restart included. `RequestsAdvance` rests on `Accounted`: what is "waiting" is in
the queue of a live process, what is "pending" is the POST under way.

`FleetProcessProofs`: start-up decides a fact in one place and relies on it in another. `IInv` says at each place what has been made sure of:
`NamesAgree` (by the loader), `EntryIsOurs` (by discovery), `Progress` (how far start-up is), `BoundFleet` (by binding); `Handed` says
which entries of a frame are done. `FleetIdentity`, `PreparedAreServed` and `FramesReachRobots` are three invariants of the run. The fourth, `StopsTakeHold`, has an inductive
invariant of its own, `StopQueuedInTime`: a stop asked for in the second iteration or in `run_forever` is still queued, or has ended the loop; one asked for
while no loop ran is not queued; and nothing but a stop ends the loop. `JoinsExpireForCause` follows from it: after such a stop the join expires
only with the loop inside a call or in a close handshake.

`SubscriptionsProofs`: the list of refusals needs `TimesInOrder`, which makes what `_record_401` drops a prefix of the list
(`Outdated`), and `RefusalsAreFew`: while the client is open, every refusal beyond the limit has ended the pump it reached; once it is closed,
no pump connects any more, and only those that were connecting can add to the list. `StopsAreComplete` says why no pump is started again
under an open client.

- `SubscriptionsTypeOK`: the list stays shorter than the limit and the number of pumps together.
- `EndsAreCaused`: after a refusal every entry is inside the window, so the length the breaker compares is the number it means.
- `StoppedClientIsSilent`: no action but `Receive` dispatches, and it looks at `closed` after its await.
- `RestartedNodeIsDeaf`: by `StopsAreComplete` a node is started again only with every pump off, and nothing resets `closed`. No document
  says that a node may be used twice; `*/state_pump.py` says so of its pumps (section 5).

### Safety halves of the liveness properties

Liveness under fairness, and `ENABLED`, are out of the prover's reach: the twelve liveness properties of the runs (`DispatchReturns`,
`GateReopens`, `UnrefreshedClaimLapses`, `CallReturns`, `Reconnects`, `StopEnds`, `Registers`, `AcceptedIsReported`, `StateReachesRmf`,
`RequestsSettle`, `StopHonoured`, `InterruptEnds`) stay with TLC. Where such a property rests on a bounded
number of steps, that part is a theorem for every value of the constants: a natural number that every step of the component lowers and no other
step raises. Only the rule "a fair action that lowers a natural number ends" is then left to TLC's small instance.

| Property | Theorem | The number |
|---|---|---|
| `CallReturns` | `CallsAdvance` | `StepsLeft`, at most `2 * maxRetries + 2` steps of the loop |
| `DispatchReturns` | `DispatchesAdvance` | `StepsLeft`, at most `2 * MaxRetries + 3`, the local release included |
| `RequestsSettle` | `RequestsAdvance` | `Within(n, k)`: k steps of the executor thread, at most `2 * QueueDepth + 1` |
| `StopHonoured` | `StopsTakeHold`, `JoinsExpireForCause` | no number: the stop stays queued, and the join expires only on a call or a close handshake |

`GateReopens`, `Reconnects`, `StateReachesRmf`, `AcceptedIsReported` and `Registers` have no such number: their environment may undo the progress, and
they rest on strong fairness. `StopEnds` and `InterruptEnds` need the order in which timeouts and the loop take turns.

Induction over data is out of reach as well; no module that is proved about declares a RECURSIVE operator.

## 7. Not modelled

- The configuration loaders and dry runs of the door and the lift. They have the shape of the fleet's, without its two modes and names.
- The field values of the objects `fleet/binding.py` builds, and of the states and messages that are converted; which of
  them are refused is modelled.
- `client/types.py`: validation without state. The GET requests of the client and `delete_lift_session`: the same loop as
  the POSTs, without an `execution_id`, used at start-up only or not at all.
- A node that is started again after its stop ran into a timeout; the programs stop a node once.
- Packaging: only the restart policy matters, and is an assumption of two modules.

## 8. Plan

Done: all adapters, the client and the fleet's start-up, with proofs of every invariant and every action property the runs check, of every refinement,
and of the safety halves of the liveness properties that have one.

1. Start-up and shutdown of the door and lift processes, in the manner of `FleetProcess`.
2. Timers in `Subscriptions`: back-off and window in one clock, to settle when the breaker can open.
3. The GETs and `delete_lift_session` in `HttpClient`, without execution ids.
