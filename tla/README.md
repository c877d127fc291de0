# Verification of the Cursor provider for Hermes

TLA+ models, TLC configurations and TLAPS proofs for this repository: a
model-provider plugin through which Hermes drives the Cursor SDK bridge, and
the installer that puts plugin and bridge into a Hermes home.

Paths are relative to the repository. In `plugin/model-providers/cursor/`:
*client* is `cursor_bridge_client.py`, *transport* `cursor_bridge_transport.py`,
*auth* `cursor_sdk_auth.py`, *setup* `setup_flow.py`, *hooks* `defer_hooks.py`. In
`src/hermes_cursor_native/`: *installer*, *cli*, *discovery*, *system_discovery*,
*install_plan* and *capabilities* are the files of these names.

    tlc -workers 2 -config BridgeClient_lifecycle.cfg MCBridgeClient
    tlapm BridgeClientProofs.tla

`PROJECT.json` lists the components, the runs, the lines each definition
models, a mutation of the model that each property detects, the hazards of the
code, the findings and the theorems.

## 1. Inventory

| Component | State it keeps | Operations | What is hard | What makes it correct |
|---|---|---|---|---|
| Bridge client (client) | `_process`, `_transport`, `_callback_server`, `is_closed` under `_lock`; `_active_runs`, and in each `_ActiveRun` `captured_calls`, `cancel_requested` | `_ensure_bridge`, `list_models`, `_create_chat_completion`, `close`, `_handle_tool_callback`, `_request_cancel`, `_cleanup_agent` | request, handler, cancel and closing threads interleave; start-up holds the lock for up to 45 s; the bridge crashes; `_transport` is read without the lock; deadlines | no process, server, run or agent is leaked; a published bridge can call back; captured calls are returned once, complete, by one request; the run stops after a capture; everything ends |
| Bridge process and RPCs (transport) | a child process, its ready line; HTTP deadlines | `start`, `_await_ready_line`, `stop`, `is_alive`, `unary` | a late or invalid ready line, a reply lost after it was acted on, a reply that is no HTTP | as above |
| Connect stream (transport) | bytes read so far, the frame under way, the deadline | `server_stream`, `_read_exact`, `_read_chunk` | any segmentation, a connection cut anywhere, keepalives for ever, bad frames | the messages in order, none lost; an end only at the end; it ends by its deadline |
| Bridge download (transport) | `<HERMES_HOME>/cursor-sdk-bridge`, a staging and a backup directory for each download | `download_bridge`, `resolve_bridge_command` | two renames that are not one; failure, interruption or kill between them; overlapping downloads | nothing incomplete in the managed path; the last bridge is never lost |
| Install transaction (installer) | plugin, bridge and configuration of the home; their backups; the flags of `execute_install_plan` | `execute_install_plan`, `deploy_plugin`, `safe_extract_tar`, rollback | a step raises half way, the rollback raises, a kill, an interruption between a step and the flag that records it | a failed installation leaves everything as it was, or in a backup |
| Install command (cli, install_plan, capabilities) | the candidates, the choice, the plan, the approval | `install`, `_select_runtime`, `probe_runtime`, `build_install_plan` | Hermes is updated or removed between any two steps; options combine | nothing unapproved changes; what is installed for is what was planned |
| Runtime discovery (system_discovery, discovery) | none | `collect_candidates`, `probe_candidate`, `classify`, `select_runtime` | one Hermes under several names, several under one path; launchers that fail, print another checkout or none | no guessing among several; a merge with what another candidate found keeps the home of HERMES_HOME |
| Capability probes and receipt (capabilities, `verify.py`) | none | `probe_runtime`, `collect_receipt` | none | refusal before any change |
| Credential store (auth, setup) | `~/.cursor/sdk/auth.json`, `auth.json.tmp`; the key in `_login_cursor_oauth`'s memory | `save_`, `clear_`, `read_sdk_credentials`, `_login_cursor_oauth` | the key exists in memory only while the browser is waited for, if it could be read at all; several processes write one temporary file | the store is never half written; a failed login does not lose the key |
| Login poll (auth) | error count, method, attempts | `poll_for_login_tokens` | transient errors, answers that are not JSON, a 404 that means pending or no such route by its body alone | it gives up only after three consecutive errors, an unexpected answer or all attempts |
| Login (auth, setup) | the two above | `login` | one after the other, failing and killed anywhere | nothing of one login's poll reaches the next; the above |
| Deferred provider hooks (hooks, the three shims) | `_pending`, `_busy`, `_installed`, patched module classes, `sys.meta_path`, the flags of the shims | `install_defer_hooks`, `_apply`, `__getattribute__`, the loader wrapper | modules half executed when the plugin loads, re-entrance, failing imports | every hook applied once, when its module is complete; nothing pending is forgotten |
| Callback wire codec (`cursor_bridge_wire.py`) | none | encode and decode of one message | truncated or overlong varints | decoding inverts encoding |
| Manifest and rendering | none | validation and text | none | none |
| Bootstrap scripts (`install.sh`, `install.ps1`) | none | create an environment, call the CLI | none | none |

How they interact. Hermes calls the client from several threads. The client
starts a bridge process and speaks HTTP to it; for each tool call of the model
the bridge calls the client's loopback callback server, which answers on a
thread of its own. In `loop` mode the handler captures the call, answers with
a placeholder and has the run cancelled, and the request returns the captured
calls to Hermes; in `harness` mode the handler executes the tool itself.
Downloads, installations and logins are separate processes (or setup dialogs)
that meet the client, and each other, in the file system only. The hooks run on
whatever thread imports Hermes' modules, and connect setup and client to Hermes.

## 2. Modules

| Module | Models |
|---|---|
| `ToolTurn` | abstract: what the client promises Hermes about tool calls, without threads |
| `BridgeClient` | client with the bridge process and the RPCs as the client sees them; instantiates `ToolTurn` with a refinement mapping |
| `BridgeClientProofs`, `BridgeClientRefines` | invariants of `BridgeClient`, and that it implements `ToolTurn`, proved |
| `StreamContract` | abstract: what `server_stream` promises the loop over it, without bytes |
| `ConnectStream`, `ConnectStreamProofs` | `server_stream` byte by byte; instantiates `StreamContract`; its invariant and refinement, proved |
| `BridgeDownload`, `BridgeDownloadProofs` | `download_bridge`; its invariants, proved |
| `InstallTransaction`, `InstallTransactionProofs` | one installation by installer; its invariants, proved |
| `RuntimeChoice` | discovery and selection of a runtime, as functions of the machine |
| `InstallCommand`, `InstallCommandProofs` | `install` from its arguments on, composed of the two above; its invariants, and that it implements `InstallTransaction`, proved |
| `CredentialStore` | auth.json, logins and forced logins |
| `LoginPoll` | `poll_for_login_tokens` of auth |
| `Login`, `LoginProofs` | logins with their polls, composed of the two above; invariants, and that it implements `CredentialStore`, proved |
| `DeferHooks`, `DeferHooksProofs` | hooks and the shims, with Hermes importing and defining; its invariants, proved |
| `MC...` | constants and symmetry sets for TLC |

### BridgeClient

Each thread has a program counter: `pc[r]` for a request, `cbPc[c]` for the
handler of tool call `c`, `cancelPc[r]` for the cancel thread of `r`'s run,
`closerPc[k]` for a `close()`. An action is a stretch of code between two
points at which another thread can be noticed: an RPC, acquiring or releasing
`_lock`, a read of shared state without the lock.

- `_lock` is the variable `lock` where it is held across steps, that is while
  a bridge starts. Where the code holds it for a few assignments the action
  is atomic and needs `lock = None`. `_process` and `_transport` are assigned
  together under the lock and are one variable, `bridge`. A bridge process and
  a callback server are named by the request that started them, since a
  request starts one of each at most; so no counter needs a bound.
- `EnsureReuse`, `EnsureRefuse`, `EnsureSpawn`, `StartReady`, `StartFail` are
  `_ensure_bridge`. `EnsureRefuse` covers `remaining_startup_time()` raising
  before or after the lock and missing credentials or bridge command.
- `ListModels` is `list_models`. `CreateAgent`, `CreateAgentFails`,
  `PromptFails`, `OpenStream`, `StreamEnd`, `StreamFail`, `StreamBreaks`, `PopRun`,
  `DeleteAgent`, `Fail`, `Return` are `_create_chat_completion` in its order: the agent
  is created, the run registered, the prompt formatted, the stream read, the run
  removed from `_active_runs`, the agent deleted, and only then are the captured calls
  taken. `PromptFails` is the one exit between the registration and the `try`, at which
  nothing is cleaned up ("unformatted"). An RPC whose reply is lost may have been acted
  on (`CreateAgentFails`); `rpcFailed` is history and says whose CreateAgent or
  DeleteAgent failed on a bridge that could have answered.
- `Garbled` is a reply that is no HTTP or is cut: an `HTTPException`, which is no
  `CursorBridgeError` and so passes the `except` of `_cleanup_agent` and the
  `suppress` of `close()`.
- `Invoke`, `Lookup`, `ExecuteInline`, `Capture`, `DeferAnswer` are the handler
  of a tool call; `CancelList`, `CancelRun` the cancel thread.
- `CallClose`, `CloseTake`, `CloseShutdown`, `CloseStop`, `CloseServer` are
  `close`: the first assignments under the lock, the rest outside it. After a
  garbled reply to Shutdown it is "broken" and does nothing more.
- `BridgeCrash`, `RunEnds` and `DeadlinePasses` are the environment. What the
  bridge does with a run (`run`, `agents`) is modelled from how the client uses it.

What prompts, usage records and stream chunks contain is left out: no control
depends on it but the run's status, which is kept.

### ConnectStream

`BridgeClient` knows a stream by its outcome; this module is what happens
inside. The bridge appends frames to `wire` (messages, keepalives, JSON that is no
object, bytes that are no JSON, and one EndStreamResponse); `ReadSome` hands out any
number of bytes up to what `_read_exact` asks for, `DecodeHeader` and `TakeFrame`
are the two halves of an iteration of `server_stream`, `Resume`, `ResumeLate` and
`StopIterating` the loop over the generator. Bytes are counted, not represented:
`pos` is the truth, `got` what the reader believes, and if they disagree a "header"
may decode into any frame. The outcomes: "ended" (a normal end), "raised" (a
`CursorBridgeError`), "escaped" (another exception), "left" (no longer iterated).

### BridgeDownload

`Stage` unpacks beside the managed path, `SaveOld` and `Publish` are the two
renames, `SwapFails` and `Restore` the `except BaseException` around them,
`Discard` the removal of the backup when its context ends. A rename raises
when another download took the directory or filled the place.

### InstallTransaction

One program counter; an action that writes more than a rename has two halves,
so that a failure can find it half done (`Torn`). Plugin, bridge and
configuration are known by whose content is in their place and in their
backup; the initial states are all homes with and without each of them.
`Raise` may happen before every statement or half way, so it stands for an
error of the statement as well as for KeyboardInterrupt; the handler is
`except BaseException`. The three `Undo` actions are the three parts of the
rollback, each of which catches its own `OSError` and may leave anything its
operations can leave. `Crash` is a kill, or a second interruption.
`raisedAt` is a history variable that only properties read.

Four windows and one case are excepted from `RolledBack`, each for the part it is about
only, because the code does not restore that part there: the plugin or the bridge
between its rename and its flag (368-369, 388-389); the configuration between
`config_path` and `config_existed` (396-397, where the rollback removes a configuration
it did not create), while `config.yaml` is copied to the backups (401), and wherever
`hermes config path` printed nothing (395), when the code makes the settings without a
backup. `PriorSurvives` has no exception for plugin and bridge, and the last three for
the configuration.

### RuntimeChoice and InstallCommand

A machine is a record: the platform, `HERMES_HOME`, the Desktop root, the homes that
exist, what is on PATH, the WSL distributions, the launchers that work, the checkout
each prints, whether it works or not, and the one that `~/.local/bin/hermes` may be a
link into. `Candidates`, `Probe`, `Identity`, `Classify` and `Preselected` are
functions of it, in the code's order; a checkout is known by the home that holds it.
`Probe` keeps three things apart that the code asks at different times: what the
launcher printed, what the links say, and the `root` it is classified by. A runtime
without a root is one that was found on PATH only; it is planned and installed for with
the checkout of the link (`SourceOf`), and it may be installed for although a launcher
changed in between tells nothing of its checkout (`SourceAgrees`).

`InstallCommand` extends `InstallTransaction`: the step that refuses or accepts an
installation (`Check`) is done by `Refuse` and `Identify`, every other step of the
transaction by `Transact`, and before it come `RefuseUnnamed`, `Discover`, `Requested`,
`Preselect`, `Answer` (the choice), `BuildPlan`, `Hash`, `Show` (plan and approval) and
`CompareDigest`. `Update` is the environment: Hermes is updated, moved or removed
between two steps. What the code does not read again is forgotten by the model.

### CredentialStore, LoginPoll and Login

Files are distinguished from names: `auth` and `tmp` are the file to which the
names `auth.json` and `auth.json.tmp` refer, `content[f]` what file `f`
contains and `handle[l]` the file a login has open. So a login that opens the
temporary file before another renames it writes into the published file. A
login restoring the old key goes through the same `Open`, `Write`, `Replace`. `Begin`
reads the key that is stored or, after an `OSError`, none: `missed` is history and
remembers the key that a forced login clears without having read it.
`Overlap` says whether logins may run at the same time.

`LoginPoll` has one action for each outcome of an attempt, in the order of the code's
branches. What a 404 means is decided by the test of its body (`IsRouteNotFoundBody`),
and any body may come at any time: a proxy may answer like a backend without the route,
and a missing route like a pending login. So the routes a backend has are no part of the
state; that of the login in the browser is (`browser`). An answer may be lost after the
backend acted on it. `row` and `odd` are history: how many of the last polls raised, and
whether the last answer was JSON without tokens. The delays between attempts are left
out: nothing but the number of attempts ends the poll.

`Login` puts a poll of its own into every login of `CredentialStore`: the step that
waits for the browser becomes `Handshake`, the steps of the poll and `Mint`; `Fail` and
`Die` end login and poll together.

### DeferHooks

The state is the call stack of the one thread that imports: frames of modules being
executed, of `_apply` and of `install_defer_hooks`. Hermes code, wherever it runs,
imports, defines, reads attributes and fails in any order, and loads the plugin at any
moment. `ReadAttribute` is `PendingModule.__getattribute__`, `BodyEnds` the
loader wrapper, `Import` the finder, `GuardFirst` and `GuardThen` `_guard`; `LookedUp`,
`Register`, `ApplyOk`, `ApplyNotOk` and `Raise` are `_apply` with the shims. `attrs`
lets a target be half executed; `alias` is the copy of the flow that `hermes_cli.main`
imported. `excused` is history and marks a target that met one of the three gaps
described in section 5.

### ToolTurn and StreamContract

A turn accepts calls (`Accept`) and is closed by `Return`, which hands over what
was accepted so far, or by `Raise`. The mapping sends `captured` to `accepted`
and `pc` to `turn`. A call accepted after its turn is closed is allowed, and
is what finding 1 is about.

A stream logs numbered messages and then one marker; the reader is handed them in
order, and is told "ended" only when it has all of a log that ended in order. The
mapping sends the program counter of the generator to the outcome.

## 3. Runs

| Run | Instance | Distinct states | Shows |
|---|---|---|---|
| `bridge_lifecycle` | a completion with a tool call, a `list_models`, a `close()`, RPC faults, fairness | 980,237 | `TypeOK`, `NoOrphanBridge`, `NoServerLeak`, `BridgeCanCallBack`, `ClosedOwnsNothing`, `SkippedCancelIsMoot`, `RequestLeavesNothing`, liveness `CapturedRunStops` |
| `bridge_turns` | 2 completions, 2 tool calls, loop mode | 3,597,989 | `SelfCancelNeverFails`, refinement `ImplementsToolTurn` |
| `bridge_ends` | a completion, a `list_models`, a `close()`, harness mode, fairness | 210,396 | `RunBySideOnce`, liveness `RequestsEnd`, `CloseEnds` |
| `bridge_deferred` | 1 completion, 2 tool calls | violated | finding 1 |
| `stream_contract` | headers of 3 bytes, bodies up to 2, 3 frames ahead, 2 messages, fairness | 162,812 | `TypeOK`, `InSync`, refinement `ImplementsContract`, liveness `StreamEnds` |
| `download_overlap` | 3 downloads | 4,903 | `TypeOK`, `ManagedIsWhole`, `MissingIsHeld`, `FailureChangesNothing` |
| `install_command` | every machine of two sets, every initial home | 1,224,344 | `CommandTypeOK`, `NoGuessing`, `HomeIsHonoured`, `NothingUnapproved`, `StartsAsPlanned`, and `RolledBack`, `InstalledIsWhole`, `PriorSurvives` of the transaction |
| `install_copyfault` | 1 installation | violated | finding 2 |
| `login_sequence` | 3 logins one at a time, 2 of them forced, 6 attempts, 3 errors | 2,898,512 | `LoginTypeOK`, `StoreIsWhole`, `NewestIsStored`, `MissingIsRemembered`, `GivesUpForAReason` |
| `credentials_overlap` | 2 overlapping logins | violated | finding 3 |
| `login_poll_invalid` | 1 poll | violated | finding 4 |
| `defer_hooks` | the three targets, no bound | 124,034 | `TypeOK`, `BusyIsApplying`, `HookInPlace`, `MachineryIsTemporary`, `MainUsesWrapper` |

The longest run takes about three minutes.

Why the bounds are enough to be interesting.

- *The client.* Two calls and two completions are the least with which a call can
  be lost, duplicated, reordered or given to another request. In the other two runs the
  second request replaces the bridge between the reads of the cancel thread or
  holds the lock during start-up, and the `close()` comes before, between or after
  both. In `bridge_turns` and `bridge_ends` `RpcFaults` is FALSE: an RPC then fails
  only on a dead bridge or after the deadline, which may both come at any time. A stream
  may be refused or break on a live bridge in every run (`StreamBreaks`). So in
  `bridge_lifecycle`, where the RPCs fail too, `RequestLeavesNothing` tells a request
  whose stream broke from one whose own CreateAgent or DeleteAgent failed.
  More requests and closers are covered by the proofs.
- *The stream.* Three frames ahead give a frame that is read while its successors
  are there to be run into; a header of three bytes can be cut in two places. The
  real header has five bytes; the proofs hold for any length.
- *Downloads.* Three give one that publishes between the two renames of another
  while a third restores.
- *The command.* `PosixMachines` has all combinations of a HERMES_HOME, `~/.hermes`, a
  Desktop checkout and a PATH launcher that may be a wrapper or a link; `WindowsMachines`
  of the three homes, PATH and two distributions. In both, two launchers may print
  another checkout than their own, or none, and fail or not: so HERMES_HOME and another
  home are merged with either launcher working. Two digests, two versions and two
  checkouts (`UpdatedRoots`) tell an updated launcher from the planned one.
- *Logins.* Three give a leftover temporary file, a restoration, and a login that
  finds both. Six attempts hold a fallback, two failures, a reset and the three failures
  that end the poll; the code has 150. `MaxAttempts` and `MaxErrors` are
  the code's own limits, `MaxLen`, `MaxAhead` and `MaxMessages` of the stream the only
  bounds of the model that guard an action.
- *Hooks.* There is nothing to bound: what is checked is every state.

Every configuration says `CHECK_DEADLOCK FALSE`: threads, installations,
downloads, streams and logins end, and then nothing is left to do. That they do not
stop before is what `RequestsEnd`, `CloseEnds` and `StreamEnds` say.

Symmetry is used over requests and calls (`bridge_turns`) and over downloads, where
the run checks no liveness and no constant tells the permuted values apart.

### Fairness

`FairSpec` of `BridgeClient` assumes weak fairness of each client thread
(`ThreadStep`, `HandlerStep`, `CancelStep`, `CloseStep`) and of
`DeadlinePasses`. `ThreadStep` is what a request's thread does by itself; that a live
bridge breaks its stream (`StreamBreaks`) is not forced, so a request that waits is saved
by its deadline only. Threads are scheduled by the operating system, each blocking
call has a time-out or a deadline (client 432 and 654, transport 584-613 and
677), and time passes. The bridge, the model (`Invoke`, `RunEnds`), a crash and
the caller of `close()` owe nothing. Weak fairness of a thread waiting for the
lock asks only that it gets it when it is free from then on; each request
takes it for start-up once, so it cannot be withheld for ever; with an
unending supply of requests this would need a fair lock, which `threading.Lock`
does not promise.

`FairSpec` of `ConnectStream` assumes weak fairness of the thread that iterates
(`ReaderStep`) and of `DeadlinePasses`. A read that finds nothing times out
(`ReadFails`), so the reader always has a step; the bridge owes nothing and may
send keepalives for ever.

## 4. Proofs

All hold for every value of the constants.

| Module | Theorems: what is proved of the specification |
|---|---|
| `BridgeClientProofs` | `TypeCorrect` (`TypeOK`), `NoBridgeIsForgotten` (`NoOrphanBridge`), `NoServerIsForgotten` (`NoServerLeak`), `PublishedBridgeCanCallBack` (`BridgeCanCallBack`), `ClosedClientOwnsNothing` (`ClosedOwnsNothing`), `OwnCancelIsNoFailure` (`SelfCancelNeverFails`), `UnlockedReadIsHarmless` (`SkippedCancelIsMoot`), `RequestCleansUp` (`RequestLeavesNothing`) |
| `BridgeClientRefines` | `ClientImplementsToolTurn` (`ImplementsToolTurn`), `CallRunsOnOneSide` (`RunBySideOnce`) |
| `ConnectStreamProofs` | `StreamTyped` (`TypeOK`), `StaysInSync` (`InSync`), `StreamRefinesContract` (`ImplementsContract`) |
| `BridgeDownloadProofs` | `TypeCorrect` (`TypeOK`), `ManagedStaysWhole` (`ManagedIsWhole`), `LastBridgeIsKept` (`MissingIsHeld`), `FailedChangesNothing` (`FailureChangesNothing`) |
| `InstallTransactionProofs` | `TypeCorrect` (`TypeOK`), `FailedInstallIsUndone` (`RolledBack`), `DoneIsWhole` (`InstalledIsWhole`), `NothingPriorIsLost` (`PriorSurvives`) |
| `InstallCommandProofs` | `CommandRunsTransaction` (`CommandSpec => Spec`), `CommandIsUndone` (`RolledBack`), `CommandLosesNothing` (`PriorSurvives`), `CommandIsWhole` (`InstalledIsWhole`), `NothingIsUnapproved` (`NothingUnapproved`), `PlanIsStarted` (`StartsAsPlanned`), `NothingIsGuessed` (`NoGuessing`), `ExplicitHomeIsHonoured` (`HomeIsHonoured`), `CommandIsTyped` (`CommandTypeOK`) |
| `LoginProofs` | `LoginTyped` (`LoginTypeOK`), `StoreStaysWhole` (`StoreIsWhole`), `NewestStaysStored` (`NewestIsStored`), `KeyIsNotLost` (`MissingIsRemembered`), `PollGivesUpForAReason` (`GivesUpForAReason`), `LoginIsStoreLogin` (`LoginSpec => Spec`) |
| `DeferHooksProofs` | `HooksInvariant`, `HooksAreTyped` (`TypeOK`), `BusyIsExact` (`BusyIsApplying`), `HooksAreInPlace` (`HookInPlace`), `MachineryGoes` (`MachineryIsTemporary`), `MainGetsTheWrapper` (`MainUsesWrapper`) |

The assumptions are those named in the modules: `BridgeAssumption`,
`DownloadAssumption`, `InstallAssumption`, `ChoiceAssumption` and `CredentialAssumption`
(constants are subsets and distinct values), `UpdateAssumption` (an updated launcher is
in some checkout), `StreamAssumption` (natural numbers, a header is not empty) and
`LoginAssumption` (logins one at a time, bounds are numbers).

**The client.** None of the safety properties is inductive by itself. The
inductive invariant is `TypeOK /\ Lifecycle /\ RunInv /\ SkippedCancelIsMoot`.
`Lifecycle` ties lock, processes and servers together: a starting process
belongs to the holder of the lock, the holder's `pc` is "starting", the server
it was told of is the client's and serves, and a server no longer the client's
is held by a `close()`. From it follow the lifecycle
properties; the step that needs all of it is a `close()` that takes process and
server while none is starting, which is why `_lock` must be held through
start-up. `RunInv` relates handlers, captured calls, cancel threads and run
states: a run becomes "cancelled" only after a handler captured a call for it.
`SkippedCancelIsMoot` is carried along: `bridge` is None either before the
run's bridge was published, or because a `close()` took it.
`RequestCleansUp` rests on `LeftInv`, which says for every program counter
whether the run is registered and whether the agent is still in the store; the
reasons that excuse an agent left behind never go away again (`ReasonsStay`). It holds
for either value of `RpcFaults`: what excuses an agent is a failed RPC of the request
itself (`rpcFailed`), not that RPCs may fail.

**The refinement.** `TurnInv` says that a call still on its way is in no list
and that a captured one is in the list of its own run only, once. With it each
action of the client is an `Accept`, a `Return`, a `Raise`, or leaves the mapped
variables unchanged. `CallRunsOnOneSide` adds `ReturnedWasCaptured`: a returned call's
handler took the branch that captures (`CaptureGrows`: lists only grow).

**The stream.** `TypeOK /\ InSync /\ Numbered` is inductive. `InSync` is what makes
the decoded header the true one; `Numbered`, that messages are numbered without a
gap along what was delivered and what is on the wire, is then enough for every
taken frame to be the contract's `Deliver` of the next message, or its `End`.

**The download.** `TypeOK /\ ManagedIsWhole /\ MissingIsHeld` is inductive;
`TypeOK` includes that what is about to be published is whole and that a backup
is torn only in the hands of a download that is past its swap.
`FailedChangesNothing` adds `SoloInv`, what a download has moved at each of its steps.

**The installation.** `TypeOK /\ Phase /\ PluginInv /\ BridgeInv /\ ConfigInv` is
inductive. The properties speak of the end of an installation; each part's
invariant says for every step, and for every step at which it raised (`At`),
what is in the part's place and in its backup and what the flags tell the
rollback. The `Undo` action of the part then restores it from these facts
alone. The excepted windows are the steps at which place and flags disagree, and the
steps after a path that was not reported, of which `ConfigInv` promises nothing.

**The command.** Each of its steps is a step of `InstallTransaction` or leaves the
home alone, so its theorems hold of `install`. `StartInv` adds what was approved and
compared: `InStep` ties the two program counters, `Consented` the approval to the
options, `DigestAgrees` the launcher to the plan since the comparison unless `touched`.

**The choice.** `ChoiceInv` says that `found` is what the machine's candidates were
probed to be and that the runtime of the plan is an entry of `Classify` that was named,
asked for, or the one to preselect. The rest is about the functions of the machine:
`Candidates` is eight parts of at most one candidate each, so the parts that may carry a
hint, a home or an identity are known by their place (`CandidatesHaveShape`); an
identity is one backend (`OneIdentityOneBackend`), which is where a WSL distribution has
to be a platform of its own; every candidate that works is in the group of a usable
runtime (`RuntimeOfCandidate`, `FirstIsThere`: the first of a finite group is the least
place, for which the natural numbers are enough); so a single preselected runtime is the
backend of them all. For `HomeIsHonoured`, a runtime has the root of each of its
candidates, and the explicit-home candidate, when it is in the group, is the one the
runtime is named after and has the home of (`ExplicitNamesRuntime`), whichever of the
group works and gives it launcher and version.

**The logins.** `StoreInv` is inductive while logins come one at a time (`OneLogin`):
`NamesAreFresh` says that the name of a file a login has yet to create is in no use,
`SaveInv` how far the file behind `auth.json.tmp` is at each step of a save, and
`BackupInv` that a key in memory is the newest one, or was saved by a login that was
then interrupted and remembers the newest (`Current`).
For the poll, the error count is never ahead of the row of failures, so it reaches
its limit only when that many polls in a row have failed. The refinement
(`LoginIsStoreLogin`) has `Handshake` and the steps of the poll as stutters of the store;
`Mint`, `Fail` and `Die` are the store's own steps with the end of the poll added.

**The hooks.** The module has no constants and TLC sees all of its states; the proof
says why, and does not bound the stack. `HooksInv` speaks of its frames. `ReachInv` is
what `HookInPlace` needs: once the plugin is loaded, a pending target that is there is
guarded, excused, or some frame will try it (`Coming`: the loader wrapper when the body
is done, or `install_defer_hooks` when it comes to it). It would be lost if a frame that
owes a try went away without one, so `LoaderInv` says that behind its module's body the
wrapper does nothing but call `_apply`; if a module could go while its hook is put in
place, so `ExecInv` says that a module is executed by one frame, below all that hold it;
and if something had been hooked or guarded before, so `BeforeInv`. `BusyInv` and
`Single`, that no target is executed or applied twice at once, give `BusyIsApplying`
and, counted, the depth of the stack. One lemma for each way an action ends says that it
keeps `HooksInv`; three lemmas (`ComingUnderPush`, `...Replace`, `...Pop`) say what
becomes of `Coming` when the stack changes.

Model-checked only:

- `CapturedRunStops`, `RequestsEnd`, `CloseEnds`, `StreamEnds`: liveness under
  fairness is not within the prover's reach.

Every safety property that a passing run checks is also a theorem.

## 5. Findings

Each is the violation run of the same name, where TLC prints the steps.

1. `bridge_deferred`: a tool call captured after its request copied
   `captured_calls` (client 726) is answered with "Hermes executes this tool
   and will continue the conversation" (client 77), and nobody executes it.
2. `install_copyfault`: `config_backup` is assigned before it is filled
   (installer 400-401); if the copy is cut short the rollback copies the half
   copy over the untouched `config.yaml`.
3. `credentials_overlap`: saves share the name `auth.json.tmp`; one login may
   truncate the file another has just published.
4. `login_poll_invalid`: the error count is reset before the answer is parsed
   (auth 159-160), so a backend or proxy that answers 200 with something other
   than JSON is polled for all 150 attempts instead of three.

What the models show besides, where the source promises nothing or the property
excepts it by name:

- *Client.* The run is registered (client 673) and the agent created before the prompt
  is formatted (674), which raises for a content `json.dumps` cannot write (118); the
  `try` that cleans up starts at 682. Run and agent stay, also on a live bridge with
  time left, although the agent is to be deleted "so bridge-store state does not pile
  up" (778): `RequestLeavesNothing` excepts this exit, "unformatted". A request whose
  deadline has passed never sends DeleteAgent (client 784: `_remaining_timeout` raises
  first), so its agent stays in the bridge's store until the bridge ends; so does one
  whose CreateAgent was carried out and the reply lost. A garbled reply to Shutdown
  leaves `close()` as an `HTTPException` (client 498), and process and callback server
  go on: `NoOrphanBridge`, `NoServerLeak`, `SkippedCancelIsMoot` and `CapturedRunStops`
  except such a `close()`, and so disclose this hazard and do not catch it.
- *Stream.* A garbled EndStreamResponse (transport 661) and an `HTTPException` of
  `read1` (transport 698-705) leave as exceptions that are no
  `CursorBridgeError`: the outcome "escaped". An empty reply to a unary RPC is taken for
  an empty object (transport 607).
- *Installation.* When `hermes config path` prints nothing (installer 395) the settings
  are made without the "Snapshot profile config before provider install" (install_plan
  186) that every plan lists, and the rollback leaves them there. An installation
  interrupted in one of the four windows of section 2 is not rolled back, though plugin
  and bridge are still in the backup. Overlapping installations of one home share the
  bridge directory, and within one second also the backup of `config.yaml` (installer
  400), which `docs/update-survival.md:38` restores from.
- *Command.* A launcher that fails but prints a checkout hints at its group all the same
  (discovery 116, system_discovery 249): a legacy home that only such a `hermes` on PATH
  points to is preselected beside a usable Hermes in WSL, where
  `docs/runtime-discovery.md:26` has "display all and require runtime id". `NoGuessing`
  lets a candidate point to a Hermes whether it works or not. Between the comparison of
  the digest and the end of the installation the launcher is not compared again
  (`touched`). The capability probe and the digest are not tied together (install_plan
  164-178): Hermes may be updated between them. On Windows the current home, if it has a
  checkout of its own that works, is preselected although HERMES_HOME names another
  whose Hermes does not (`HomeIsHonoured` is about one Hermes with several homes). A
  runtime known by its PATH launcher only may be replaced by one that tells nothing of
  its checkout (installer 342-347 accepts it). A blank HERMES_HOME with a Desktop root
  makes the home `Path("")`, the working directory (system_discovery 69).
- *Logins.* An `OSError` in reading the store counts as no key (auth 264-265): a forced
  login then clears a good key it has no copy of (setup 14-20), and when it fails
  restores nothing. `MissingIsRemembered` excepts the key that could not be read
  (`missed`). A KeyboardInterrupt after the store was cleared and before the `try` that
  restores it (setup 20-21) loses the key. After the fallback to GET, which any 404 with
  the right body brings about, the verifier is in the URL (auth 128-143) for the rest of
  the poll, whether or not the backend has the POST route.
- *Hooks.* Three cases in which a hook is never tried again (`HookInPlace` excuses
  them): an import that fails with the hook in place and is repeated; an `auth` that came
  in through the loader wrapper and found no profile; and the targets behind one whose
  hook raised while the plugin was being loaded.

## 6. Not modelled

- Prompt, transcript and stream chunk contents, usage numbers, model names and
  error wording: data no control depends on.
- The HTTP parsing of the callback server, and the call identifiers
  (`_next_call_id`, client 609): a call is known by its value.
- The callback wire codec: a pure function on bytes without state. A body it
  rejects is answered 400 and reaches no handler.
- Two installations of one home at once: the source promises nothing of them, and
  what one of them promises does not hold of two.
- Other threads in the hooks: `_pending` and `_busy` are unlocked; Python's import
  lock serialises the imports in which the hooks run, attribute accesses of other
  threads are not covered. What the wrappers do when Hermes calls them is left out.
- How the ready line and the bridge's command line are put together;
  `resolve_bridge_command` is part of "the start fails or not".
- The scripts that the probes and the receipt run inside Hermes: they are known by what
  they may report. The `wsl.exe` calls that list distributions likewise.
- Manifest, rendering, bootstrap scripts: validation, text and I/O.

## 7. Plan

Done, in the order of importance: `BridgeClient` with its proofs and
refinement, `InstallTransaction` and `BridgeDownload` with theirs, `ConnectStream` with
its contract, `InstallCommand` over `RuntimeChoice`, `Login` over `CredentialStore` and
`LoginPoll`, `DeferHooks`. What would come next:

1. Two installations of one home, with what could be promised of them: that no
   rollback removes what the other has finished.
2. Threads in `DeferHooks`: one stack for each, with the import lock.
3. The wire codec as a pure function against a reference definition on bounded inputs.
