---------------------------- MODULE BridgeClient ----------------------------
(***************************************************************************)
(* CursorBridgeClient (plugin/model-providers/cursor/                      *)
(* cursor_bridge_client.py): the object Hermes drives instead of an OpenAI *)
(* client.  It is shared by several kinds of thread:                       *)
(*                                                                         *)
(*   - request threads, each in one _create_chat_completion or one         *)
(*     list_models;                                                        *)
(*   - the handler threads of the loopback callback server, one for each   *)
(*     tool call the Cursor model makes;                                   *)
(*   - the cancel threads those handlers start, one for each run at most;  *)
(*   - threads in close().                                                 *)
(*                                                                         *)
(* Around them are the bridge processes, which may crash, and the runs the *)
(* bridge executes.  A request makes at most one agent and starts at most  *)
(* one bridge process and one callback server, so agents, runs, processes  *)
(* and servers are named by the request that made them: no bound is set.   *)
(* _process and _transport are assigned together, always under _lock, and  *)
(* are the one variable bridge.                                            *)
(***************************************************************************)
EXTENDS FiniteSets, Sequences, Functions

CONSTANTS Requests,   \* the request threads
          Listers,    \* those in list_models; the others want a completion
          Calls,      \* the tool calls the model may make
          Declared,   \* the calls whose tool Hermes declared
          Closers,    \* the threads that call close()
          ToolMode,   \* "loop" or "harness"
          RpcFaults,  \* whether an RPC to a live bridge may fail
          None

ASSUME BridgeAssumption ==
    /\ Listers \subseteq Requests
    /\ Declared \subseteq Calls
    /\ ToolMode \in {"loop", "harness"}
    /\ RpcFaults \in BOOLEAN
    /\ None \notin Requests

VARIABLES
    lock,         \* _lock: the request that holds it across steps, or None
    bridge,       \* _process and _transport: the published bridge, or None
    server,       \* _callback_server, or None
    isClosed,     \* is_closed
    activeRuns,   \* keys of _active_runs
    proc,         \* proc[p]: "none", "starting", "ready" or "dead"
    cbServer,     \* cbServer[p]: the callback server process p was told of
    serverUp,     \* the callback servers that are serving
    agents,       \* agents in the bridges' store
    run,          \* run[r]: the Cursor run of r's agent
    pc,           \* pc[r]: where request r is
    conn,         \* conn[r]: the bridge behind r's transport, or None
    expired,      \* requests whose deadline has passed
    status,       \* status[r]: the run status r's stream reported
    raised,       \* requests whose stream loop ended with an exception
    rpcFailed,    \* history: requests whose CreateAgent or DeleteAgent failed although
                  \* the bridge was alive and the deadline had not passed
    captured,     \* captured[r]: captured_calls of r's _ActiveRun
    cancelAsked,  \* requests whose _ActiveRun has cancel_requested set
    cancelPc,     \* cancelPc[r]: where the cancel thread of r's run is
    returned,     \* returned[r]: the tool calls of the completion r returned
    cbPc,         \* cbPc[c]: where the handler of tool call c is
    cbRun,        \* cbRun[c]: the run that made call c, or None
    closerPc, closerBridge, closerServer  \* close(): pc and its local variables

clientVars == <<lock, bridge, server, isClosed>>
worldVars  == <<proc, cbServer, serverUp>>
runVars    == <<activeRuns, captured, cancelAsked>>
storeVars  == <<agents, run>>
reqData    == <<conn, expired, status, raised, rpcFailed, returned>>
reqVars    == <<pc, reqData>>
cbVars     == <<cbPc, cbRun>>
closerVars == <<closerPc, closerBridge, closerServer>>
sideVars   == <<cbVars, closerVars, cancelPc>>
vars == <<clientVars, worldVars, runVars, storeVars, reqVars, sideVars>>

RunStatuses == {"finished", "error", "cancelled"}
Ended == {"done", "failed", "refused", "unformatted"}

Init ==
    /\ lock = None /\ bridge = None /\ server = None /\ isClosed = FALSE
    /\ activeRuns = {} /\ serverUp = {} /\ agents = {}
    /\ expired = {} /\ raised = {} /\ rpcFailed = {} /\ cancelAsked = {}
    /\ proc = [p \in Requests |-> "none"]
    /\ cbServer = [p \in Requests |-> None]
    /\ run = [r \in Requests |-> "none"]
    /\ pc = [r \in Requests |-> "ensure"]
    /\ conn = [r \in Requests |-> None]
    /\ status = [r \in Requests |-> ""]
    /\ captured = [r \in Requests |-> <<>>]
    /\ returned = [r \in Requests |-> <<>>]
    /\ cancelPc = [r \in Requests |-> "idle"]
    /\ cbPc = [c \in Calls |-> "unsent"]
    /\ cbRun = [c \in Calls |-> None]
    /\ closerPc = [k \in Closers |-> "idle"]
    /\ closerBridge = [k \in Closers |-> None]
    /\ closerServer = [k \in Closers |-> None]

-----------------------------------------------------------------------------
(* _ensure_bridge *)

Alive(p) == p # None /\ proc[p] = "ready"

\* where a request goes with the transport it was given
FirstRpc(r) == IF r \in Listers THEN "list" ELSE "create"

\* the published bridge is alive: share it
EnsureReuse(r) ==
    /\ pc[r] = "ensure" /\ lock = None /\ r \notin expired
    /\ Alive(bridge)
    /\ conn' = [conn EXCEPT ![r] = bridge]
    /\ pc' = [pc EXCEPT ![r] = FirstRpc(r)]
    /\ UNCHANGED <<clientVars, worldVars, runVars, storeVars, expired, status,
                   raised, rpcFailed, returned, sideVars>>

\* the deadline passed before or while waiting for the lock, or a bridge must
\* be started and there is no credential or no bridge command
EnsureRefuse(r) ==
    /\ pc[r] = "ensure"
    /\ \/ r \in expired
       \/ lock = None /\ ~Alive(bridge)
    /\ pc' = [pc EXCEPT ![r] = "refused"]
    /\ UNCHANGED <<clientVars, worldVars, runVars, storeVars, reqData, sideVars>>

\* start a bridge: the callback server first, unless one is still there
ServersStarted(r) == IF server = None THEN serverUp \union {r} ELSE serverUp

Spawn(r, servers) ==
    /\ pc[r] = "ensure" /\ lock = None /\ r \notin expired
    /\ lock' = r
    /\ server' = IF server = None THEN r ELSE server
    /\ serverUp' = servers
    /\ proc' = [proc EXCEPT ![r] = "starting"]
    /\ cbServer' = [cbServer EXCEPT ![r] = server']
    /\ pc' = [pc EXCEPT ![r] = "starting"]
    /\ UNCHANGED <<bridge, isClosed, runVars, storeVars, reqData, sideVars>>

\* mutants: no is_alive() check; start() before the server is created
SpawnAlways(r) == Spawn(r, ServersStarted(r))
SpawnServesFirst(r) == ~Alive(bridge) /\ Spawn(r, serverUp \union {server})

EnsureSpawn(r) == ~Alive(bridge) /\ Spawn(r, ServersStarted(r))

\* the ready line came: publish process and transport, release the lock
Publish(r, closed) ==
    /\ pc[r] = "starting" /\ proc[r] = "starting"
    /\ proc' = [proc EXCEPT ![r] = "ready"]
    /\ bridge' = r /\ isClosed' = closed /\ lock' = None
    /\ conn' = [conn EXCEPT ![r] = r]
    /\ pc' = [pc EXCEPT ![r] = FirstRpc(r)]
    /\ UNCHANGED <<server, cbServer, serverUp, runVars, storeVars, expired, status,
                   raised, rpcFailed, returned, sideVars>>

PublishClosed(r) == Publish(r, isClosed)  \* mutant: is_closed is not reset

StartReady(r) == Publish(r, FALSE)

\* no launch, no ready line in time, or an invalid one: the process is killed,
\* the callback server is dropped and stopped, the lock is released
AbandonStart(r, newServer, servers, newLock) ==
    /\ pc[r] = "starting"
    /\ proc' = [proc EXCEPT ![r] = "dead"]
    /\ server' = newServer /\ serverUp' = servers /\ lock' = newLock
    /\ pc' = [pc EXCEPT ![r] = "refused"]
    /\ UNCHANGED <<bridge, isClosed, cbServer, runVars, storeVars, reqData, sideVars>>

\* mutants: the server is not stopped; is stopped and kept; the lock is kept
FailServesOn(r) == AbandonStart(r, None, serverUp, None)
FailKeepsServer(r) == AbandonStart(r, server, serverUp \ {server}, None)
FailKeepsLock(r) == AbandonStart(r, None, serverUp \ {server}, lock)

StartFail(r) == AbandonStart(r, None, serverUp \ {server}, None)

-----------------------------------------------------------------------------
(* list_models and _create_chat_completion *)

\* an RPC of r may be answered, or may fail, on the transport r was given
Answers(r) == Alive(conn[r]) /\ r \notin expired
TimesOutNever(r) == ~Alive(conn[r])  \* mutant: the deadline is not passed on
MustFail(r) == ~Alive(conn[r]) \/ r \in expired
Fails(r) == MustFail(r) \/ RpcFaults
RpcFailedWith(r) == IF MustFail(r) THEN rpcFailed ELSE rpcFailed \union {r}

\* the answer of a live bridge is no HTTP, or its body is cut: an HTTPException, which
\* is neither an OSError nor a CursorBridgeError
Garbled(p) == Alive(p) /\ RpcFaults

ListModels(r) ==
    /\ pc[r] = "list"
    /\ \/ Answers(r) /\ pc' = [pc EXCEPT ![r] = "done"]
       \/ Fails(r)   /\ pc' = [pc EXCEPT ![r] = "refused"]
    /\ UNCHANGED <<clientVars, worldVars, runVars, storeVars, reqData, sideVars>>

CreateAgent(r) ==
    /\ pc[r] = "create" /\ Answers(r)
    /\ agents' = agents \union {r}
    /\ activeRuns' = activeRuns \union {r}
    /\ pc' = [pc EXCEPT ![r] = "send"]
    /\ UNCHANGED <<clientVars, worldVars, captured, cancelAsked, run, reqData,
                   sideVars>>

\* raises before the run is registered; the reply, not the request, may be lost
CreateAgentFails(r) ==
    /\ pc[r] = "create" /\ Fails(r)
    /\ \/ agents' = agents
       \/ Alive(conn[r]) /\ agents' = agents \union {r}
    /\ rpcFailed' = RpcFailedWith(r)
    /\ pc' = [pc EXCEPT ![r] = "refused"]
    /\ UNCHANGED <<clientVars, worldVars, runVars, run, conn, expired, status, raised,
                   returned, sideVars>>

\* format_messages_as_prompt raises, for a content json.dumps cannot write: the run is
\* registered and the try with its finally is not entered yet
PromptFails(r) ==
    /\ pc[r] = "send"
    /\ pc' = [pc EXCEPT ![r] = "unformatted"]
    /\ UNCHANGED <<clientVars, worldVars, runVars, storeVars, reqData, sideVars>>

OpenStream(r) ==
    /\ pc[r] = "send" /\ Answers(r)
    /\ run' = [run EXCEPT ![r] = "running"]
    /\ pc' = [pc EXCEPT ![r] = "streaming"]
    /\ UNCHANGED <<clientVars, worldVars, runVars, agents, reqData, sideVars>>

\* the stream ends in order; its result message may be missing
StreamEnd(r) ==
    /\ pc[r] = "streaming" /\ Answers(r)
    /\ run[r] \in RunStatuses
    /\ \E s \in {run[r], ""} : status' = [status EXCEPT ![r] = s]
    /\ pc' = [pc EXCEPT ![r] = "pop"]
    /\ UNCHANGED <<clientVars, worldVars, runVars, storeVars, conn, expired,
                   raised, rpcFailed, returned, sideVars>>

\* the stream loop ends with an exception
BreakOff(r, next) ==
    /\ pc[r] \in {"send", "streaming"}
    /\ raised' = raised \union {r}
    /\ pc' = [pc EXCEPT ![r] = next]
    /\ UNCHANGED <<clientVars, worldVars, runVars, storeVars, conn, expired,
                   status, rpcFailed, returned, sideVars>>

\* mutant: no finally
BreakOffAtOnce(r) == Answers(r) /\ BreakOff(r, "collect")

\* the bridge is dead, or the time is over
StreamFail(r) == MustFail(r) /\ BreakOff(r, "pop")

\* a live bridge refuses the stream, breaks it or ends it with an error
StreamBreaks(r) == Answers(r) /\ BreakOff(r, "pop")

PopRun(r) ==
    /\ pc[r] = "pop"
    /\ activeRuns' = activeRuns \ {r}
    /\ pc' = [pc EXCEPT ![r] = "delete"]
    /\ UNCHANGED <<clientVars, worldVars, captured, cancelAsked, storeVars,
                   reqData, sideVars>>

\* _cleanup_agent: after the deadline nothing is sent; a CursorBridgeError is swallowed,
\* while the exception of a garbled answer ends the request like one of the stream loop
DeleteAgent(r) ==
    /\ pc[r] = "delete"
    /\ \/ Answers(r) /\ agents' = agents \ {r} /\ UNCHANGED <<raised, rpcFailed>>
       \/ Fails(r) /\ agents' = agents /\ UNCHANGED raised /\ rpcFailed' = RpcFailedWith(r)
       \/ /\ Garbled(conn[r]) /\ agents' \in {agents, agents \ {r}}
          /\ raised' = raised \union {r} /\ rpcFailed' = RpcFailedWith(r)
    /\ pc' = [pc EXCEPT ![r] = "collect"]
    /\ UNCHANGED <<clientVars, worldVars, runVars, run, conn, expired, status, returned,
                   sideVars>>

\* mutant: captured calls are not looked at
UnusableByStatus(r) == r \in raised \/ status[r] \notin {"", "finished"}

\* the exception of the stream loop propagates, or the run ended badly with
\* nothing captured
Unusable(r) ==
    \/ r \in raised
    \/ captured[r] = <<>> /\ status[r] \notin {"", "finished"}

Fail(r) ==
    /\ pc[r] = "collect" /\ Unusable(r)
    /\ pc' = [pc EXCEPT ![r] = "failed"]
    /\ UNCHANGED <<clientVars, worldVars, runVars, storeVars, reqData, sideVars>>

Return(r) ==
    /\ pc[r] = "collect" /\ ~Unusable(r)
    /\ returned' = [returned EXCEPT ![r] = captured[r]]
    /\ pc' = [pc EXCEPT ![r] = "done"]
    /\ UNCHANGED <<clientVars, worldVars, runVars, storeVars, conn, expired,
                   status, raised, rpcFailed, sideVars>>

-----------------------------------------------------------------------------
(* _handle_tool_callback and _request_cancel *)

\* the run is executing on a live bridge
RunLive(r) == run[r] = "running" /\ r \in agents /\ Alive(conn[r])

\* the model calls a tool; the request reaches the bridge's callback server
Invoke(c, r) ==
    /\ cbPc[c] = "unsent" /\ RunLive(r)
    /\ cbServer[conn[r]] \in serverUp
    /\ cbPc' = [cbPc EXCEPT ![c] = "lookup"]
    /\ cbRun' = [cbRun EXCEPT ![c] = r]
    /\ UNCHANGED <<clientVars, worldVars, runVars, storeVars, reqVars,
                   closerVars, cancelPc>>

\* find the run, check the tool, choose by the mode
Lookup(c) ==
    /\ cbPc[c] = "lookup"
    /\ cbPc' = [cbPc EXCEPT ![c] =
            IF cbRun[c] \notin activeRuns \/ c \notin Declared THEN "rejected"
            ELSE IF ToolMode = "harness" THEN "executing" ELSE "found"]
    /\ UNCHANGED <<clientVars, worldVars, runVars, storeVars, reqVars, cbRun,
                   closerVars, cancelPc>>

\* _execute_tool_inline
Execute(c, newCaptured) ==
    /\ cbPc[c] = "executing"
    /\ captured' = newCaptured
    /\ cbPc' = [cbPc EXCEPT ![c] = "executed"]
    /\ UNCHANGED <<clientVars, worldVars, activeRuns, cancelAsked, storeVars, reqVars,
                   cbRun, closerVars, cancelPc>>

\* mutant: no return after the inline execution
ExecuteAndCapture(c) == Execute(c, [captured EXCEPT ![cbRun[c]] = Append(@, c)])

ExecuteInline(c) == Execute(c, captured)

\* _ActiveRun.capture
Record(c, calls) ==
    /\ cbPc[c] = "found"
    /\ captured' = [captured EXCEPT ![cbRun[c]] = calls]
    /\ cbPc' = [cbPc EXCEPT ![c] = "captured"]
    /\ UNCHANGED <<clientVars, worldVars, activeRuns, cancelAsked, storeVars, reqVars,
                   cbRun, closerVars, cancelPc>>

CaptureLast(c) == Record(c, <<c>>)  \* mutant: the last call replaces the others

Capture(c) == Record(c, Append(captured[cbRun[c]], c))

\* ask for the cancel once, then answer with _DEFERRED_TOOL_RESULT
Defer(c, cancels) ==
    /\ cbPc[c] = "captured"
    /\ cancelAsked' = cancelAsked \union {cbRun[c]}
    /\ cancelPc' = IF cancels THEN [cancelPc EXCEPT ![cbRun[c]] = "list"] ELSE cancelPc
    /\ cbPc' = [cbPc EXCEPT ![c] = "deferred"]
    /\ UNCHANGED <<clientVars, worldVars, activeRuns, captured, storeVars, reqVars,
                   cbRun, closerVars>>

\* mutant: the test of cancel_requested is inverted
DeferWithoutCancel(c) == Defer(c, cbRun[c] \in cancelAsked)

DeferAnswer(c) == Defer(c, cbRun[c] \notin cancelAsked)

\* the cancel thread reads _transport without the lock and lists the runs: it
\* gives up without a transport, on an error, or when no run is left to cancel
CancelList(r) ==
    /\ cancelPc[r] = "list"
    /\ \E next \in {"cancel", "skipped", "failed", "over"} :
        /\ CASE next = "skipped" -> bridge = None
             [] next = "failed"  -> bridge # None /\ (~Alive(bridge) \/ RpcFaults)
             [] next = "cancel"  -> Alive(bridge) /\ bridge = conn[r] /\ RunLive(r)
             [] next = "over"    -> Alive(bridge) /\ ~(bridge = conn[r] /\ RunLive(r))
        /\ cancelPc' = [cancelPc EXCEPT ![r] = next]
    /\ UNCHANGED <<clientVars, worldVars, runVars, storeVars, reqVars, cbVars,
                   closerVars>>

\* CancelRun, on the transport read before; never repeated
CancelRun(r) ==
    /\ cancelPc[r] = "cancel"
    /\ \/ /\ RunLive(r)
          /\ run' = [run EXCEPT ![r] = "cancelled"]
          /\ cancelPc' = [cancelPc EXCEPT ![r] = "over"]
       \/ /\ ~RunLive(r)
          /\ run' = run
          /\ cancelPc' = [cancelPc EXCEPT ![r] = "over"]
       \/ /\ RpcFaults
          /\ run' = run
          /\ cancelPc' = [cancelPc EXCEPT ![r] = "failed"]
    /\ UNCHANGED <<clientVars, worldVars, runVars, agents, reqVars, cbVars,
                   closerVars>>

-----------------------------------------------------------------------------
(* close *)

\* Hermes may close the client at any time, or never
CallClose(k) ==
    /\ closerPc[k] = "idle"
    /\ closerPc' = [closerPc EXCEPT ![k] = "lock"]
    /\ UNCHANGED <<clientVars, worldVars, runVars, storeVars, reqVars, cbVars,
                   closerBridge, closerServer, cancelPc>>

\* under the lock: take transport, process and server away from the client
CloseTake(k) ==
    /\ closerPc[k] = "lock" /\ lock = None
    /\ isClosed' = TRUE
    /\ closerBridge' = [closerBridge EXCEPT ![k] = bridge]
    /\ closerServer' = [closerServer EXCEPT ![k] = server]
    /\ bridge' = None /\ server' = None
    /\ closerPc' = [closerPc EXCEPT ![k] = "shutdown"]
    /\ UNCHANGED <<lock, worldVars, runVars, storeVars, reqVars, cbVars,
                   cancelPc>>

\* the Shutdown RPC ends the process or fails; either way close() goes on, except that
\* a garbled answer raises out of it
Shutdown(k, next) ==
    /\ closerPc[k] = "shutdown"
    /\ \/ proc' = proc
       \/ /\ Alive(closerBridge[k])
          /\ proc' = [proc EXCEPT ![closerBridge[k]] = "dead"]
    /\ \/ closerPc' = [closerPc EXCEPT ![k] = next]
       \/ Garbled(closerBridge[k]) /\ closerPc' = [closerPc EXCEPT ![k] = "broken"]
    /\ UNCHANGED <<clientVars, cbServer, serverUp, runVars, storeVars, reqVars, cbVars,
                   closerBridge, closerServer, cancelPc>>

ShutdownIsEnough(k) == Shutdown(k, "server")  \* mutant: the process is not stopped

CloseShutdown(k) == Shutdown(k, "stop")

\* CursorBridgeProcess.stop: terminate, then kill
CloseStop(k) ==
    /\ closerPc[k] = "stop"
    /\ proc' = IF closerBridge[k] = None THEN proc
               ELSE [proc EXCEPT ![closerBridge[k]] = "dead"]
    /\ closerPc' = [closerPc EXCEPT ![k] = "server"]
    /\ UNCHANGED <<clientVars, cbServer, serverUp, runVars, storeVars, reqVars,
                   cbVars, closerBridge, closerServer, cancelPc>>

\* _ToolCallbackServer.stop: handlers already running go on
CloseServer(k) ==
    /\ closerPc[k] = "server"
    /\ serverUp' = serverUp \ {closerServer[k]}
    /\ closerPc' = [closerPc EXCEPT ![k] = "closed"]
    /\ UNCHANGED <<clientVars, proc, cbServer, runVars, storeVars, reqVars,
                   cbVars, closerBridge, closerServer, cancelPc>>

-----------------------------------------------------------------------------
(* the bridge and the clock *)

BridgeCrash(p) ==
    /\ proc[p] \in {"starting", "ready"}
    /\ proc' = [proc EXCEPT ![p] = "dead"]
    /\ UNCHANGED <<clientVars, cbServer, serverUp, runVars, storeVars, reqVars,
                   sideVars>>

\* a run fails at any time; it finishes once its tool calls are answered
Unanswered == {c \in Calls : cbPc[c] \in {"lookup", "executing", "found", "captured"}}

RunEnds(r) ==
    /\ RunLive(r)
    /\ \/ run' = [run EXCEPT ![r] = "error"]
       \/ /\ \A c \in Unanswered : cbRun[c] # r
          /\ run' = [run EXCEPT ![r] = "finished"]
    /\ UNCHANGED <<clientVars, worldVars, runVars, agents, reqVars, sideVars>>

DeadlinePasses(r) ==
    /\ pc[r] \notin Ended /\ r \notin expired
    /\ expired' = expired \union {r}
    /\ UNCHANGED <<clientVars, worldVars, runVars, storeVars, pc, conn, status,
                   raised, rpcFailed, returned, sideVars>>

-----------------------------------------------------------------------------
\* the steps a request's own thread takes
ThreadStep(r) ==
    \/ EnsureReuse(r) \/ EnsureRefuse(r) \/ EnsureSpawn(r)
    \/ StartReady(r) \/ StartFail(r)
    \/ ListModels(r) \/ CreateAgent(r) \/ CreateAgentFails(r)
    \/ PromptFails(r) \/ OpenStream(r) \/ StreamEnd(r) \/ StreamFail(r)
    \/ PopRun(r) \/ DeleteAgent(r) \/ Fail(r) \/ Return(r)

RequestStep(r) == ThreadStep(r) \/ StreamBreaks(r)

HandlerStep(c) == Lookup(c) \/ ExecuteInline(c) \/ Capture(c) \/ DeferAnswer(c)

CancelStep(r) == CancelList(r) \/ CancelRun(r)

CloseStep(k) ==
    CloseTake(k) \/ CloseShutdown(k) \/ CloseStop(k) \/ CloseServer(k)

Next ==
    \/ \E r \in Requests :
        \/ RequestStep(r) \/ CancelStep(r)
        \/ BridgeCrash(r) \/ RunEnds(r) \/ DeadlinePasses(r)
        \/ \E c \in Calls : Invoke(c, r)
    \/ \E c \in Calls : HandlerStep(c)
    \/ \E k \in Closers : CallClose(k) \/ CloseStep(k)

Spec == Init /\ [][Next]_vars

\* Every thread of the client keeps running and real time passes.  The bridge,
\* the model and a crash owe nothing.
Fairness ==
    /\ \A r \in Requests : /\ WF_vars(ThreadStep(r))
                           /\ WF_vars(CancelStep(r))
                           /\ WF_vars(DeadlinePasses(r))
    /\ \A c \in Calls : WF_vars(HandlerStep(c))
    /\ \A k \in Closers : WF_vars(CloseStep(k))

FairSpec == Spec /\ Fairness

-----------------------------------------------------------------------------
(* Invariants *)

\* a close() has taken process p or server s over and not stopped it; "broken" is one
\* that raised and never will
Stopping(k, p) == closerPc[k] \in {"shutdown", "stop", "broken"} /\ closerBridge[k] = p
HoldsServer(k, s) ==
    closerPc[k] \in {"shutdown", "stop", "server", "broken"} /\ closerServer[k] = s

TypeOK ==
    /\ lock \in Requests \union {None}
    /\ bridge \in Requests \union {None}
    /\ server \in Requests \union {None}
    /\ isClosed \in BOOLEAN
    /\ activeRuns \subseteq Requests
    /\ proc \in [Requests -> {"none", "starting", "ready", "dead"}]
    /\ cbServer \in [Requests -> Requests \union {None}]
    /\ serverUp \subseteq Requests
    /\ agents \subseteq Requests
    /\ run \in [Requests -> {"none", "running"} \union RunStatuses]
    /\ pc \in [Requests -> {"ensure", "starting", "list", "create", "send",
                            "streaming", "pop", "delete", "collect"} \union Ended]
    /\ conn \in [Requests -> Requests \union {None}]
    /\ expired \subseteq Requests
    /\ rpcFailed \subseteq Requests
    /\ status \in [Requests -> {""} \union RunStatuses]
    /\ raised \subseteq Requests
    /\ captured \in [Requests -> Seq(Calls)]
    /\ cancelAsked \subseteq Requests
    /\ cancelPc \in [Requests -> {"idle", "list", "cancel", "skipped", "failed",
                                  "over"}]
    /\ returned \in [Requests -> Seq(Calls)]
    /\ cbPc \in [Calls -> {"unsent", "lookup", "rejected", "executing",
                           "executed", "found", "captured", "deferred"}]
    /\ cbRun \in [Calls -> Requests \union {None}]
    /\ \A c \in Calls : cbPc[c] # "unsent" => cbRun[c] \in Requests
    /\ closerPc \in [Closers -> {"idle", "lock", "shutdown", "stop", "server",
                                 "closed", "broken"}]
    /\ closerBridge \in [Closers -> Requests \union {None}]
    /\ closerServer \in [Closers -> Requests \union {None}]

\* No bridge process is forgotten: one that runs is published, or is being
\* started by the request that holds the lock, or is about to be stopped by a
\* close() (_ensure_bridge replaces _process only when the old one is dead), or was given
\* up by a close() that raised.
NoOrphanBridge ==
    \A p \in Requests :
        /\ proc[p] = "starting" => lock = p
        /\ proc[p] = "ready" => bridge = p \/ \E k \in Closers : Stopping(k, p)

\* No callback server is forgotten: one that serves belongs to the client or to
\* a close() that has yet to stop it, or raised, also after a failed start.
NoServerLeak ==
    \A s \in serverUp : server = s \/ \E k \in Closers : HoldsServer(k, s)

\* The bridge the client publishes was told of the callback server the client
\* has now, and that server is serving: tool calls of every run can come in.
BridgeCanCallBack ==
    Alive(bridge) => /\ cbServer[bridge] = server
                     /\ server \in serverUp

\* is_closed is the truth whenever nobody is inside the lock: a closed client
\* owns neither a process nor a server, whatever started or failed since.
ClosedOwnsNothing ==
    isClosed /\ lock = None => bridge = None /\ server = None

\* A run the client itself cancelled was cancelled for a captured tool call, so
\* the request does not report that cancellation to Hermes as a failure.
SelfCancelNeverFails ==
    \A r \in Requests :
        /\ run[r] = "cancelled" => captured[r] # <<>>
        /\ pc[r] = "failed" /\ r \notin raised => status[r] = "error"

\* The cancel thread, which reads _transport without the lock, finds none only
\* if the run dies anyway: its bridge is dead, or a close() is stopping it or raised.
SkippedCancelIsMoot ==
    \A r \in Requests :
        cancelPc[r] = "skipped" =>
            proc[conn[r]] = "dead" \/ \E k \in Closers : Stopping(k, conn[r])

\* A tool call is carried out by one side only: one that ran inside the callback
\* is never also handed to Hermes.
RunBySideOnce ==
    \A c \in Calls, r \in Requests :
        cbPc[c] \in {"executing", "executed"} => c \notin Range(returned[r])

\* the agent of r may be left: time was up, its bridge is gone, or CreateAgent or
\* DeleteAgent, each sent once, failed
LeftReason(r) == r \in expired \/ ~Alive(conn[r]) \/ r \in rpcFailed

\* However a request ends, with a stream that broke, was cancelled or never opened, its
\* run is not found by tool callbacks any more, and its agent outlives it only if the
\* deadline passed, the bridge died or an RPC of its own failed.  A prompt that cannot be
\* formatted is the exception: the finally of _create_chat_completion is not reached.
RequestLeavesNothing ==
    \A r \in Requests :
        pc[r] \in Ended \ {"unformatted"} =>
            /\ r \notin activeRuns
            /\ r \in agents => LeftReason(r)

\* cursor_bridge_client.py:77 answers a captured call with "Hermes executes this
\* tool and will continue the conversation".
DeferredIsReturned ==
    \A c \in Calls :
        cbPc[c] = "deferred" /\ pc[cbRun[c]] = "done" => c \in Range(returned[cbRun[c]])

-----------------------------------------------------------------------------
(* Refinement and liveness *)

\* Seen by Hermes, a request is a turn of ToolTurn: it returns exactly the calls
\* captured so far, in order, or raises and returns none; no call is captured
\* for two requests or twice, whatever the threads do.
TurnOf(r) == CASE pc[r] = "done" -> "returned"
               [] pc[r] \in {"failed", "refused", "unformatted"} -> "raised"
               [] OTHER -> "open"

Turn == INSTANCE ToolTurn WITH turn <- [r \in Requests |-> TurnOf(r)],
                               accepted <- captured

ImplementsToolTurn == Turn!TurnSpec

\* Every request ends, by an answer, a failure or its deadline, also when the
\* bridge never answers and while other requests hold the startup lock.
RequestsEnd == \A r \in Requests : <>(pc[r] \in Ended)

\* A close() that was called ends, also behind a bridge that is starting.
CloseEnds ==
    \A k \in Closers : closerPc[k] = "lock" ~> closerPc[k] \in {"closed", "broken"}

\* Once a tool call was captured the run does not iterate on the placeholder for
\* ever: it stops, although cancelling is tried once, on whatever transport is
\* published then; only an RPC that fails on a live bridge excuses it, or a close() that
\* raised and left the bridge to itself.
CapturedRunStops ==
    \A r \in Requests :
        captured[r] # <<>> ~> \/ ~RunLive(r) \/ cancelPc[r] = "failed"
                              \/ \E k \in Closers : closerPc[k] = "broken"

=============================================================================
