------------------------- MODULE BridgeClientProofs -------------------------
(***************************************************************************)
(* Theorems about BridgeClient, for every number of requests, tool calls   *)
(* and closing threads, both tool modes, with or without RPC faults.       *)
(***************************************************************************)
EXTENDS BridgeClient, TLAPS

-----------------------------------------------------------------------------
(* Type correctness *)

LEMMA ExceptTyping ==
  ASSUME NEW S, NEW T, NEW f \in [S -> T], NEW x, NEW v \in T
  PROVE  [f EXCEPT ![x] = v] \in [S -> T]
  OBVIOUS

LEMMA AppendTyping ==
  ASSUME NEW S, NEW s \in Seq(S), NEW x \in S
  PROVE  Append(s, x) \in Seq(S)
  OBVIOUS

LEMMA TypeInit == Init => TypeOK
<1> SUFFICES ASSUME Init PROVE TypeOK
  OBVIOUS
<1>1. <<>> \in Seq(Calls)
  OBVIOUS
<1>2. captured \in [Requests -> Seq(Calls)] /\ returned \in [Requests -> Seq(Calls)]
  BY <1>1 DEF Init
<1> QED
  BY <1>2 DEF Init, TypeOK, RunStatuses, Ended

LEMMA TypeNext == TypeOK /\ [Next]_vars => TypeOK'
<1> SUFFICES ASSUME TypeOK, [Next]_vars PROVE TypeOK'
  OBVIOUS
<1> USE BridgeAssumption DEF TypeOK, RunStatuses, Ended, clientVars, worldVars, runVars,
        storeVars, reqVars, reqData, cbVars, closerVars, sideVars
<1>1. ASSUME NEW r \in Requests, RequestStep(r) PROVE TypeOK'
  <2>1. CASE EnsureReuse(r) BY <2>1 DEF EnsureReuse, FirstRpc, Alive
  <2>2. CASE EnsureRefuse(r) BY <2>2 DEF EnsureRefuse
  <2>3. CASE EnsureSpawn(r) BY <2>3 DEF EnsureSpawn, Spawn, ServersStarted
  <2>4. CASE StartReady(r) BY <2>4 DEF StartReady, Publish, FirstRpc
  <2>5. CASE StartFail(r) BY <2>5 DEF StartFail, AbandonStart
  <2>6. CASE ListModels(r) BY <2>6 DEF ListModels
  <2>7. CASE CreateAgent(r) BY <2>7 DEF CreateAgent
  <2>8. CASE CreateAgentFails(r)
    <3>1. agents' \subseteq Requests /\ rpcFailed' \subseteq Requests
      BY <2>8 DEF CreateAgentFails, RpcFailedWith
    <3> QED BY <2>8, <3>1 DEF CreateAgentFails
  <2>17. CASE PromptFails(r) BY <2>17 DEF PromptFails
  <2>9. CASE OpenStream(r) BY <2>9 DEF OpenStream
  <2>10. CASE StreamEnd(r)
    <3>1. PICK s \in {run[r], ""} : status' = [status EXCEPT ![r] = s]
      BY <2>10 DEF StreamEnd
    <3>2. s \in {""} \union RunStatuses
      BY <2>10 DEF StreamEnd
    <3>3. status' \in [Requests -> {""} \union RunStatuses]
      BY <3>1, <3>2
    <3> QED BY <2>10, <3>3 DEF StreamEnd
  <2>11. CASE StreamFail(r) BY <2>11 DEF StreamFail, BreakOff
  <2>16. CASE StreamBreaks(r) BY <2>16 DEF StreamBreaks, BreakOff
  <2>12. CASE PopRun(r) BY <2>12 DEF PopRun
  <2>13. CASE DeleteAgent(r) BY <2>13 DEF DeleteAgent, RpcFailedWith
  <2>14. CASE Fail(r) BY <2>14 DEF Fail
  <2>15. CASE Return(r) BY <2>15 DEF Return
  <2> QED BY <1>1, <2>1, <2>2, <2>3, <2>4, <2>5, <2>6, <2>7, <2>8, <2>9, <2>10,
             <2>11, <2>12, <2>13, <2>14, <2>15, <2>16, <2>17
          DEF RequestStep, ThreadStep
<1>2. ASSUME NEW r \in Requests, CancelStep(r) PROVE TypeOK'
  <2>1. CASE CancelList(r)
    <3>1. PICK next \in {"cancel", "skipped", "failed", "over"} :
              cancelPc' = [cancelPc EXCEPT ![r] = next]
      BY <2>1 DEF CancelList
    <3>2. cancelPc' \in [Requests -> {"idle", "list", "cancel", "skipped", "failed",
                                     "over"}]
      BY <3>1
    <3> QED BY <2>1, <3>2 DEF CancelList
  <2>2. CASE CancelRun(r)
    <3>1. run' = run \/ run' = [run EXCEPT ![r] = "cancelled"]
      BY <2>2, Zenon DEF CancelRun
    <3>3. run' \in [Requests -> {"none", "running"} \union RunStatuses]
      BY <3>1, ExceptTyping
    <3>2. cancelPc' \in [Requests -> {"idle", "list", "cancel", "skipped", "failed",
                                     "over"}]
      <4>1. \/ cancelPc' = [cancelPc EXCEPT ![r] = "over"]
            \/ cancelPc' = [cancelPc EXCEPT ![r] = "failed"]
        BY <2>2, Zenon DEF CancelRun
      <4> QED BY <4>1, ExceptTyping
    <3> QED BY <2>2, <3>2, <3>3 DEF CancelRun
  <2> QED BY <1>2, <2>1, <2>2 DEF CancelStep
<1>3. ASSUME NEW c \in Calls, HandlerStep(c) PROVE TypeOK'
  <2>1. CASE Lookup(c) BY <2>1 DEF Lookup
  <2>2. CASE ExecuteInline(c) BY <2>2 DEF ExecuteInline, Execute
  <2>3. CASE Capture(c)
    <3>1. captured[cbRun[c]] \in Seq(Calls)
      BY <1>3, <2>3 DEF Capture, Record
    <3>2. Append(captured[cbRun[c]], c) \in Seq(Calls)
      BY <1>3, <3>1, AppendTyping
    <3>3. captured' \in [Requests -> Seq(Calls)]
      BY <2>3, <3>2, ExceptTyping DEF Capture, Record
    <3> QED BY <2>3, <3>3 DEF Capture, Record
  <2>4. CASE DeferAnswer(c)
    <3>1. cancelPc' \in [Requests -> {"idle", "list", "cancel", "skipped", "failed",
                                     "over"}]
      BY <2>4, ExceptTyping DEF DeferAnswer, Defer
    <3>2. cancelAsked' \subseteq Requests
      BY <2>4 DEF DeferAnswer, Defer
    <3>3. cbPc' = [cbPc EXCEPT ![c] = "deferred"] /\ cbRun[c] \in Requests
      BY <1>3, <2>4 DEF DeferAnswer, Defer
    <3>4. \A d \in Calls : cbPc'[d] # "unsent" => cbRun'[d] \in Requests
      BY <2>4, <3>3 DEF DeferAnswer, Defer
    <3>5. cbPc' \in [Calls -> {"unsent", "lookup", "rejected", "executing",
                              "executed", "found", "captured", "deferred"}]
      BY <3>3
    <3> QED BY <2>4, <3>1, <3>2, <3>4, <3>5 DEF DeferAnswer, Defer
  <2> QED BY <1>3, <2>1, <2>2, <2>3, <2>4 DEF HandlerStep
<1>4. ASSUME NEW k \in Closers, CallClose(k) \/ CloseStep(k) PROVE TypeOK'
  <2>1. CASE CallClose(k) BY <2>1 DEF CallClose
  <2>2. CASE CloseTake(k) BY <2>2 DEF CloseTake
  <2>3. CASE CloseShutdown(k)
    <3>1. \/ closerPc' = [closerPc EXCEPT ![k] = "stop"]
          \/ closerPc' = [closerPc EXCEPT ![k] = "broken"]
      BY <2>3, Zenon DEF CloseShutdown, Shutdown
    <3>2. closerPc' \in [Closers -> {"idle", "lock", "shutdown", "stop", "server",
                                     "closed", "broken"}]
      BY <3>1, ExceptTyping
    <3>3. proc' \in [Requests -> {"none", "starting", "ready", "dead"}]
      BY <2>3 DEF CloseShutdown, Shutdown
    <3> QED BY <2>3, <3>2, <3>3 DEF CloseShutdown, Shutdown
  <2>4. CASE CloseStop(k) BY <2>4 DEF CloseStop
  <2>5. CASE CloseServer(k) BY <2>5 DEF CloseServer
  <2> QED BY <1>4, <2>1, <2>2, <2>3, <2>4, <2>5 DEF CloseStep
<1>5. ASSUME NEW r \in Requests,
             BridgeCrash(r) \/ RunEnds(r) \/ DeadlinePasses(r)
                \/ \E c \in Calls : Invoke(c, r)
      PROVE TypeOK'
  <2>1. CASE BridgeCrash(r) BY <2>1 DEF BridgeCrash
  <2>2. CASE RunEnds(r)
    <3>1. run' = [run EXCEPT ![r] = "error"] \/ run' = [run EXCEPT ![r] = "finished"]
      BY <2>2, Zenon DEF RunEnds
    <3>2. run' \in [Requests -> {"none", "running"} \union RunStatuses]
      BY <3>1, ExceptTyping
    <3> QED BY <2>2, <3>2 DEF RunEnds
  <2>3. CASE DeadlinePasses(r) BY <2>3 DEF DeadlinePasses
  <2>4. ASSUME NEW c \in Calls, Invoke(c, r) PROVE TypeOK'
    BY <2>4 DEF Invoke
  <2> QED BY <1>5, <2>1, <2>2, <2>3, <2>4
<1>6. CASE UNCHANGED vars
  BY <1>6 DEF vars
<1> QED
  BY <1>1, <1>2, <1>3, <1>4, <1>5, <1>6 DEF Next

\* BridgeClient keeps every variable in its type.
THEOREM TypeCorrect == Spec => []TypeOK
  BY TypeInit, TypeNext, PTL DEF Spec

-----------------------------------------------------------------------------
(* Processes, servers and the lock *)

\* a request that has not entered _ensure_bridge has left no trace
FreshRequests ==
    \A r \in Requests : pc[r] = "ensure" =>
        /\ proc[r] = "none" /\ bridge # r /\ server # r /\ r \notin serverUp
        /\ \A k \in Closers : closerBridge[k] # r /\ closerServer[k] # r

\* the lock is held by the request that is starting a process, over no live one,
\* and the server that process was told of is the client's
StartHoldsLock == \A r \in Requests : pc[r] = "starting" <=> lock = r
StartOverDead == lock # None => ~Alive(bridge)
StartHasServer == lock # None => cbServer[lock] = server /\ server # None

\* the client's server serves, and is not one a close() is about to stop
ServerServes == server # None => server \in serverUp
ServerNotTaken ==
    \A k \in Closers : HoldsServer(k, server) => server = None

ClosedHasNoBridge == isClosed => bridge = None

Lifecycle ==
    /\ FreshRequests /\ StartHoldsLock /\ StartOverDead /\ StartHasServer
    /\ ServerServes /\ ServerNotTaken /\ ClosedHasNoBridge
    /\ NoOrphanBridge /\ NoServerLeak /\ BridgeCanCallBack /\ ClosedOwnsNothing

LEMMA LifecycleInit == Init => Lifecycle
<1> SUFFICES ASSUME Init PROVE Lifecycle
  OBVIOUS
<1> USE BridgeAssumption
<1>1. FreshRequests BY DEF Init, FreshRequests
<1>2. StartHoldsLock BY DEF Init, StartHoldsLock
<1>3. NoOrphanBridge BY DEF Init, NoOrphanBridge
<1>4. ServerNotTaken BY DEF Init, ServerNotTaken, HoldsServer
<1>5. /\ StartOverDead /\ StartHasServer /\ ServerServes /\ ClosedHasNoBridge
      /\ NoServerLeak /\ BridgeCanCallBack /\ ClosedOwnsNothing
  BY DEF Init, StartOverDead, StartHasServer, ServerServes, ClosedHasNoBridge,
         NoServerLeak, BridgeCanCallBack, ClosedOwnsNothing, Alive
<1> QED
  BY <1>1, <1>2, <1>3, <1>4, <1>5 DEF Lifecycle

\* A step that touches no process, server or lock, and moves no request into or
\* out of _ensure_bridge, keeps all of it.
LEMMA LifecycleFrame ==
  ASSUME TypeOK, Lifecycle,
         UNCHANGED <<clientVars, worldVars, closerVars>>,
         \A r \in Requests :
            \/ pc'[r] = pc[r]
            \/ /\ pc[r] \notin {"ensure", "starting"}
               /\ pc'[r] \notin {"ensure", "starting"}
  PROVE  Lifecycle'
<1> USE DEF Lifecycle, clientVars, worldVars, closerVars
<1>1. FreshRequests' BY DEF FreshRequests
<1>2. StartHoldsLock' BY DEF StartHoldsLock
<1>3. (/\ StartOverDead /\ StartHasServer /\ ServerServes /\ ServerNotTaken
       /\ ClosedHasNoBridge /\ NoOrphanBridge /\ NoServerLeak /\ BridgeCanCallBack
       /\ ClosedOwnsNothing)'
  BY DEF StartOverDead, StartHasServer, ServerServes, ServerNotTaken,
         ClosedHasNoBridge, NoOrphanBridge, NoServerLeak, BridgeCanCallBack,
         ClosedOwnsNothing, Alive, HoldsServer, Stopping
<1> QED BY <1>1, <1>2, <1>3

LEMMA LifecycleNext == TypeOK /\ Lifecycle /\ [Next]_vars => Lifecycle'
<1> SUFFICES ASSUME TypeOK, Lifecycle, [Next]_vars PROVE Lifecycle'
  OBVIOUS
<1> USE BridgeAssumption DEF clientVars, worldVars, closerVars, reqVars, reqData, sideVars
<1>0. /\ lock \in Requests \union {None} /\ bridge \in Requests \union {None}
      /\ server \in Requests \union {None} /\ isClosed \in BOOLEAN
      /\ serverUp \subseteq Requests
      /\ proc \in [Requests -> {"none", "starting", "ready", "dead"}]
      /\ cbServer \in [Requests -> Requests \union {None}]
      /\ DOMAIN pc = Requests
      /\ closerPc \in [Closers -> {"idle", "lock", "shutdown", "stop", "server",
                                   "closed", "broken"}]
      /\ closerBridge \in [Closers -> Requests \union {None}]
      /\ closerServer \in [Closers -> Requests \union {None}]
  BY DEF TypeOK
<1>1. ASSUME NEW r \in Requests, RequestStep(r) PROVE Lifecycle'
  <2> USE DEF Lifecycle, FreshRequests, StartHoldsLock, StartOverDead,
          StartHasServer, ServerServes, ServerNotTaken, ClosedHasNoBridge,
          NoOrphanBridge, NoServerLeak, BridgeCanCallBack, ClosedOwnsNothing,
          Alive, HoldsServer, Stopping
  <2>1. CASE EnsureReuse(r) \/ EnsureRefuse(r)
    BY <1>0, <2>1 DEF EnsureReuse, EnsureRefuse, FirstRpc
  <2>2. CASE EnsureSpawn(r) BY <1>0, <2>2 DEF EnsureSpawn, Spawn, ServersStarted
  <2>3. CASE StartReady(r) BY <1>0, <2>3 DEF StartReady, Publish, FirstRpc
  <2>4. CASE StartFail(r) BY <1>0, <2>4 DEF StartFail, AbandonStart
  <2>5. CASE \/ ListModels(r) \/ CreateAgent(r) \/ CreateAgentFails(r)
             \/ PromptFails(r) \/ OpenStream(r) \/ StreamEnd(r) \/ StreamFail(r)
             \/ StreamBreaks(r)
             \/ PopRun(r) \/ DeleteAgent(r) \/ Fail(r) \/ Return(r)
    <3>1. UNCHANGED <<clientVars, worldVars, closerVars>>
      BY <2>5 DEF ListModels, CreateAgent, CreateAgentFails, PromptFails, OpenStream, StreamEnd,
                  StreamFail, StreamBreaks, BreakOff, PopRun, DeleteAgent, Fail, Return
    <3>2. PICK next \in {"send", "streaming", "pop", "delete", "collect"} \union Ended :
             pc' = [pc EXCEPT ![r] = next]
      BY <2>5 DEF ListModels, CreateAgent, CreateAgentFails, PromptFails, OpenStream, StreamEnd,
                  StreamFail, StreamBreaks, BreakOff, PopRun, DeleteAgent, Fail, Return, Ended
    <3>3. pc[r] \notin {"ensure", "starting"}
      BY <2>5 DEF ListModels, CreateAgent, CreateAgentFails, PromptFails, OpenStream, StreamEnd,
                  StreamFail, StreamBreaks, BreakOff, PopRun, DeleteAgent, Fail, Return
    <3>4. \A q \in Requests :
             \/ pc'[q] = pc[q]
             \/ /\ pc[q] \notin {"ensure", "starting"}
                /\ pc'[q] \notin {"ensure", "starting"}
      BY <1>0, <3>2, <3>3 DEF Ended
    <3> QED BY <3>1, <3>4, LifecycleFrame
  <2> QED BY <1>1, <2>1, <2>2, <2>3, <2>4, <2>5 DEF RequestStep, ThreadStep
<1>2. ASSUME NEW k \in Closers, CallClose(k) \/ CloseStep(k) PROVE Lifecycle'
  <2> USE DEF Lifecycle, FreshRequests, StartHoldsLock, StartOverDead,
          StartHasServer, ServerServes, ServerNotTaken, ClosedHasNoBridge,
          NoOrphanBridge, NoServerLeak, BridgeCanCallBack, ClosedOwnsNothing,
          Alive, HoldsServer, Stopping
  <2>1. CASE CallClose(k) BY <1>0, <2>1 DEF CallClose
  <2>2. CASE CloseTake(k) BY <1>0, <2>2 DEF CloseTake
  <2>3. CASE CloseShutdown(k) BY <1>0, <2>3 DEF CloseShutdown, Shutdown
  <2>4. CASE CloseStop(k) BY <1>0, <2>4 DEF CloseStop
  <2>5. CASE CloseServer(k) BY <1>0, <2>5 DEF CloseServer
  <2> QED BY <1>2, <2>1, <2>2, <2>3, <2>4, <2>5 DEF CloseStep
<1>3. ASSUME NEW p \in Requests, BridgeCrash(p) PROVE Lifecycle'
  BY <1>0, <1>3
  DEF BridgeCrash, Lifecycle, FreshRequests, StartHoldsLock, StartOverDead,
      StartHasServer, ServerServes, ServerNotTaken, ClosedHasNoBridge,
      NoOrphanBridge, NoServerLeak, BridgeCanCallBack, ClosedOwnsNothing, Alive,
      HoldsServer, Stopping
<1>4. ASSUME NEW r \in Requests,
             \/ CancelStep(r) \/ RunEnds(r) \/ DeadlinePasses(r)
             \/ \E c \in Calls : Invoke(c, r)
      PROVE Lifecycle'
  <2>1. UNCHANGED <<clientVars, worldVars, closerVars, pc>>
    BY <1>4 DEF CancelStep, CancelList, CancelRun, RunEnds, DeadlinePasses, Invoke
  <2> QED BY <2>1, LifecycleFrame
<1>5. ASSUME NEW c \in Calls, HandlerStep(c) PROVE Lifecycle'
  <2>1. UNCHANGED <<clientVars, worldVars, closerVars, pc>>
    BY <1>5 DEF HandlerStep, Lookup, ExecuteInline, Execute, Capture, Record, DeferAnswer, Defer
  <2> QED BY <2>1, LifecycleFrame
<1>6. CASE UNCHANGED vars
  <2>1. UNCHANGED <<clientVars, worldVars, closerVars, pc>>
    BY <1>6 DEF vars
  <2> QED BY <2>1, LifecycleFrame
<1> QED
  BY <1>1, <1>2, <1>3, <1>4, <1>5, <1>6 DEF Next

-----------------------------------------------------------------------------
(* Runs, tool calls and cancels *)

\* what a request, a run or a tool call has got to, seen from the others
RunIsSent ==
    \A r \in Requests : run[r] # "none" =>
        pc[r] \in {"streaming", "pop", "delete", "collect", "done", "failed"}
ConnWasReady ==
    \A r \in Requests : pc[r] \notin {"ensure", "starting", "refused"} =>
        conn[r] \in Requests /\ proc[conn[r]] \in {"ready", "dead"}
CallIsOfRun == \A c \in Calls : cbPc[c] # "unsent" => run[cbRun[c]] # "none"
CaptureIsOfRun == \A r \in Requests : captured[r] # <<>> => run[r] # "none"

\* capture comes before cancel_requested, which comes before CancelRun
DeferIsCaptured ==
    \A c \in Calls : cbPc[c] \in {"captured", "deferred"} => captured[cbRun[c]] # <<>>
CancelIsCaptured ==
    \A r \in Requests :
        cancelPc[r] # "idle" \/ status[r] = "cancelled" => captured[r] # <<>>

RunInv ==
    /\ RunIsSent /\ ConnWasReady /\ CallIsOfRun /\ CaptureIsOfRun
    /\ DeferIsCaptured /\ CancelIsCaptured
    /\ SelfCancelNeverFails

LEMMA RunInvInit == Init => RunInv
<1> SUFFICES ASSUME Init PROVE RunInv
  OBVIOUS
<1>1. RunIsSent /\ CallIsOfRun /\ CaptureIsOfRun
  BY DEF Init, RunIsSent, CallIsOfRun, CaptureIsOfRun
<1>2. ConnWasReady
  BY DEF Init, ConnWasReady
<1>3. DeferIsCaptured /\ CancelIsCaptured
  BY DEF Init, DeferIsCaptured, CancelIsCaptured
<1>4. SelfCancelNeverFails
  BY DEF Init, SelfCancelNeverFails
<1> QED
  BY <1>1, <1>2, <1>3, <1>4 DEF RunInv

LEMMA AppendNotEmpty ==
  ASSUME NEW S, NEW s \in Seq(S), NEW x \in S
  PROVE  Append(s, x) # <<>>
  OBVIOUS

LEMMA StatusTyping ==
  TypeOK => \A r \in Requests : status[r] \in {"", "finished", "error", "cancelled"}
  BY DEF TypeOK, RunStatuses

LEMMA RunInvNext == TypeOK /\ Lifecycle /\ RunInv /\ [Next]_vars => RunInv'
<1> SUFFICES ASSUME TypeOK, Lifecycle, RunInv, [Next]_vars PROVE RunInv'
  OBVIOUS
<1> USE BridgeAssumption
    DEF clientVars, worldVars, runVars, storeVars, reqVars, reqData, cbVars, closerVars, sideVars
<1>0. /\ lock \in Requests \union {None} /\ bridge \in Requests \union {None}
      /\ proc \in [Requests -> {"none", "starting", "ready", "dead"}]
      /\ DOMAIN run = Requests /\ DOMAIN pc = Requests /\ DOMAIN status = Requests
      /\ conn \in [Requests -> Requests \union {None}]
      /\ captured \in [Requests -> Seq(Calls)]
      /\ DOMAIN cancelPc = Requests
      /\ DOMAIN cbPc = Calls
      /\ cbRun \in [Calls -> Requests \union {None}]
      /\ \A c \in Calls : cbPc[c] # "unsent" => cbRun[c] \in Requests
      /\ closerPc \in [Closers -> {"idle", "lock", "shutdown", "stop", "server",
                                   "closed", "broken"}]
      /\ closerBridge \in [Closers -> Requests \union {None}]
  BY DEF TypeOK
<1>1. ASSUME NEW r \in Requests, RequestStep(r) PROVE RunInv'
  <2> USE DEF RunInv, RunIsSent, ConnWasReady, CallIsOfRun, CaptureIsOfRun,
          DeferIsCaptured, CancelIsCaptured, SelfCancelNeverFails, Alive
  <2>1. CASE EnsureReuse(r) BY <1>0, <2>1 DEF EnsureReuse, FirstRpc
  <2>2. CASE EnsureRefuse(r) BY <1>0, <2>2 DEF EnsureRefuse
  <2>3. CASE EnsureSpawn(r)
    <3>1. proc[r] = "none"
      BY <2>3 DEF Lifecycle, FreshRequests, EnsureSpawn, Spawn, ServersStarted
    <3> QED BY <1>0, <2>3, <3>1 DEF EnsureSpawn, Spawn, ServersStarted
  <2>4. CASE StartReady(r) BY <1>0, <2>4 DEF StartReady, Publish, FirstRpc
  <2>5. CASE StartFail(r) BY <1>0, <2>5 DEF StartFail, AbandonStart
  <2>6. CASE ListModels(r) BY <1>0, <2>6 DEF ListModels
  <2>7. CASE CreateAgent(r) BY <1>0, <2>7 DEF CreateAgent
  <2>8. CASE CreateAgentFails(r) BY <1>0, <2>8 DEF CreateAgentFails
  <2>17. CASE PromptFails(r) BY <1>0, <2>17 DEF PromptFails
  <2>9. CASE OpenStream(r) BY <1>0, <2>9 DEF OpenStream
  <2>10. CASE StreamEnd(r) BY <1>0, <2>10 DEF StreamEnd
  <2>11. CASE StreamFail(r) BY <1>0, <2>11 DEF StreamFail, BreakOff
  <2>16. CASE StreamBreaks(r) BY <1>0, <2>16 DEF StreamBreaks, BreakOff
  <2>12. CASE PopRun(r) BY <1>0, <2>12 DEF PopRun
  <2>13. CASE DeleteAgent(r) BY <1>0, <2>13 DEF DeleteAgent
  <2>14. CASE Fail(r)
    <3>1. status[r] \in {"", "finished", "error", "cancelled"}
      BY StatusTyping
    <3>2. SelfCancelNeverFails'
      BY <1>0, <2>14, <3>1 DEF Fail, Unusable
    <3> QED BY <1>0, <2>14, <3>2 DEF Fail
  <2>15. CASE Return(r) BY <1>0, <2>15 DEF Return
  <2> QED BY <1>1, <2>1, <2>2, <2>3, <2>4, <2>5, <2>6, <2>7, <2>8, <2>9, <2>10,
             <2>11, <2>12, <2>13, <2>14, <2>15, <2>16, <2>17
          DEF RequestStep, ThreadStep
<1>2. ASSUME NEW r \in Requests, CancelStep(r) PROVE RunInv'
  <2> USE DEF RunInv, RunIsSent, ConnWasReady, CallIsOfRun, CaptureIsOfRun,
          DeferIsCaptured, CancelIsCaptured, SelfCancelNeverFails
  <2>1. CASE CancelList(r) BY <1>0, <2>1 DEF CancelList
  <2>2. CASE CancelRun(r) BY <1>0, <2>2 DEF CancelRun, RunLive
  <2> QED BY <1>2, <2>1, <2>2 DEF CancelStep
<1>3. ASSUME NEW c \in Calls, HandlerStep(c) PROVE RunInv'
  <2> USE DEF RunInv, RunIsSent, ConnWasReady, CallIsOfRun, CaptureIsOfRun,
          DeferIsCaptured, CancelIsCaptured, SelfCancelNeverFails
  <2>1. CASE Lookup(c) BY <1>0, <2>1 DEF Lookup
  <2>2. CASE ExecuteInline(c) BY <1>0, <2>2 DEF ExecuteInline, Execute
  <2>3. CASE Capture(c)
    <3>1. cbRun[c] \in Requests /\ captured'[cbRun[c]] = Append(captured[cbRun[c]], c)
      BY <1>0, <2>3 DEF Capture, Record
    <3>2. captured'[cbRun[c]] # <<>>
      BY <1>0, <3>1, AppendNotEmpty
    <3>3. \A r \in Requests : r # cbRun[c] => captured'[r] = captured[r]
      BY <1>0, <2>3 DEF Capture, Record
    <3> QED BY <1>0, <2>3, <3>1, <3>2, <3>3 DEF Capture, Record
  <2>4. CASE DeferAnswer(c) BY <1>0, <2>4 DEF DeferAnswer, Defer
  <2> QED BY <1>3, <2>1, <2>2, <2>3, <2>4 DEF HandlerStep
<1>4. ASSUME NEW k \in Closers, CallClose(k) \/ CloseStep(k) PROVE RunInv'
  <2> USE DEF RunInv, RunIsSent, ConnWasReady, CallIsOfRun, CaptureIsOfRun,
          DeferIsCaptured, CancelIsCaptured, SelfCancelNeverFails, Alive
  <2>1. CASE CallClose(k) BY <1>0, <2>1 DEF CallClose
  <2>2. CASE CloseTake(k) BY <1>0, <2>2 DEF CloseTake
  <2>3. CASE CloseShutdown(k) BY <1>0, <2>3 DEF CloseShutdown, Shutdown
  <2>4. CASE CloseStop(k) BY <1>0, <2>4 DEF CloseStop
  <2>5. CASE CloseServer(k) BY <1>0, <2>5 DEF CloseServer
  <2> QED BY <1>4, <2>1, <2>2, <2>3, <2>4, <2>5 DEF CloseStep
<1>5. ASSUME NEW r \in Requests,
             BridgeCrash(r) \/ RunEnds(r) \/ DeadlinePasses(r)
                \/ \E c \in Calls : Invoke(c, r)
      PROVE RunInv'
  <2> USE DEF RunInv, RunIsSent, ConnWasReady, CallIsOfRun, CaptureIsOfRun,
          DeferIsCaptured, CancelIsCaptured, SelfCancelNeverFails, Alive, RunLive
  <2>1. CASE BridgeCrash(r) BY <1>0, <2>1 DEF BridgeCrash
  <2>2. CASE RunEnds(r) BY <1>0, <2>2 DEF RunEnds
  <2>3. CASE DeadlinePasses(r) BY <1>0, <2>3 DEF DeadlinePasses
  <2>4. ASSUME NEW c \in Calls, Invoke(c, r) PROVE RunInv'
    BY <1>0, <2>4 DEF Invoke
  <2> QED BY <1>5, <2>1, <2>2, <2>3, <2>4
<1>6. CASE UNCHANGED vars
  BY <1>6 DEF vars, RunInv, RunIsSent, ConnWasReady, CallIsOfRun, CaptureIsOfRun,
              DeferIsCaptured, CancelIsCaptured, SelfCancelNeverFails
<1> QED
  BY <1>1, <1>2, <1>3, <1>4, <1>5, <1>6 DEF Next

\* SkippedCancelIsMoot is kept apart: it needs NoOrphanBridge at the read.
LEMMA SkippedNext ==
  TypeOK /\ Lifecycle /\ RunInv /\ SkippedCancelIsMoot /\ [Next]_vars => SkippedCancelIsMoot'
<1> SUFFICES ASSUME TypeOK, Lifecycle, RunInv, SkippedCancelIsMoot, [Next]_vars
             PROVE  SkippedCancelIsMoot'
  OBVIOUS
<1> DEFINE Moot(q) == proc[conn[q]] = "dead" \/ \E k \in Closers : Stopping(k, conn[q])
<1> USE BridgeAssumption
    DEF clientVars, worldVars, runVars, storeVars, reqVars, reqData, cbVars, closerVars, sideVars
<1>0. /\ proc \in [Requests -> {"none", "starting", "ready", "dead"}]
      /\ conn \in [Requests -> Requests \union {None}]
      /\ DOMAIN cancelPc = Requests /\ DOMAIN closerPc = Closers
      /\ closerBridge \in [Closers -> Requests \union {None}]
  BY DEF TypeOK
<1>1. ASSUME NEW q \in Requests, cancelPc[q] # "idle"
      PROVE  /\ pc[q] \notin {"ensure", "starting"}
             /\ conn[q] \in Requests /\ proc[conn[q]] \in {"ready", "dead"}
  <2>1. run[q] # "none"
    BY <1>1 DEF RunInv, CancelIsCaptured, CaptureIsOfRun
  <2> QED BY <2>1 DEF RunInv, RunIsSent, ConnWasReady
<1>2. ASSUME NEW q \in Requests, cancelPc[q] # "idle", UNCHANGED <<proc, conn, closerVars>>
      PROVE  Moot(q) => Moot(q)'
  BY <1>2 DEF Stopping
<1>3. ASSUME NEW r \in Requests, RequestStep(r) PROVE SkippedCancelIsMoot'
  <2>1. UNCHANGED <<cancelPc, closerVars>>
    BY <1>3 DEF RequestStep, ThreadStep, EnsureReuse, EnsureRefuse, EnsureSpawn, Spawn, ServersStarted, StartReady, Publish,
                StartFail, AbandonStart, ListModels, CreateAgent, CreateAgentFails, PromptFails, OpenStream,
                StreamEnd, StreamFail, StreamBreaks, BreakOff, PopRun, DeleteAgent, Fail, Return
  <2>2. ASSUME NEW q \in Requests, cancelPc[q] # "idle" PROVE conn'[q] = conn[q]
    <3>1. q # r \/ conn' = conn
      BY <1>1, <1>3, <2>2
      DEF RequestStep, ThreadStep, EnsureReuse, EnsureRefuse, EnsureSpawn, Spawn, ServersStarted, StartReady, Publish, StartFail, AbandonStart,
          ListModels, CreateAgent, CreateAgentFails, PromptFails, OpenStream, StreamEnd,
          StreamFail, StreamBreaks, BreakOff, PopRun, DeleteAgent, Fail, Return
    <3>2. conn' = conn \/ \E p \in Requests \union {None} : conn' = [conn EXCEPT ![r] = p]
      BY <1>3
      DEF TypeOK, RequestStep, ThreadStep, EnsureReuse, EnsureRefuse, EnsureSpawn, Spawn, ServersStarted, StartReady, Publish,
          StartFail, AbandonStart, ListModels, CreateAgent, CreateAgentFails, PromptFails, OpenStream, StreamEnd,
          StreamFail, StreamBreaks, BreakOff, PopRun, DeleteAgent, Fail, Return
    <3> QED BY <1>0, <3>1, <3>2
  <2>3. ASSUME NEW p \in Requests, proc[p] = "dead" PROVE proc'[p] = "dead"
    <3>1. CASE EnsureSpawn(r)
      <4>1. proc[r] = "none"
        BY <3>1 DEF Lifecycle, FreshRequests, EnsureSpawn, Spawn, ServersStarted
      <4> QED BY <1>0, <2>3, <3>1, <4>1 DEF EnsureSpawn, Spawn, ServersStarted
    <3>2. CASE StartReady(r) BY <1>0, <2>3, <3>2 DEF StartReady, Publish
    <3>3. CASE StartFail(r) BY <1>0, <2>3, <3>3 DEF StartFail, AbandonStart
    <3>4. CASE ~EnsureSpawn(r) /\ ~StartReady(r) /\ ~StartFail(r)
      BY <1>3, <2>3, <3>4
      DEF RequestStep, ThreadStep, EnsureReuse, EnsureRefuse, ListModels, CreateAgent,
          CreateAgentFails, PromptFails, OpenStream, StreamEnd, StreamFail, StreamBreaks, BreakOff, PopRun, DeleteAgent,
          Fail, Return
    <3> QED BY <3>1, <3>2, <3>3, <3>4
  <2> QED BY <1>1, <2>1, <2>2, <2>3 DEF SkippedCancelIsMoot, Stopping
<1>4. ASSUME NEW r \in Requests, CancelStep(r) PROVE SkippedCancelIsMoot'
  <2>1. UNCHANGED <<proc, conn, closerVars>>
    BY <1>4 DEF CancelStep, CancelList, CancelRun
  <2>2. ASSUME NEW q \in Requests, cancelPc'[q] = "skipped", cancelPc[q] # "skipped"
        PROVE  Moot(q)
    <3>1. cancelPc[q] = "list" /\ bridge = None
      BY <1>0, <1>4, <2>2 DEF CancelStep, CancelList, CancelRun
    <3> QED BY <1>0, <1>1, <3>1 DEF Lifecycle, NoOrphanBridge
  <2>3. \A q \in Requests : cancelPc'[q] = "skipped" => Moot(q)
    BY <2>2 DEF SkippedCancelIsMoot
  <2> QED BY <2>1, <2>3 DEF SkippedCancelIsMoot, Stopping
<1>5. ASSUME NEW k \in Closers, CallClose(k) \/ CloseStep(k) PROVE SkippedCancelIsMoot'
  <2>1. UNCHANGED <<cancelPc, conn>>
    BY <1>5 DEF CloseStep, CallClose, CloseTake, CloseShutdown, Shutdown, CloseStop, CloseServer
  <2>2. ASSUME NEW q \in Requests, cancelPc[q] = "skipped", Moot(q) PROVE Moot(q)'
    <3> USE <1>0, <1>1, <2>1, <2>2 DEF Stopping
    <3>1. CASE CallClose(k) BY <3>1 DEF CallClose
    <3>2. CASE CloseTake(k) BY <3>2 DEF CloseTake
    <3>3. CASE CloseShutdown(k) BY <3>3 DEF CloseShutdown, Shutdown
    <3>4. CASE CloseStop(k) BY <3>4 DEF CloseStop
    <3>5. CASE CloseServer(k) BY <3>5 DEF CloseServer
    <3> QED BY <1>5, <3>1, <3>2, <3>3, <3>4, <3>5 DEF CloseStep
  <2> QED BY <2>1, <2>2 DEF SkippedCancelIsMoot
<1>6. ASSUME NEW p \in Requests, BridgeCrash(p) PROVE SkippedCancelIsMoot'
  BY <1>0, <1>1, <1>6 DEF BridgeCrash, SkippedCancelIsMoot, Stopping
<1>7. ASSUME NEW r \in Requests,
             RunEnds(r) \/ DeadlinePasses(r) \/ \E c \in Calls : Invoke(c, r)
      PROVE  SkippedCancelIsMoot'
  <2>1. UNCHANGED <<proc, conn, closerVars, cancelPc>>
    BY <1>7 DEF RunEnds, DeadlinePasses, Invoke
  <2> QED BY <2>1 DEF SkippedCancelIsMoot, Stopping
<1>8. ASSUME NEW c \in Calls, HandlerStep(c) PROVE SkippedCancelIsMoot'
  <2>1. UNCHANGED <<proc, conn, closerVars>>
    BY <1>8 DEF HandlerStep, Lookup, ExecuteInline, Execute, Capture, Record, DeferAnswer, Defer
  <2>2. \A q \in Requests : cancelPc'[q] = "skipped" => cancelPc[q] = "skipped"
    BY <1>0, <1>8 DEF HandlerStep, Lookup, ExecuteInline, Execute, Capture, Record, DeferAnswer, Defer
  <2> QED BY <2>1, <2>2 DEF SkippedCancelIsMoot, Stopping
<1>9. CASE UNCHANGED vars
  BY <1>9 DEF vars, SkippedCancelIsMoot, Stopping
<1> QED
  BY <1>3, <1>4, <1>5, <1>6, <1>7, <1>8, <1>9 DEF Next

-----------------------------------------------------------------------------
(* What a request leaves behind.  Its run is registered from CreateAgent to     *)
(* PopRun, and from DeleteAgent on its agent has a reason to be there, which    *)
(* stays one: a bridge that died does not come back, a deadline stays passed.   *)
(* A request whose prompt cannot be formatted leaves both.                      *)

Registered == {"send", "streaming", "pop", "unformatted"}

LeftInv == \A r \in Requests :
    /\ r \in activeRuns => pc[r] \in Registered
    /\ r \in agents =>
        /\ conn[r] \in Requests /\ proc[conn[r]] \in {"ready", "dead"}
        /\ \/ pc[r] \in Registered \union {"delete"}
           \/ pc[r] \in {"collect"} \union Ended /\ LeftReason(r)

\* A process that came up or died does not start again, the transport a request was
\* given stays the same, and a deadline that passed stays passed.
LEMMA ReasonsStay ==
  ASSUME TypeOK, Lifecycle, [Next]_vars
  PROVE  /\ \A p \in Requests : proc[p] \in {"ready", "dead"} =>
              proc'[p] \in {"ready", "dead"} /\ (proc[p] = "dead" => proc'[p] = "dead")
         /\ \A r \in Requests : pc[r] \notin {"ensure", "starting"} => conn'[r] = conn[r]
         /\ expired \subseteq expired' /\ rpcFailed \subseteq rpcFailed'
<1> USE BridgeAssumption
    DEF clientVars, worldVars, runVars, storeVars, reqVars, reqData, cbVars, closerVars, sideVars
<1>0. /\ proc \in [Requests -> {"none", "starting", "ready", "dead"}]
      /\ conn \in [Requests -> Requests \union {None}]
  BY DEF TypeOK
<1>1. ASSUME NEW r \in Requests, EnsureSpawn(r) PROVE proc[r] = "none"
  BY <1>1 DEF Lifecycle, FreshRequests, EnsureSpawn, Spawn
<1>2. \A p \in Requests : proc[p] \in {"ready", "dead"} =>
              proc'[p] \in {"ready", "dead"} /\ (proc[p] = "dead" => proc'[p] = "dead")
  <2>1. CASE \E r \in Requests : EnsureSpawn(r)
    BY <1>0, <1>1, <2>1 DEF EnsureSpawn, Spawn
  <2>2. CASE \E r \in Requests : StartReady(r) \/ StartFail(r) \/ BridgeCrash(r)
    BY <1>0, <2>2 DEF StartReady, Publish, StartFail, AbandonStart, BridgeCrash
  <2>3. CASE \E k \in Closers : CloseStep(k)
    BY <1>0, <2>3 DEF CloseStep, CloseTake, CloseShutdown, Shutdown, CloseStop, CloseServer
  <2>4. CASE /\ ~\E r \in Requests : \/ EnsureSpawn(r) \/ StartReady(r)
                                     \/ StartFail(r) \/ BridgeCrash(r)
             /\ ~\E k \in Closers : CloseStep(k)
    <3>1. proc' = proc
      BY <2>4
      DEF vars, Next, RequestStep, ThreadStep, EnsureReuse, EnsureRefuse, ListModels, CreateAgent,
          CreateAgentFails, PromptFails, OpenStream, StreamEnd, StreamFail, StreamBreaks, BreakOff, PopRun,
          DeleteAgent, Fail, Return, CancelStep, CancelList, CancelRun, RunEnds,
          DeadlinePasses, Invoke, HandlerStep, Lookup, ExecuteInline, Execute, Capture,
          Record, DeferAnswer, Defer, CallClose
    <3> QED BY <3>1
  <2> QED BY <2>1, <2>2, <2>3, <2>4
<1>3. \A r \in Requests : pc[r] \notin {"ensure", "starting"} => conn'[r] = conn[r]
  BY <1>0
  DEF vars, Next, RequestStep, ThreadStep, EnsureReuse, EnsureRefuse, EnsureSpawn, Spawn, ServersStarted, StartReady, Publish,
         StartFail, AbandonStart, ListModels, CreateAgent, CreateAgentFails, PromptFails, OpenStream,
         StreamEnd, StreamFail, StreamBreaks, BreakOff, PopRun, DeleteAgent, Fail, Return, CancelStep, CancelList, CancelRun,
         BridgeCrash, RunEnds, DeadlinePasses, Invoke, HandlerStep, Lookup, ExecuteInline,
         Execute, Capture, Record, DeferAnswer, Defer, CallClose, CloseStep, CloseTake,
         CloseShutdown, Shutdown, CloseStop, CloseServer
<1>4. expired \subseteq expired' /\ rpcFailed \subseteq rpcFailed'
  BY DEF RpcFailedWith, vars, Next, RequestStep, ThreadStep, EnsureReuse, EnsureRefuse, EnsureSpawn, Spawn, ServersStarted, StartReady, Publish,
         StartFail, AbandonStart, ListModels, CreateAgent, CreateAgentFails, PromptFails, OpenStream,
         StreamEnd, StreamFail, StreamBreaks, BreakOff, PopRun, DeleteAgent, Fail, Return, CancelStep, CancelList, CancelRun,
         BridgeCrash, RunEnds, DeadlinePasses, Invoke, HandlerStep, Lookup, ExecuteInline,
         Execute, Capture, Record, DeferAnswer, Defer, CallClose, CloseStep, CloseTake,
         CloseShutdown, Shutdown, CloseStop, CloseServer
<1> QED BY <1>2, <1>3, <1>4

LEMMA LeftNext ==
  TypeOK /\ Lifecycle /\ RunInv /\ LeftInv /\ [Next]_vars => LeftInv'
<1> SUFFICES ASSUME TypeOK, Lifecycle, RunInv, LeftInv, [Next]_vars, NEW q \in Requests
             PROVE  /\ q \in activeRuns' => pc'[q] \in Registered
                    /\ q \in agents' =>
                        /\ conn'[q] \in Requests /\ proc'[conn'[q]] \in {"ready", "dead"}
                        /\ \/ pc'[q] \in Registered \union {"delete"}
                           \/ pc'[q] \in {"collect"} \union Ended /\ LeftReason(q)'
  BY DEF LeftInv
<1> USE BridgeAssumption
    DEF clientVars, worldVars, runVars, storeVars, reqVars, reqData, cbVars, closerVars, sideVars
<1>0. /\ pc \in [Requests -> {"ensure", "starting", "list", "create", "send", "streaming", "pop",
                             "delete", "collect"} \union Ended]
      /\ q \in agents \/ q \in activeRuns => pc[q] \notin {"ensure", "starting"}
  BY DEF TypeOK, LeftInv, Registered, Ended
<1>R. /\ \A p \in Requests : proc[p] \in {"ready", "dead"} =>
              proc'[p] \in {"ready", "dead"} /\ (proc[p] = "dead" => proc'[p] = "dead")
      /\ pc[q] \notin {"ensure", "starting"} => conn'[q] = conn[q]
      /\ expired \subseteq expired' /\ rpcFailed \subseteq rpcFailed'
  BY ReasonsStay
<1>1. ASSUME conn[q] \in Requests, proc[conn[q]] \in {"ready", "dead"},
             pc[q] \notin {"ensure", "starting"}
      PROVE  /\ conn'[q] \in Requests /\ proc'[conn'[q]] \in {"ready", "dead"}
             /\ LeftReason(q) => LeftReason(q)'
  <2>1. conn'[q] = conn[q] /\ proc'[conn[q]] \in {"ready", "dead"}
    BY <1>1, <1>R
  <2>2. ~Alive(conn[q]) => ~Alive(conn[q])'
    BY <1>1, <2>1, <1>R DEF Alive
  <2> QED BY <1>1, <2>1, <2>2, <1>R DEF LeftReason
<1>2. ASSUME NEW r \in Requests, RequestStep(r)
      PROVE  /\ q \in activeRuns' => pc'[q] \in Registered
             /\ q \in agents' => \/ pc'[q] \in Registered \union {"delete"}
                                 \/ pc'[q] \in {"collect"} \union Ended
                                    /\ (LeftReason(q) \/ LeftReason(q)')
             /\ q \in agents' => q \in agents \/ pc[q] = "create"
  <2> DEFINE Steady == activeRuns' = activeRuns /\ agents' = agents
  <2>1. CASE q # r
    <3>1. pc'[q] = pc[q] /\ (q \in agents' <=> q \in agents)
             /\ (q \in activeRuns' <=> q \in activeRuns)
      BY <1>0, <1>2, <2>1
      DEF RequestStep, ThreadStep, EnsureReuse, EnsureRefuse, EnsureSpawn, Spawn, ServersStarted, StartReady, Publish,
         StartFail, AbandonStart, ListModels, CreateAgent, CreateAgentFails, PromptFails, OpenStream,
         StreamEnd, StreamFail, StreamBreaks, BreakOff, PopRun, DeleteAgent, Fail, Return
    <3> QED BY <3>1 DEF LeftInv
  <2>2. CASE q = r
    <3> USE <1>0, <2>2 DEF LeftInv, Registered
    <3>1. CASE EnsureReuse(r) \/ EnsureRefuse(r) \/ EnsureSpawn(r) \/ StartReady(r) \/ StartFail(r)
      <4>1. Steady /\ pc[q] \in {"ensure", "starting"}
        BY <3>1 DEF EnsureReuse, EnsureRefuse, EnsureSpawn, Spawn, StartReady, Publish,
                    StartFail, AbandonStart
      <4> QED BY <4>1
    <3>2. CASE ListModels(r)
      BY <3>2 DEF ListModels, Ended
    <3>3. CASE CreateAgent(r)
      BY <3>3 DEF CreateAgent
    <3>4. CASE CreateAgentFails(r)
      BY <3>4 DEF CreateAgentFails, RpcFailedWith, MustFail, LeftReason, Ended
    <3>5. CASE \/ PromptFails(r) \/ OpenStream(r) \/ StreamEnd(r) \/ StreamFail(r)
               \/ StreamBreaks(r) \/ PopRun(r)
      BY <3>5 DEF PromptFails, OpenStream, StreamEnd, StreamFail, StreamBreaks, BreakOff,
                  PopRun, Ended
    <3>6. CASE DeleteAgent(r)
      BY <3>6 DEF DeleteAgent, RpcFailedWith, MustFail, LeftReason
    <3>7. CASE Fail(r) \/ Return(r)
      BY <3>7 DEF Fail, Return, Ended
    <3> QED BY <1>2, <3>1, <3>2, <3>3, <3>4, <3>5, <3>6, <3>7 DEF RequestStep, ThreadStep
  <2> QED BY <2>1, <2>2
<1>3. ASSUME ~\E r \in Requests : RequestStep(r)
      PROVE  activeRuns' = activeRuns /\ agents' = agents /\ pc' = pc
  BY <1>3 DEF vars, Next, CancelStep, CancelList, CancelRun,
         BridgeCrash, RunEnds, DeadlinePasses, Invoke, HandlerStep, Lookup, ExecuteInline,
         Execute, Capture, Record, DeferAnswer, Defer, CallClose, CloseStep, CloseTake,
         CloseShutdown, Shutdown, CloseStop, CloseServer
<1>4. q \in agents' => conn[q] \in Requests /\ proc[conn[q]] \in {"ready", "dead"}
                       /\ pc[q] \notin {"ensure", "starting"}
  BY <1>0, <1>2, <1>3 DEF LeftInv, RunInv, ConnWasReady
<1>5. CASE \E r \in Requests : RequestStep(r)
  BY <1>1, <1>2, <1>4, <1>5
<1>6. CASE ~\E r \in Requests : RequestStep(r)
  BY <1>1, <1>3, <1>4, <1>6 DEF LeftInv
<1> QED BY <1>5, <1>6

-----------------------------------------------------------------------------
(* Theorems *)

IInv == TypeOK /\ Lifecycle /\ RunInv /\ SkippedCancelIsMoot

LEMMA Inductive == Spec => []IInv
<1>1. Init => IInv
  <2>1. Init => SkippedCancelIsMoot
    BY DEF Init, SkippedCancelIsMoot
  <2> QED BY <2>1, TypeInit, LifecycleInit, RunInvInit DEF IInv
<1>2. IInv /\ [Next]_vars => IInv'
  BY TypeNext, LifecycleNext, RunInvNext, SkippedNext DEF IInv
<1> QED
  BY <1>1, <1>2, PTL DEF Spec

\* A bridge process that runs is published, starting under the lock, or being
\* stopped: whatever threads start, fail and close, none is forgotten.
THEOREM NoBridgeIsForgotten == Spec => []NoOrphanBridge
  BY Inductive, PTL DEF IInv, Lifecycle

\* A callback server that serves belongs to the client or to a close().
THEOREM NoServerIsForgotten == Spec => []NoServerLeak
  BY Inductive, PTL DEF IInv, Lifecycle

\* The published live bridge can call back into the client.
THEOREM PublishedBridgeCanCallBack == Spec => []BridgeCanCallBack
  BY Inductive, PTL DEF IInv, Lifecycle

\* is_closed tells the truth whenever the lock is free.
THEOREM ClosedClientOwnsNothing == Spec => []ClosedOwnsNothing
  BY Inductive, PTL DEF IInv, Lifecycle

\* A cancellation the client asked for never reaches Hermes as a failure.
THEOREM OwnCancelIsNoFailure == Spec => []SelfCancelNeverFails
  BY Inductive, PTL DEF IInv, RunInv

\* A cancel that finds no transport concerns a run that dies anyway.
THEOREM UnlockedReadIsHarmless == Spec => []SkippedCancelIsMoot
  BY Inductive, PTL DEF IInv

\* However a request ends that came to its try, its run is unregistered, and its agent
\* left only for a passed deadline, a dead bridge or a failed RPC of its own.
THEOREM RequestCleansUp == Spec => []RequestLeavesNothing
<1>1. Init => LeftInv
  BY DEF Init, LeftInv
<1>2. Spec => []LeftInv
  BY <1>1, Inductive, LeftNext, PTL DEF Spec, IInv
<1>3. LeftInv => RequestLeavesNothing
  BY DEF LeftInv, Registered, RequestLeavesNothing, Ended
<1> QED BY <1>2, <1>3, PTL

=============================================================================
