------------------------ MODULE BridgeClientRefines ------------------------
(***************************************************************************)
(* The threads of BridgeClient implement the sequential promise of         *)
(* ToolTurn, for every number of requests, tool calls and closers.         *)
(***************************************************************************)
EXTENDS BridgeClientProofs

\* a call sits in the list of its own run only, once its handler captured it
CapturedOnce ==
    \A r \in Requests : \A c \in Range(captured[r]) :
        cbRun[c] = r /\ cbPc[c] \in {"captured", "deferred"}
ReturnedAtEnd == \A r \in Requests : returned[r] # <<>> => pc[r] = "done"

TurnInv == CapturedOnce /\ ReturnedAtEnd

LEMMA RangeAppend ==
  ASSUME NEW S, NEW s \in Seq(S), NEW x \in S
  PROVE  Range(Append(s, x)) = Range(s) \union {x}
<1>1. DOMAIN Append(s, x) = 1 .. Len(s) + 1 /\ DOMAIN s = 1 .. Len(s) /\ Len(s) \in Nat
  OBVIOUS
<1>2. \A i \in 1 .. Len(s) : Append(s, x)[i] = s[i]
  OBVIOUS
<1>3. Append(s, x)[Len(s) + 1] = x
  OBVIOUS
<1> QED
  BY <1>1, <1>2, <1>3 DEF Range

LEMMA TurnInvInit == Init => TurnInv
<1> SUFFICES ASSUME Init PROVE TurnInv
  OBVIOUS
<1>1. \A r \in Requests : captured[r] = <<>> /\ returned[r] = <<>>
  BY DEF Init
<1>2. Range(<<>>) = {}
  BY DEF Range
<1> QED
  BY <1>1, <1>2 DEF TurnInv, CapturedOnce, ReturnedAtEnd

\* handlers that are past capture keep their state
LEMMA TurnInvNext == TypeOK /\ TurnInv /\ [Next]_vars => TurnInv'
<1> SUFFICES ASSUME TypeOK, TurnInv, [Next]_vars PROVE TurnInv'
  OBVIOUS
<1> USE DEF clientVars, worldVars, runVars, storeVars, reqVars, reqData, cbVars, closerVars, sideVars
<1>0. /\ DOMAIN pc = Requests /\ DOMAIN returned = Requests
      /\ captured \in [Requests -> Seq(Calls)]
      /\ DOMAIN cbPc = Calls /\ DOMAIN cbRun = Calls
      /\ \A c \in Calls : cbPc[c] # "unsent" => cbRun[c] \in Requests
  BY DEF TypeOK
<1>1. ASSUME NEW r \in Requests, RequestStep(r) PROVE TurnInv'
  <2>1. CapturedOnce'
    BY <1>1
    DEF TurnInv, CapturedOnce, RequestStep, ThreadStep, EnsureReuse, EnsureRefuse, EnsureSpawn, Spawn, ServersStarted,
        StartReady, Publish, StartFail, AbandonStart, ListModels, CreateAgent, CreateAgentFails, PromptFails, OpenStream,
        StreamEnd, StreamFail, StreamBreaks, BreakOff, PopRun, DeleteAgent, Fail, Return
  <2>2. CASE Return(r)
    <3>1. ReturnedAtEnd' BY <1>0, <2>2 DEF TurnInv, ReturnedAtEnd, Return
    <3> QED BY <2>1, <3>1 DEF TurnInv
  <2>3. CASE ~Return(r)
    <3>1. returned' = returned /\ pc[r] # "done"
      BY <1>1, <2>3
      DEF RequestStep, ThreadStep, EnsureReuse, EnsureRefuse, EnsureSpawn, Spawn, ServersStarted, StartReady, Publish, StartFail, AbandonStart,
          ListModels, CreateAgent, CreateAgentFails, PromptFails, OpenStream, StreamEnd,
          StreamFail, StreamBreaks, BreakOff, PopRun, DeleteAgent, Fail
    <3>2. \A q \in Requests : q # r => pc'[q] = pc[q]
      BY <1>0, <1>1, <2>3
      DEF RequestStep, ThreadStep, EnsureReuse, EnsureRefuse, EnsureSpawn, Spawn, ServersStarted, StartReady, Publish, StartFail, AbandonStart,
          ListModels, CreateAgent, CreateAgentFails, PromptFails, OpenStream, StreamEnd,
          StreamFail, StreamBreaks, BreakOff, PopRun, DeleteAgent, Fail
    <3>3. ReturnedAtEnd' BY <3>1, <3>2 DEF TurnInv, ReturnedAtEnd
    <3> QED BY <2>1, <3>3 DEF TurnInv
  <2> QED BY <2>2, <2>3
<1>2. ASSUME NEW c \in Calls, HandlerStep(c) PROVE TurnInv'
  <2>1. ReturnedAtEnd'
    BY <1>2 DEF TurnInv, ReturnedAtEnd, HandlerStep, Lookup, ExecuteInline, Execute, Capture, Record,
                DeferAnswer, Defer
  <2>2. CASE Capture(c)
    <3>1. captured' = [captured EXCEPT ![cbRun[c]] = Append(@, c)] /\ cbRun[c] \in Requests
      BY <1>0, <2>2 DEF Capture, Record
    <3>2. Range(captured'[cbRun[c]]) = Range(captured[cbRun[c]]) \union {c}
      BY <1>0, <3>1, RangeAppend
    <3>3. \A r \in Requests : r # cbRun[c] => captured'[r] = captured[r]
      BY <1>0, <3>1
    <3>4. cbRun' = cbRun /\ cbPc' = [cbPc EXCEPT ![c] = "captured"]
      BY <2>2 DEF Capture, Record
    <3>6. \A r \in Requests : Range(captured[r]) \subseteq Calls
      BY <1>0 DEF Range
    <3>7. \A d \in Calls : cbPc[d] \in {"captured", "deferred"} \/ d = c
                             => cbPc'[d] \in {"captured", "deferred"}
      BY <1>0, <3>4
    <3>8. ASSUME NEW r \in Requests, NEW d \in Range(captured'[r])
          PROVE  cbRun[d] = r /\ cbPc'[d] \in {"captured", "deferred"}
      <4>1. CASE r = cbRun[c]
        BY <1>2, <3>2, <3>6, <3>7, <3>8, <4>1 DEF TurnInv, CapturedOnce
      <4>2. CASE r # cbRun[c]
        BY <3>3, <3>6, <3>7, <3>8, <4>2 DEF TurnInv, CapturedOnce
      <4> QED BY <4>1, <4>2
    <3>5. CapturedOnce'
      BY <3>4, <3>8 DEF CapturedOnce
    <3> QED BY <2>1, <3>5 DEF TurnInv
  <2>3. CASE ~Capture(c)
    <3>1. captured' = captured /\ cbRun' = cbRun
      BY <1>2, <2>3 DEF HandlerStep, Lookup, ExecuteInline, Execute, DeferAnswer, Defer
    <3>2. \A d \in Calls : cbPc[d] \in {"captured", "deferred"}
                             => cbPc'[d] \in {"captured", "deferred"}
      BY <1>0, <1>2, <2>3 DEF HandlerStep, Lookup, ExecuteInline, Execute, DeferAnswer, Defer
    <3>3. \A r \in Requests : Range(captured[r]) \subseteq Calls
      BY <1>0 DEF Range
    <3>4. CapturedOnce' BY <3>1, <3>2, <3>3 DEF TurnInv, CapturedOnce
    <3> QED BY <2>1, <3>4 DEF TurnInv
  <2> QED BY <2>2, <2>3
<1>3. ASSUME NEW r \in Requests, NEW c \in Calls, Invoke(c, r) PROVE TurnInv'
  <2>1. \A q \in Requests : c \notin Range(captured[q])
    BY <1>3 DEF Invoke, TurnInv, CapturedOnce
  <2> QED BY <1>0, <1>3, <2>1 DEF Invoke, TurnInv, CapturedOnce, ReturnedAtEnd
<1>4. ASSUME NEW r \in Requests,
             CancelStep(r) \/ BridgeCrash(r) \/ RunEnds(r) \/ DeadlinePasses(r)
      PROVE  TurnInv'
  BY <1>4 DEF CancelStep, CancelList, CancelRun, BridgeCrash, RunEnds,
              DeadlinePasses, TurnInv, CapturedOnce, ReturnedAtEnd
<1>5. ASSUME NEW k \in Closers, CallClose(k) \/ CloseStep(k) PROVE TurnInv'
  BY <1>5 DEF CallClose, CloseStep, CloseTake, CloseShutdown, Shutdown, CloseStop,
              CloseServer, TurnInv, CapturedOnce, ReturnedAtEnd
<1>6. CASE UNCHANGED vars
  BY <1>6 DEF vars, TurnInv, CapturedOnce, ReturnedAtEnd
<1> QED
  BY <1>1, <1>2, <1>3, <1>4, <1>5, <1>6 DEF Next

LEMMA TurnInitMaps == Init => Turn!TurnInit
<1> SUFFICES ASSUME Init PROVE Turn!TurnInit
  OBVIOUS
<1>1. \A r \in Requests : TurnOf(r) = "open"
  BY DEF Init, TurnOf
<1> QED
  BY <1>1 DEF Init, Turn!TurnInit

\* a step that ends no request and captures nothing is a stutter of ToolTurn
LEMMA TurnStutter ==
  ASSUME UNCHANGED <<captured, returned>>, \A r \in Requests : TurnOf(r)' = TurnOf(r)
  PROVE  UNCHANGED Turn!turnVars
  BY DEF Turn!turnVars

LEMMA TurnNextMaps ==
  TypeOK /\ RunInv /\ TurnInv /\ [Next]_vars => [Turn!TurnNext]_(Turn!turnVars)
<1> SUFFICES ASSUME TypeOK, RunInv, TurnInv, [Next]_vars
             PROVE  [Turn!TurnNext]_(Turn!turnVars)
  OBVIOUS
<1> USE DEF clientVars, worldVars, runVars, storeVars, reqVars, reqData, cbVars, closerVars, sideVars
<1>0. /\ DOMAIN pc = Requests
      /\ captured \in [Requests -> Seq(Calls)] /\ returned \in [Requests -> Seq(Calls)]
      /\ \A c \in Calls : cbPc[c] # "unsent" => cbRun[c] \in Requests
  BY DEF TypeOK
<1>1. ASSUME NEW r \in Requests, RequestStep(r) PROVE [Turn!TurnNext]_(Turn!turnVars)
  <2>0. captured' = captured
    BY <1>1 DEF RequestStep, ThreadStep, EnsureReuse, EnsureRefuse, EnsureSpawn, Spawn, ServersStarted, StartReady, Publish,
                StartFail, AbandonStart, ListModels, CreateAgent, CreateAgentFails, PromptFails, OpenStream,
                StreamEnd, StreamFail, StreamBreaks, BreakOff, PopRun, DeleteAgent, Fail, Return
  <2>1. ASSUME pc[r] \notin Ended, pc' = [pc EXCEPT ![r] = "done"],
               returned' = [returned EXCEPT ![r] = captured[r]]
        PROVE  Turn!Return(r)
    <3>1. \A q \in Requests : TurnOf(q)' = IF q = r THEN "returned" ELSE TurnOf(q)
      BY <1>0, <2>1 DEF TurnOf
    <3>2. TurnOf(r) = "open"
      BY <2>1 DEF TurnOf, Ended
    <3> QED BY <2>0, <2>1, <3>1, <3>2 DEF Turn!Return
  <2>2. ASSUME pc[r] \notin Ended, UNCHANGED returned,
               \/ pc' = [pc EXCEPT ![r] = "failed"]
               \/ pc' = [pc EXCEPT ![r] = "unformatted"]
               \/ pc' = [pc EXCEPT ![r] = "refused"]
        PROVE  Turn!Raise(r)
    <3>1. \A q \in Requests : TurnOf(q)' = IF q = r THEN "raised" ELSE TurnOf(q)
      BY <1>0, <2>2 DEF TurnOf
    <3>2. TurnOf(r) = "open"
      BY <2>2 DEF TurnOf, Ended
    <3> QED BY <2>0, <2>2, <3>1, <3>2 DEF Turn!Raise
  <2>3. CASE Return(r)
    BY <2>1, <2>3 DEF Return, Ended, Turn!TurnNext
  <2>4. CASE ListModels(r)
    <3>1. captured[r] = <<>> /\ returned[r] = <<>>
      BY <2>4 DEF ListModels, RunInv, RunIsSent, CaptureIsOfRun, TurnInv, ReturnedAtEnd
    <3>2. returned = [returned EXCEPT ![r] = captured[r]]
      BY <1>0, <3>1
    <3>3. CASE pc' = [pc EXCEPT ![r] = "done"]
      BY <2>1, <2>4, <3>2, <3>3 DEF ListModels, Ended, Turn!TurnNext
    <3>4. CASE pc' = [pc EXCEPT ![r] = "refused"]
      BY <2>2, <2>4, <3>4 DEF ListModels, Ended, Turn!TurnNext
    <3> QED BY <2>4, <3>3, <3>4 DEF ListModels
  <2>5. CASE EnsureRefuse(r) \/ StartFail(r) \/ CreateAgentFails(r) \/ Fail(r)
             \/ PromptFails(r)
    BY <2>2, <2>5 DEF EnsureRefuse, StartFail, AbandonStart, CreateAgentFails, PromptFails, Fail, Ended,
                      Turn!TurnNext
  <2>6. CASE \/ EnsureReuse(r) \/ EnsureSpawn(r) \/ StartReady(r) \/ CreateAgent(r)
             \/ OpenStream(r) \/ StreamEnd(r) \/ StreamFail(r) \/ PopRun(r)
             \/ StreamBreaks(r) \/ DeleteAgent(r)
    <3>1. returned' = returned /\ pc[r] \notin Ended
      BY <2>6 DEF EnsureReuse, EnsureSpawn, Spawn, ServersStarted, StartReady, Publish, CreateAgent, OpenStream,
                  StreamEnd, StreamFail, StreamBreaks, BreakOff, PopRun, DeleteAgent, Ended
    <3>2. PICK next \in {"starting", "list", "create", "send", "streaming", "pop",
                         "delete", "collect"} : pc' = [pc EXCEPT ![r] = next]
      BY <2>6 DEF EnsureReuse, EnsureSpawn, Spawn, ServersStarted, StartReady, Publish, CreateAgent, OpenStream,
                  StreamEnd, StreamFail, StreamBreaks, BreakOff, PopRun, DeleteAgent, FirstRpc
    <3>3. \A q \in Requests : TurnOf(q)' = TurnOf(q)
      BY <1>0, <3>1, <3>2 DEF TurnOf, Ended
    <3> QED BY <2>0, <3>1, <3>3, TurnStutter
  <2> QED BY <1>1, <2>3, <2>4, <2>5, <2>6 DEF RequestStep, ThreadStep
<1>2. ASSUME NEW c \in Calls, HandlerStep(c) PROVE [Turn!TurnNext]_(Turn!turnVars)
  <2>1. \A q \in Requests : TurnOf(q)' = TurnOf(q)
    BY <1>2 DEF HandlerStep, Lookup, ExecuteInline, Execute, Capture, Record, DeferAnswer, Defer, TurnOf
  <2>2. CASE Capture(c)
    <3>1. cbRun[c] \in Requests /\ \A q \in Requests : c \notin Range(captured[q])
      BY <1>0, <2>2 DEF Capture, Record, TurnInv, CapturedOnce
    <3>2. ~Turn!AcceptedBySome(c)
      BY <3>1 DEF Turn!AcceptedBySome, Turn!Range, Range
    <3>3. Turn!Accept(cbRun[c], c)
      BY <2>1, <2>2, <3>2 DEF Capture, Record, Turn!Accept
    <3> QED BY <3>1, <3>3 DEF Turn!TurnNext
  <2>3. CASE ~Capture(c)
    BY <1>2, <2>1, <2>3, TurnStutter DEF HandlerStep, Lookup, ExecuteInline, Execute, DeferAnswer, Defer
  <2> QED BY <2>2, <2>3
<1>3. ASSUME NEW r \in Requests,
             \/ CancelStep(r) \/ BridgeCrash(r) \/ RunEnds(r) \/ DeadlinePasses(r)
             \/ \E c \in Calls : Invoke(c, r)
      PROVE  [Turn!TurnNext]_(Turn!turnVars)
  <2>1. UNCHANGED <<captured, returned, pc>>
    BY <1>3 DEF CancelStep, CancelList, CancelRun, BridgeCrash, RunEnds,
                DeadlinePasses, Invoke
  <2> QED BY <2>1, TurnStutter DEF TurnOf
<1>4. ASSUME NEW k \in Closers, CallClose(k) \/ CloseStep(k)
      PROVE  [Turn!TurnNext]_(Turn!turnVars)
  <2>1. UNCHANGED <<captured, returned, pc>>
    BY <1>4 DEF CallClose, CloseStep, CloseTake, CloseShutdown, Shutdown, CloseStop, CloseServer
  <2> QED BY <2>1, TurnStutter DEF TurnOf
<1>5. CASE UNCHANGED vars
  <2>1. UNCHANGED <<captured, returned, pc>>
    BY <1>5 DEF vars
  <2> QED BY <2>1, TurnStutter DEF TurnOf
<1> QED
  BY <1>1, <1>2, <1>3, <1>4, <1>5 DEF Next

\* A request of the client is a turn of ToolTurn, whatever the threads, the
\* bridge processes, the cancels and the closes do.
THEOREM ClientImplementsToolTurn == Spec => ImplementsToolTurn
<1>1. Spec => []TurnInv
  <2>1. Spec => []TypeOK
    BY TypeCorrect
  <2> QED BY <2>1, TurnInvInit, TurnInvNext, PTL DEF Spec
<1>2. Spec => [](TypeOK /\ RunInv)
  BY Inductive, PTL DEF IInv
<1> QED
  BY <1>1, <1>2, TurnInitMaps, TurnNextMaps, PTL
  DEF Spec, ImplementsToolTurn, Turn!TurnSpec

-----------------------------------------------------------------------------
(* A call is carried out on one side: what a request returned was captured,   *)
(* and a captured call did not run inside the callback.                       *)

ReturnedWasCaptured ==
    \A r \in Requests : Range(returned[r]) \subseteq Range(captured[r])

\* no step takes a call out of the list of its run
LEMMA CaptureGrows ==
  TypeOK /\ [Next]_vars => \A r \in Requests : Range(captured[r]) \subseteq Range(captured'[r])
<1> SUFFICES ASSUME TypeOK, [Next]_vars
             PROVE  \A r \in Requests : Range(captured[r]) \subseteq Range(captured'[r])
  OBVIOUS
<1> USE DEF clientVars, worldVars, runVars, storeVars, reqVars, reqData, cbVars, closerVars, sideVars
<1>1. ASSUME NEW c \in Calls, Capture(c)
      PROVE  \A r \in Requests : Range(captured[r]) \subseteq Range(captured'[r])
  <2>1. /\ captured \in [Requests -> Seq(Calls)]
        /\ captured' = [captured EXCEPT ![cbRun[c]] = Append(@, c)]
        /\ cbRun[c] \in Requests
    BY <1>1 DEF Capture, Record, TypeOK
  <2>2. ASSUME NEW r \in Requests PROVE Range(captured[r]) \subseteq Range(captured'[r])
    <3>1. CASE r = cbRun[c]
      <4>1. captured'[r] = Append(captured[r], c) /\ captured[r] \in Seq(Calls)
        BY <2>1, <3>1
      <4> QED BY <4>1, RangeAppend
    <3>2. CASE r # cbRun[c]
      BY <2>1, <3>2
    <3> QED BY <3>1, <3>2
  <2> QED BY <2>2
<1>2. CASE captured' = captured
  BY <1>2
<1>3. (\E c \in Calls : Capture(c)) \/ captured' = captured
  BY DEF vars, Next, RequestStep, ThreadStep, EnsureReuse, EnsureRefuse, EnsureSpawn, Spawn, ServersStarted,
      StartReady, Publish, StartFail, AbandonStart, ListModels, CreateAgent, CreateAgentFails, PromptFails, OpenStream,
      StreamEnd, StreamFail, StreamBreaks, BreakOff, PopRun, DeleteAgent, Fail, Return, CancelStep, CancelList,
      CancelRun, BridgeCrash, RunEnds, DeadlinePasses, Invoke, HandlerStep, Lookup,
      ExecuteInline, Execute, DeferAnswer, Defer, CallClose, CloseStep, CloseTake,
      CloseShutdown, Shutdown, CloseStop, CloseServer
<1> QED BY <1>1, <1>2, <1>3

LEMMA ReturnedNext ==
  TypeOK /\ ReturnedWasCaptured /\ [Next]_vars => ReturnedWasCaptured'
<1> SUFFICES ASSUME TypeOK, ReturnedWasCaptured, [Next]_vars PROVE ReturnedWasCaptured'
  OBVIOUS
<1> USE DEF clientVars, worldVars, runVars, storeVars, reqVars, reqData, cbVars, closerVars, sideVars
<1>1. CASE returned' = returned
  BY <1>1, CaptureGrows DEF ReturnedWasCaptured
<1>2. ASSUME NEW r \in Requests, Return(r) PROVE ReturnedWasCaptured'
  <2>1. captured' = captured /\ returned' = [returned EXCEPT ![r] = captured[r]]
    BY <1>2 DEF Return
  <2> QED BY <2>1 DEF ReturnedWasCaptured, TypeOK
<1>3. (\E r \in Requests : Return(r)) \/ returned' = returned
  BY DEF vars, Next, RequestStep, ThreadStep, EnsureReuse, EnsureRefuse, EnsureSpawn, Spawn, ServersStarted,
      StartReady, Publish, StartFail, AbandonStart, ListModels, CreateAgent, CreateAgentFails, PromptFails, OpenStream,
      StreamEnd, StreamFail, StreamBreaks, BreakOff, PopRun, DeleteAgent, Fail, CancelStep, CancelList,
      CancelRun, BridgeCrash, RunEnds, DeadlinePasses, Invoke, HandlerStep, Lookup,
      ExecuteInline, Execute, Capture, Record, DeferAnswer, Defer, CallClose, CloseStep,
      CloseTake, CloseShutdown, Shutdown, CloseStop, CloseServer
<1> QED BY <1>1, <1>2, <1>3

\* No tool call is both carried out inside the callback and handed to Hermes.
THEOREM CallRunsOnOneSide == Spec => []RunBySideOnce
<1>1. TypeOK /\ TurnInv /\ ReturnedWasCaptured => RunBySideOnce
  BY DEF TypeOK, TurnInv, CapturedOnce, ReturnedWasCaptured, RunBySideOnce
<1>2. Init => ReturnedWasCaptured
  BY DEF Init, ReturnedWasCaptured
<1>3. Spec => []TypeOK
  BY TypeCorrect
<1> QED
  BY <1>1, <1>2, <1>3, TurnInvInit, TurnInvNext, ReturnedNext, PTL DEF Spec

=============================================================================
