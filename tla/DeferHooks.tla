----------------------------- MODULE DeferHooks -----------------------------
(***************************************************************************)
(* defer_hooks.py and the three shims it installs: the plugin patches one  *)
(* function in each of three Hermes modules, at whatever moment of Hermes' *)
(* start-up the plugin happens to be loaded.  A target may be absent then, *)
(* complete, or half executed further down the import stack.  A target     *)
(* that is present gets a module class whose every attribute access tries  *)
(* _apply again; one that is absent is caught by a finder that wraps its   *)
(* loader.  _apply itself runs Hermes code, which imports and reads the    *)
(* same modules.                                                           *)
(*                                                                         *)
(* One thread is modelled, by its stack: the frames are modules being      *)
(* executed, _apply calls and install_defer_hooks.  Hermes code decides    *)
(* what to import, define and read, and any import of it may fail.         *)
(***************************************************************************)
EXTENDS Naturals, FiniteSets, Sequences, SequencesExt

Targets == {"auth", "flows", "picker"}

\* _TARGETS, and what a target defines in all, in an order of its own
Required == [auth |-> {"registry", "resolver"}, flows |-> {"flow"},
             picker |-> {"store"}]
Defines == [Required EXCEPT !.auth = @ \union {"register"}]

VARIABLES
    mod,        \* mod[t] in sys.modules: "absent", "executing" or "loaded"
    attrs,      \* attrs[t]: what t has defined
    hooked,     \* targets whose module holds the plugin's wrapper
    pending,    \* _pending
    busy,       \* _busy
    wrapped,    \* the shims' own flags: _INSTALLED, _FLOW_WRAPPED, _PICKER_INSTALLED
    guarded,    \* targets whose module has the class PendingModule
    installed,  \* _installed
    finder,     \* _finder is in sys.meta_path
    alias,      \* _model_flow_api_key_provider in hermes_cli.main
    stack,      \* the frames, innermost last
    excused     \* targets one of the known gaps has been met for

moduleVars == <<mod, attrs, hooked>>
hookVars == <<pending, busy, wrapped, guarded, finder>>
vars == <<moduleVars, hookVars, installed, alias, stack, excused>>

Exec(t, via) == [op |-> "exec", mod |-> t, via |-> via, step |-> "body"]
Apply(t) == [op |-> "apply", mod |-> t,
             step |-> IF t = "flows" THEN "wrap" ELSE "look"]
Install(todo) == [op |-> "install", todo |-> todo, step |-> "guard"]

Top == Last(stack)
Popped == Front(stack)
IsTop(op, t) == stack # <<>> /\ Top.op = op /\ Top.mod = t
AtStep(op, t, step) == IsTop(op, t) /\ Top.step = step

Init ==
    /\ mod = [t \in Targets |-> "absent"]
    /\ attrs = [t \in Targets |-> {}]
    /\ hooked = {} /\ pending = Targets /\ busy = {} /\ wrapped = {}
    /\ guarded = {} /\ installed = FALSE /\ finder = FALSE
    /\ alias = "none" /\ stack = <<>> /\ excused = {}

-----------------------------------------------------------------------------
(* _apply *)

ApplicableIgnoringBusy(t) == t \in pending /\ Required[t] \subseteq attrs[t]  \* mutant

Applicable(t) == t \in pending \ busy /\ Required[t] \subseteq attrs[t]

\* frames with a call of _apply(t) on top, if it does anything
Calling(t, frames) == IF Applicable(t) THEN Append(frames, Apply(t)) ELSE frames
BusyCalling(t) == IF Applicable(t) THEN busy \union {t} ELSE busy

\* auth looks its profile up, which runs Hermes code; picker asks for aliases
LookedUp(t) ==
    /\ AtStep("apply", t, "look")
    /\ stack' = Append(Popped, [Top EXCEPT !.step = IF t = "auth" THEN "register"
                                                   ELSE "wrap"])
    /\ UNCHANGED <<moduleVars, hookVars, installed, alias, excused>>

\* sync_provider_auth_registry finds the profile or registers it
Register ==
    /\ AtStep("apply", "auth", "register")
    /\ "register" \in attrs["auth"]
    /\ stack' = Append(Popped, [Top EXCEPT !.step = "wrap"])
    /\ UNCHANGED <<moduleVars, hookVars, installed, alias, excused>>

\* install the wrapper unless the shim did so before, then put everything back
Finish(t, served, newAlias) ==
    /\ AtStep("apply", t, "wrap")
    /\ IF t \in wrapped THEN UNCHANGED <<hooked, alias>>
       ELSE hooked' = hooked \union {t} /\ alias' = newAlias
    /\ wrapped' = wrapped \union {t}
    /\ pending' = pending \ {t} /\ busy' = busy \ {t}
    /\ guarded' = guarded \ {t}
    /\ finder' = (finder /\ served)
    /\ stack' = Popped
    /\ UNCHANGED <<mod, attrs, installed, excused>>

\* _patch_main_alias
PatchedAlias(t) == IF t = "flows" /\ alias # "none" THEN "wrapper" ELSE alias

\* mutants: the finder test comes before the discard; no _patch_main_alias
FinishEarlyTest(t) == Finish(t, pending # {}, PatchedAlias(t))
FinishNoAlias(t) == Finish(t, pending # {t}, alias)

ApplyOk(t) == Finish(t, pending # {t}, PatchedAlias(t))

\* what called the _apply on top
Caller(op) == Popped # <<>> /\ Last(Popped).op = op
LoaderCalled == Caller("exec") /\ Last(Popped).step = "after"

\* no profile: tried again at the next access of a guarded module, never again
\* for a module the loader wrapper brought in
ApplyNotOk ==
    /\ AtStep("apply", "auth", "look")
    /\ busy' = busy \ {"auth"} /\ stack' = Popped
    /\ excused' = IF LoaderCalled THEN excused \union {"auth"} ELSE excused
    /\ UNCHANGED <<moduleVars, pending, wrapped, guarded, finder, installed, alias>>

-----------------------------------------------------------------------------
(* exceptions *)

\* an import of t that fails takes its module, class and wrapper with it
Forget(t) ==
    /\ mod' = [mod EXCEPT ![t] = "absent"]
    /\ attrs' = [attrs EXCEPT ![t] = {}]
    /\ hooked' = hooked \ {t}
    /\ guarded' = guarded \ {t}
    /\ excused' = excused \union (hooked \intersect {t})

Unguarded(todo) == {t \in DOMAIN todo : todo[t] # "done"}

\* The lookup raises, or auth has no _register_plugin_provider yet.  What called
\* _apply sees it: an attribute access in Hermes code, which may catch it; the
\* loader wrapper, whose import fails; or install_defer_hooks, and with it the
\* loading of the plugin, after which nothing else is guarded.
ApplyRaises(newBusy) ==
    /\ \/ AtStep("apply", "auth", "look")
       \/ AtStep("apply", "auth", "register") /\ "register" \notin attrs["auth"]
    /\ busy' = newBusy
    /\ \/ LoaderCalled /\ Forget("auth") /\ stack' = Front(Popped)
       \/ /\ Caller("install")
          /\ excused' = excused \union Unguarded(Last(Popped).todo)
          /\ stack' = Front(Popped) /\ UNCHANGED <<moduleVars, guarded>>
       \/ /\ ~LoaderCalled /\ ~Caller("install")
          /\ stack' = Popped /\ UNCHANGED <<moduleVars, guarded, excused>>
    /\ UNCHANGED <<pending, wrapped, finder, installed, alias>>

RaiseBusy == ApplyRaises(busy)  \* mutant: _busy is not cleaned up in a finally

Raise == ApplyRaises(busy \ {"auth"})

ImportFails(t) ==
    /\ AtStep("exec", t, "body")
    /\ Forget(t) /\ stack' = Popped
    /\ UNCHANGED <<pending, busy, wrapped, finder, installed, alias>>

-----------------------------------------------------------------------------
(* Hermes code: at the top level, in a module's body, and in a lookup *)

HermesRuns ==
    stack # <<>> => <<Top.op, Top.step>> \in {<<"exec", "body">>, <<"apply", "look">>}

\* CompletionFinder.find_spec wraps the loader of a pending target
Import(t) ==
    /\ HermesRuns /\ mod[t] = "absent"
    /\ mod' = [mod EXCEPT ![t] = "executing"]
    /\ stack' = Append(stack, Exec(t, finder /\ t \in pending))
    /\ UNCHANGED <<attrs, hooked, hookVars, installed, alias, excused>>

Define(t, a) ==
    /\ AtStep("exec", t, "body") /\ a \in Defines[t] \ attrs[t]
    /\ attrs' = [attrs EXCEPT ![t] = @ \union {a}]
    /\ UNCHANGED <<mod, hooked, hookVars, installed, alias, stack, excused>>

\* PendingModule.__getattribute__
ReadAttribute(t) ==
    /\ HermesRuns /\ t \in guarded /\ Applicable(t)
    /\ busy' = busy \union {t}
    /\ stack' = Append(stack, Apply(t))
    /\ UNCHANGED <<moduleVars, pending, wrapped, guarded, finder, installed, alias,
                   excused>>

\* hermes_cli.main does `from model_setup_flows import ...`: an access as well
ImportFlowIntoMain ==
    /\ HermesRuns /\ "flow" \in attrs["flows"]
    /\ ~("flows" \in guarded /\ Applicable("flows"))
    /\ alias' = IF "flows" \in hooked THEN "wrapper" ELSE "original"
    /\ UNCHANGED <<moduleVars, hookVars, installed, stack, excused>>

\* CompletionLoader.exec_module calls _apply behind the module's own body
BodyEnds(t) ==
    /\ AtStep("exec", t, "body") /\ attrs[t] = Defines[t]
    /\ stack' = IF Top.via
                THEN Calling(t, Append(Popped, [Top EXCEPT !.step = "after"]))
                ELSE Append(Popped, [Top EXCEPT !.step = "after"])
    /\ busy' = IF Top.via THEN BusyCalling(t) ELSE busy
    /\ UNCHANGED <<moduleVars, pending, wrapped, guarded, finder, installed, alias,
                   excused>>

ImportEnds(t) ==
    /\ AtStep("exec", t, "after")
    /\ mod' = [mod EXCEPT ![t] = "loaded"]
    /\ stack' = Popped
    /\ UNCHANGED <<attrs, hooked, hookVars, installed, alias, excused>>

-----------------------------------------------------------------------------
(* install_defer_hooks *)

LoadPlugin ==
    /\ HermesRuns /\ ~installed
    /\ installed' = TRUE /\ finder' = TRUE
    /\ stack' = Append(stack, Install([t \in pending |-> "next"]))
    /\ UNCHANGED <<moduleVars, pending, busy, wrapped, guarded, alias, excused>>

AtTodo(t, at) ==
    /\ stack # <<>> /\ Top.op = "install"
    /\ t \in DOMAIN Top.todo /\ Top.todo[t] = at
At(t, at) == Append(Popped, [Top EXCEPT !.todo[t] = at])

\* _guard: try _apply; an absent target is left to the finder
GuardFirst(t) ==
    /\ AtTodo(t, "next") /\ \A u \in DOMAIN Top.todo : Top.todo[u] # "applying"
    /\ IF mod[t] = "absent" THEN stack' = At(t, "done") /\ busy' = busy
       ELSE stack' = Calling(t, At(t, "applying")) /\ busy' = BusyCalling(t)
    /\ UNCHANGED <<moduleVars, pending, wrapped, guarded, finder, installed, alias,
                   excused>>

\* if the target is still pending, change its module's class
Guard(t, wanted) ==
    /\ AtTodo(t, "applying")
    /\ guarded' = IF wanted THEN guarded \union {t} ELSE guarded
    /\ stack' = At(t, "done")
    /\ UNCHANGED <<moduleVars, pending, busy, wrapped, finder, installed, alias,
                   excused>>

\* mutant: only a target that is still executing is guarded
GuardExecuting(t) == Guard(t, t \in pending /\ mod[t] = "executing")

GuardThen(t) == Guard(t, t \in pending)

PluginLoaded ==
    /\ stack # <<>> /\ Top.op = "install"
    /\ \A t \in DOMAIN Top.todo : Top.todo[t] = "done"
    /\ stack' = Popped
    /\ UNCHANGED <<moduleVars, hookVars, installed, alias, excused>>

-----------------------------------------------------------------------------
Next ==
    \/ \E t \in Targets :
        \/ LookedUp(t) \/ ApplyOk(t) \/ ImportFails(t) \/ Import(t)
        \/ \E a \in Defines[t] : Define(t, a)
        \/ ReadAttribute(t) \/ BodyEnds(t) \/ ImportEnds(t)
        \/ GuardFirst(t) \/ GuardThen(t)
    \/ Register \/ ApplyNotOk \/ Raise
    \/ ImportFlowIntoMain \/ LoadPlugin \/ PluginLoaded

Spec == Init /\ [][Next]_vars

-----------------------------------------------------------------------------
(* Properties *)

Frames(op) == {i \in DOMAIN stack : stack[i].op = op}

TypeOK ==
    /\ mod \in [Targets -> {"absent", "executing", "loaded"}]
    /\ \A t \in Targets : attrs[t] \subseteq Defines[t]
    /\ hooked \union guarded \subseteq {t \in Targets : mod[t] # "absent"}
    /\ pending \union busy \union wrapped \union excused \subseteq Targets
    /\ installed \in BOOLEAN /\ finder \in BOOLEAN
    /\ alias \in {"none", "original", "wrapper"}
    /\ Len(stack) <= 2 * Cardinality(Targets) + 1

\* _busy names exactly the targets an _apply is at work on, each once, however
\* the modules' imports and attribute accesses nest and whatever raises: no
\* hook recurses into itself, and none is locked out for ever.
BusyIsApplying ==
    /\ busy = {stack[i].mod : i \in Frames("apply")}
    /\ Cardinality(busy) = Cardinality(Frames("apply"))

\* A target that Hermes has loaded holds the plugin's wrapper, or will at its
\* next access, wherever in Hermes' imports the plugin was loaded.  Excused are
\* the three gaps of the code: an import that fails with the hook in place and
\* is repeated, a loader-wrapped auth that finds no profile, and targets behind
\* one whose hook raised while the plugin was being loaded.
HookInPlace ==
    \A t \in Targets :
        installed /\ Frames("install") = {} /\ mod[t] = "loaded" /\ t \notin excused
            => t \in hooked \union guarded

\* The machinery is gone with its purpose: a module has the guard class only
\* while its hook is pending, and the finder is in sys.meta_path exactly while
\* there is a hook left to install.
MachineryIsTemporary ==
    /\ guarded \subseteq pending
    /\ finder = (installed /\ pending # {})

\* hermes_cli.main never dispatches to the unwrapped flow once it is wrapped,
\* whether it copied the function before the hook, during it or after it.
MainUsesWrapper == "flows" \in hooked => alias # "original"

=============================================================================
