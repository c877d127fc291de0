-------------------------- MODULE DeferHooksProofs --------------------------
(***************************************************************************)
(* The deferred hooks, over every nesting of imports, attribute accesses   *)
(* and failures.  The stack has no bound here other than the one proved.   *)
(*                                                                         *)
(* No invariant of the run is inductive but the alias's.  What they need   *)
(* is what the frames of the stack promise: a module is executed by one    *)
(* frame only and below every frame that holds it (Single, ExecInv), so it *)
(* cannot go while a hook is put into it; busy is what the apply frames    *)
(* say (BusyInv); a loader wrapper behind its module's body does nothing   *)
(* but its one call of _apply (LoaderInv); and, the heart of it, once the  *)
(* plugin is loaded every pending target that is there is guarded or some  *)
(* frame is yet to try it (ReachInv, Coming).  That last one holds because *)
(* nothing is hooked or guarded before the plugin is loaded (BeforeInv).   *)
(***************************************************************************)
EXTENDS DeferHooks, FiniteSetTheorems, FunctionTheorems, SequenceTheorems, TLAPS

Names == {"registry", "resolver", "register", "flow", "store"}

ExecFrame == [op : {"exec"}, mod : Targets, via : BOOLEAN, step : {"body", "after"}]
ApplyFrame == [op : {"apply"}, mod : Targets, step : {"look", "register", "wrap"}]
InstallFrame == [op : {"install"}, todo : [Targets -> {"next", "applying", "done"}],
                 step : {"guard"}]
Frame == ExecFrame \union ApplyFrame \union InstallFrame

\* TypeOK with the frames of the stack
Typed ==
    /\ mod \in [Targets -> {"absent", "executing", "loaded"}]
    /\ attrs \in [Targets -> SUBSET Names]
    /\ \A t \in Targets : /\ attrs[t] \in SUBSET Defines[t]
                          /\ mod[t] = "absent" => attrs[t] = {}
    /\ busy \in SUBSET Targets /\ wrapped \in SUBSET Targets
    /\ excused \in SUBSET Targets
    /\ installed \in BOOLEAN /\ finder \in BOOLEAN
    /\ alias \in {"none", "original", "wrapper"}
    /\ stack \in Seq(Frame)

Executes(f, t) == f.op = "exec" /\ f.mod = t
Applies(f, t) == f.op = "apply" /\ f.mod = t

\* a module that a frame has found in sys.modules and means to patch
Holds(f, t) ==
    \/ Applies(f, t)
    \/ f.op = "install" /\ f.todo[t] = "applying"

\* nothing is entered twice
Single ==
    \A i, j \in DOMAIN stack :
        /\ stack[i].op = stack[j].op
        /\ stack[i].op # "install" => stack[i].mod = stack[j].mod
        => i = j

\* busy is what is being applied
BusyInv ==
    \A t \in Targets : t \in busy <=> \E i \in DOMAIN stack : Applies(stack[i], t)

\* a module is executed once, before anything is patched in it
ExecInv ==
    \A t \in Targets : \A i \in DOMAIN stack : Executes(stack[i], t) =>
        /\ mod[t] = "executing"
        /\ \A j \in DOMAIN stack : Holds(stack[j], t) => i < j

\* no module is taken away from an _apply or from install_defer_hooks
HeldInv ==
    \A t \in Targets : \A j \in DOMAIN stack : Holds(stack[j], t) => mod[t] # "absent"

\* the loader wrapper does nothing behind the body but to call _apply
LoaderInv ==
    \A i \in DOMAIN stack :
        stack[i].op = "exec" /\ stack[i].step = "after" /\ i # Len(stack) =>
            Applies(stack[i + 1], stack[i].mod)

\* before the plugin is loaded there is nothing of it
BeforeInv ==
    ~installed => /\ wrapped = {} /\ guarded = {}
                  /\ \A i \in DOMAIN stack : stack[i].op = "exec" /\ ~stack[i].via

\* what the hook variables say of each other and of the modules
HookInv ==
    /\ pending = Targets \ wrapped
    /\ guarded \in SUBSET pending
    /\ finder = (installed /\ pending # {})
    /\ \A t \in hooked \union guarded : t \in Targets /\ mod[t] # "absent"
    /\ wrapped \in SUBSET (hooked \union excused)

\* A pending hook of a module that is there will be tried: when the body is done, by the
\* loader wrapper, or by install_defer_hooks.
Serves(f, t) ==
    \/ Executes(f, t) /\ f.via /\ f.step = "body"
    \/ f.op = "install" /\ f.todo[t] # "done"

Coming(t) ==
    \E i \in DOMAIN stack :
        \/ Serves(stack[i], t)
        \/ Executes(stack[i], t) /\ stack[i].via /\ i # Len(stack)

\* once the plugin is loaded, a pending target that is there is guarded or will be tried
ReachInv ==
    installed => \A t \in pending \ excused :
        mod[t] # "absent" => t \in guarded \/ Coming(t)

HooksInv ==
    /\ Typed /\ Single /\ BusyInv /\ ExecInv /\ HeldInv /\ LoaderInv /\ BeforeInv
    /\ HookInv /\ ReachInv /\ MainUsesWrapper

-----------------------------------------------------------------------------
(* the stack *)

\* the frames of a stack that has a top: the top, and those below it
LEMMA TopAndBelow ==
  ASSUME NEW s \in Seq(Frame), s # <<>>
  PROVE  /\ Len(s) \in Nat \ {0} /\ DOMAIN s = 1..Len(s)
         /\ Last(s) = s[Len(s)] /\ Last(s) \in Frame
         /\ Front(s) \in Seq(Frame) /\ Len(Front(s)) = Len(s) - 1
         /\ DOMAIN Front(s) = 1..(Len(s) - 1)
         /\ \A i \in 1..(Len(s) - 1) : Front(s)[i] = s[i]
<1>1. Len(s) \in Nat \ {0} /\ DOMAIN s = 1..Len(s) /\ s[Len(s)] \in Frame
  BY EmptySeq
<1>2. /\ SubSeq(s, 1, Len(s) - 1) \in Seq(Frame)
      /\ Len(SubSeq(s, 1, Len(s) - 1)) = Len(s) - 1
      /\ \A i \in 1..(Len(s) - 1) : SubSeq(s, 1, Len(s) - 1)[i] = s[i]
  BY <1>1, SubSeqProperties
<1> QED
  BY <1>1, <1>2 DEF Front, Last

\* a frame put on top of the others
LEMMA OnTop ==
  ASSUME NEW s \in Seq(Frame), NEW f \in Frame
  PROVE  /\ Append(s, f) \in Seq(Frame) /\ Len(Append(s, f)) = Len(s) + 1
         /\ Append(s, f) # <<>>
         /\ DOMAIN Append(s, f) = 1..(Len(s) + 1) /\ Append(s, f)[Len(s) + 1] = f
         /\ \A i \in 1..Len(s) : Append(s, f)[i] = s[i]
  BY AppendProperties

\* What a step may do to the stack: push a frame, put another for the one on top, or take
\* the top away.
Pushes(f) ==
    /\ DOMAIN stack' = 1..(Len(stack) + 1) /\ Len(stack') = Len(stack) + 1
    /\ stack'[Len(stack) + 1] = f
    /\ \A i \in DOMAIN stack : stack'[i] = stack[i]

Replaces(f) ==
    /\ DOMAIN stack' = DOMAIN stack /\ Len(stack') = Len(stack)
    /\ stack'[Len(stack)] = f
    /\ \A i \in DOMAIN stack : i # Len(stack) => stack'[i] = stack[i]

Pops(n) ==
    /\ Len(stack) >= n
    /\ DOMAIN stack' = 1..(Len(stack) - n) /\ Len(stack') = Len(stack) - n
    /\ \A i \in DOMAIN stack' : stack'[i] = stack[i]

\* what Append and Front do to the stack
LEMMA Pushing ==
  ASSUME Typed, NEW f \in Frame, stack' = Append(stack, f)
  PROVE  Pushes(f) /\ stack' \in Seq(Frame)
  BY OnTop DEF Typed, Pushes

LEMMA Replacing ==
  ASSUME Typed, stack # <<>>, NEW f \in Frame, stack' = Append(Popped, f)
  PROVE  Replaces(f) /\ stack' \in Seq(Frame)
<1>1. stack \in Seq(Frame)
  BY DEF Typed
<1>2. /\ Len(stack) \in Nat \ {0} /\ DOMAIN stack = 1..Len(stack)
      /\ Popped \in Seq(Frame) /\ Len(Popped) = Len(stack) - 1
      /\ \A i \in 1..(Len(stack) - 1) : Popped[i] = stack[i]
  BY <1>1, TopAndBelow DEF Popped
<1>3. /\ stack' \in Seq(Frame) /\ Len(stack') = Len(Popped) + 1
      /\ DOMAIN stack' = 1..(Len(Popped) + 1) /\ stack'[Len(Popped) + 1] = f
      /\ \A i \in 1..Len(Popped) : stack'[i] = Popped[i]
  BY <1>2, OnTop
<1> HIDE DEF Popped
<1>4. Len(Popped) + 1 = Len(stack)
  BY <1>2
<1>5. /\ Len(stack') = Len(stack) /\ DOMAIN stack' = DOMAIN stack
      /\ stack'[Len(stack)] = f
  BY <1>2, <1>3, <1>4
<1>6. \A i \in DOMAIN stack : i # Len(stack) => stack'[i] = stack[i]
  <2> SUFFICES ASSUME NEW i \in 1..Len(stack), i # Len(stack)
               PROVE  stack'[i] = stack[i]
    BY <1>2
  <2>1. \A n \in Nat : \A k \in 1..n : k # n => k \in 1..(n - 1)
    OBVIOUS
  <2>2. i \in 1..(Len(stack) - 1) /\ i \in 1..Len(Popped)
    BY <1>2, <2>1
  <2> QED
    BY <2>2, <1>2, <1>3
<1> QED
  BY <1>3, <1>5, <1>6 DEF Replaces

LEMMA Popping ==
  ASSUME Typed, stack # <<>>, stack' = Popped
  PROVE  Pops(1) /\ stack' \in Seq(Frame)
<1>1. stack \in Seq(Frame)
  BY DEF Typed
<1>2. /\ Len(stack) \in Nat \ {0} /\ DOMAIN stack = 1..Len(stack)
      /\ Popped \in Seq(Frame) /\ Len(Popped) = Len(stack) - 1
      /\ DOMAIN Popped = 1..(Len(stack) - 1)
      /\ \A i \in 1..(Len(stack) - 1) : Popped[i] = stack[i]
  BY <1>1, TopAndBelow DEF Popped
<1> HIDE DEF Popped
<1> QED
  BY <1>2 DEF Pops

LEMMA PoppingTwo ==
  ASSUME Typed, stack # <<>>, Popped # <<>>, stack' = Front(Popped)
  PROVE  /\ Pops(2) /\ stack' \in Seq(Frame)
         /\ Last(Popped) = stack[Len(stack) - 1]
<1>1. Popped \in Seq(Frame)
  BY TopAndBelow DEF Typed, Popped
<1>2. /\ Len(Popped) \in Nat \ {0} /\ Len(Popped) = Len(stack) - 1
      /\ Front(Popped) \in Seq(Frame) /\ DOMAIN Front(Popped) = 1..(Len(Popped) - 1)
      /\ Len(Front(Popped)) = Len(Popped) - 1
      /\ \A i \in 1..(Len(Popped) - 1) : Front(Popped)[i] = Popped[i]
      /\ Last(Popped) = Popped[Len(Popped)]
  BY <1>1, TopAndBelow DEF Typed, Popped
<1>3. \A i \in 1..(Len(stack) - 1) : Popped[i] = stack[i]
  BY TopAndBelow DEF Typed, Popped
<1>4. Len(stack) \in Nat
  BY DEF Typed
<1> HIDE DEF Popped
<1> QED
  BY <1>1, <1>2, <1>3, <1>4 DEF Pops

\* the frame on top and the ones an action puts there
LEMMA TopFrame ==
  ASSUME Typed, stack # <<>>
  PROVE  /\ Len(stack) \in Nat \ {0} /\ DOMAIN stack = 1..Len(stack)
         /\ Top = stack[Len(stack)] /\ Top \in Frame
  BY TopAndBelow DEF Typed, Top

LEMMA Frames1 ==
  ASSUME NEW t \in Targets
  PROVE  /\ Apply(t) \in Frame /\ Applies(Apply(t), t) /\ Apply(t).op = "apply"
         /\ Apply(t).mod = t
         /\ \A v \in BOOLEAN : /\ Exec(t, v) \in Frame /\ Executes(Exec(t, v), t)
                               /\ Exec(t, v).op = "exec" /\ Exec(t, v).mod = t
                               /\ Exec(t, v).via = v /\ Exec(t, v).step = "body"
<1>1. Apply(t) \in ApplyFrame
  BY DEF Apply, ApplyFrame
<1>2. \A v \in BOOLEAN : Exec(t, v) \in ExecFrame
  BY DEF Exec, ExecFrame
<1> QED
  BY <1>1, <1>2 DEF Frame, Apply, Exec, Applies, Executes

\* the fields of a frame
LEMMA FrameFields ==
  ASSUME NEW f \in Frame
  PROVE  /\ f.op \in {"exec", "apply", "install"}
         /\ f.op # "install" => f.mod \in Targets
         /\ f.op = "exec" => f.via \in BOOLEAN /\ f.step \in {"body", "after"}
         /\ f.op = "apply" => f.step \in {"look", "register", "wrap"}
         /\ f.op = "install" => f.todo \in [Targets -> {"next", "applying", "done"}]
  BY DEF Frame, ExecFrame, ApplyFrame, InstallFrame

\* a frame that is not taken away still does what it was to do
LEMMA ComingUnderPush ==
  ASSUME Typed, NEW f, Pushes(f), NEW t \in Targets, Coming(t)
  PROVE  Coming(t)'
<1>1. Len(stack) \in Nat /\ DOMAIN stack = 1..Len(stack)
  BY DEF Typed
<1>2. PICK i \in DOMAIN stack :
        \/ Serves(stack[i], t)
        \/ Executes(stack[i], t) /\ stack[i].via /\ i # Len(stack)
  BY DEF Coming
<1>3. i \in DOMAIN stack' /\ i # Len(stack') /\ stack'[i] = stack[i]
  BY <1>1 DEF Pushes
<1> QED
  BY <1>2, <1>3 DEF Coming

\* the same if the frame on top is changed, unless it was the one
LEMMA ComingUnderReplace ==
  ASSUME Typed, stack # <<>>, NEW f, Replaces(f), NEW t \in Targets, Coming(t),
         Serves(stack[Len(stack)], t) => Serves(f, t)
  PROVE  Coming(t)'
<1>1. Len(stack) \in DOMAIN stack
  BY TopFrame
<1>2. PICK i \in DOMAIN stack :
        \/ Serves(stack[i], t)
        \/ Executes(stack[i], t) /\ stack[i].via /\ i # Len(stack)
  BY DEF Coming
<1>3. CASE i # Len(stack)
  <2>1. i \in DOMAIN stack' /\ i # Len(stack') /\ stack'[i] = stack[i]
    BY <1>3 DEF Replaces
  <2> QED
    BY <1>2, <2>1 DEF Coming
<1>4. CASE i = Len(stack)
  <2>1. Len(stack') \in DOMAIN stack' /\ stack'[Len(stack')] = f
    BY <1>1 DEF Replaces
  <2> QED
    BY <1>2, <1>4, <2>1 DEF Coming
<1> QED
  BY <1>3, <1>4

\* the same if frames are taken away that had nothing to do for t, and the frame below
\* them is not one whose module's body has ended
LEMMA ComingUnderPop ==
  ASSUME Typed, NEW n \in {1, 2}, Pops(n), NEW t \in Targets, Coming(t),
         \A i \in DOMAIN stack : i > Len(stack) - n =>
             /\ ~Serves(stack[i], t)
             /\ i = Len(stack) \/ ~Executes(stack[i], t),
         ~ (/\ Len(stack) > n
            /\ Executes(stack[Len(stack) - n], t)
            /\ stack[Len(stack) - n].step = "after")
  PROVE  Coming(t)'
<1>1. Len(stack) \in Nat /\ DOMAIN stack = 1..Len(stack) /\ Len(stack) >= n
  BY DEF Typed, Pops
<1>2. PICK i \in DOMAIN stack :
        \/ Serves(stack[i], t)
        \/ Executes(stack[i], t) /\ stack[i].via /\ i # Len(stack)
  BY DEF Coming
<1>3. ~ (i > Len(stack) - n)
  BY <1>2
<1>4. i \in DOMAIN stack' /\ stack'[i] = stack[i]
  BY <1>1, <1>3 DEF Pops
<1>5. CASE Serves(stack[i], t)
  BY <1>4, <1>5 DEF Coming
<1>6. CASE Executes(stack[i], t) /\ stack[i].via
  <2>1. stack[i].step \in {"body", "after"}
    BY <1>6, FrameFields DEF Typed, Executes
  <2>2. i = Len(stack') => i = Len(stack) - n /\ Len(stack) > n
    BY <1>1 DEF Pops
  <2>3. stack[i].step = "body" \/ i # Len(stack')
    BY <1>6, <2>1, <2>2
  <2> QED
    BY <1>4, <1>6, <2>3 DEF Coming, Serves
<1> QED
  BY <1>2, <1>5, <1>6

LEMMA Frames2 ==
  ASSUME NEW todo \in [Targets -> {"next", "applying", "done"}]
  PROVE  Install(todo) \in Frame /\ Install(todo).op = "install" /\ Install(todo).todo = todo
<1>1. Install(todo) \in InstallFrame
  BY DEF Install, InstallFrame
<1> QED
  BY <1>1 DEF Frame, Install

\* the frame below the one on top
LEMMA BelowTop ==
  ASSUME Typed, stack # <<>>
  PROVE  /\ Popped # <<>> <=> Len(stack) > 1
         /\ Popped # <<>> => Last(Popped) = stack[Len(stack) - 1]
<1>1. stack \in Seq(Frame)
  BY DEF Typed
<1>2. /\ Len(stack) \in Nat \ {0}
      /\ Popped \in Seq(Frame) /\ Len(Popped) = Len(stack) - 1
      /\ \A i \in 1..(Len(stack) - 1) : Popped[i] = stack[i]
  BY <1>1, TopAndBelow DEF Popped
<1>3. Popped = <<>> <=> Len(Popped) = 0
  BY <1>2, EmptySeq
<1>4. Popped # <<>> => Last(Popped) = Popped[Len(Popped)]
  BY DEF Last
<1>5. Popped # <<>> <=> Len(stack) > 1
  BY <1>2, <1>3
<1> QED
  BY <1>2, <1>4, <1>5

\* the frame on top changed and another put upon it
ReplacesAndPushes(f, g) ==
    /\ DOMAIN stack' = 1..(Len(stack) + 1) /\ Len(stack') = Len(stack) + 1
    /\ stack'[Len(stack)] = f /\ stack'[Len(stack) + 1] = g
    /\ \A i \in DOMAIN stack : i # Len(stack) => stack'[i] = stack[i]

LEMMA ReplacingAndPushing ==
  ASSUME Typed, stack # <<>>, NEW f \in Frame, NEW g \in Frame,
         stack' = Append(Append(Popped, f), g)
  PROVE  ReplacesAndPushes(f, g) /\ stack' \in Seq(Frame)
<1> DEFINE n == Len(stack)
           changed == Append(Popped, f)
<1>1. stack \in Seq(Frame)
  BY DEF Typed
<1>2. /\ n \in Nat \ {0} /\ DOMAIN stack = 1..n
      /\ Popped \in Seq(Frame) /\ Len(Popped) = n - 1
      /\ \A i \in 1..(n - 1) : Popped[i] = stack[i]
  BY <1>1, TopAndBelow DEF Popped
<1>3. /\ changed \in Seq(Frame) /\ Len(changed) = Len(Popped) + 1
      /\ changed[Len(Popped) + 1] = f
      /\ \A i \in 1..Len(Popped) : changed[i] = Popped[i]
  BY <1>2, OnTop
<1> HIDE DEF changed
<1>4. /\ stack' \in Seq(Frame) /\ Len(stack') = Len(changed) + 1
      /\ DOMAIN stack' = 1..(Len(changed) + 1) /\ stack'[Len(changed) + 1] = g
      /\ \A i \in 1..Len(changed) : stack'[i] = changed[i]
  <2>1. stack' = Append(changed, g)
    BY DEF changed
  <2> QED
    BY <1>3, <2>1, OnTop
<1>5. Len(Popped) + 1 = n /\ Len(changed) = n
  BY <1>2, <1>3
<1> HIDE DEF n
<1>6. /\ Len(stack') = n + 1 /\ DOMAIN stack' = 1..(n + 1)
      /\ stack'[n] = f /\ stack'[n + 1] = g
  BY <1>2, <1>3, <1>4, <1>5
<1>7. \A i \in 1..n : i # n => stack'[i] = stack[i]
  <2>1. \A k \in 1..n : k # n => k \in 1..(n - 1)
    BY <1>2
  <2>2. \A k \in 1..(n - 1) : k \in 1..Len(Popped) /\ k \in 1..Len(changed)
    BY <1>2, <1>5
  <2> QED
    BY <2>1, <2>2, <1>2, <1>3, <1>4
<1> QED
  BY <1>2, <1>4, <1>6, <1>7 DEF ReplacesAndPushes, n

\* an entry of install_defer_hooks' list ticked off, or a step of _apply or of a module
LEMMA Changed ==
  ASSUME NEW f \in Frame
  PROVE  /\ f.op = "exec" =>
              LET g == [f EXCEPT !.step = "after"] IN
              /\ g \in Frame /\ g.op = "exec" /\ g.mod = f.mod /\ g.via = f.via
              /\ g.step = "after"
         /\ f.op = "apply" => \A s \in {"register", "wrap"} :
              LET g == [f EXCEPT !.step = s] IN
              g \in Frame /\ g.op = "apply" /\ g.mod = f.mod
         /\ f.op = "install" => \A t \in Targets, s \in {"applying", "done"} :
              LET g == [f EXCEPT !.todo[t] = s] IN
              /\ g \in Frame /\ g.op = "install"
              /\ \A u \in Targets : g.todo[u] = IF u = t THEN s ELSE f.todo[u]
<1>1. CASE f \in ExecFrame
  <2>1. [f EXCEPT !.step = "after"] \in ExecFrame
    BY <1>1 DEF ExecFrame
  <2> QED
    BY <1>1, <2>1 DEF ExecFrame, Frame
<1>2. CASE f \in ApplyFrame
  <2>1. \A s \in {"register", "wrap"} : [f EXCEPT !.step = s] \in ApplyFrame
    BY <1>2 DEF ApplyFrame
  <2> QED
    BY <1>2, <2>1 DEF ApplyFrame, Frame
<1>3. CASE f \in InstallFrame
  <2>1. ASSUME NEW t \in Targets, NEW s \in {"applying", "done"}
        PROVE  [f EXCEPT !.todo[t] = s] \in InstallFrame
    BY <1>3 DEF InstallFrame
  <2> QED
    BY <1>3, <2>1 DEF InstallFrame, Frame
<1> QED
  BY <1>1, <1>2, <1>3 DEF Frame

\* a frame that is changed and has another put upon it
LEMMA ComingUnderBoth ==
  ASSUME Typed, stack # <<>>, NEW f, NEW g, ReplacesAndPushes(f, g), NEW t \in Targets,
         \/ Serves(f, t)
         \/ Executes(f, t) /\ f.via
         \/ Coming(t) /\ ~Serves(stack[Len(stack)], t)
  PROVE  Coming(t)'
<1>1. Len(stack) \in Nat \ {0} /\ DOMAIN stack = 1..Len(stack)
  BY TopFrame
<1>2. CASE Serves(f, t) \/ (Executes(f, t) /\ f.via)
  <2>0. \A n \in Nat \ {0} : n \in 1..(n + 1) /\ n # n + 1
    OBVIOUS
  <2>1. /\ Len(stack) \in DOMAIN stack' /\ Len(stack) # Len(stack')
        /\ stack'[Len(stack)] = f
    BY <2>0, <1>1, Zenon DEF ReplacesAndPushes
  <2> QED
    BY <1>2, <2>1 DEF Coming
<1>3. CASE Coming(t) /\ ~Serves(stack[Len(stack)], t)
  <2>1. PICK i \in DOMAIN stack :
          \/ Serves(stack[i], t)
          \/ Executes(stack[i], t) /\ stack[i].via /\ i # Len(stack)
    BY <1>3 DEF Coming
  <2>2. i # Len(stack)
    BY <1>3, <2>1
  <2>3. i \in DOMAIN stack' /\ i # Len(stack') /\ stack'[i] = stack[i]
    BY <1>1, <2>2 DEF ReplacesAndPushes
  <2> QED
    BY <2>1, <2>3 DEF Coming
<1> QED
  BY <1>2, <1>3

\* two frames less: the one below the top is gone as well
LEMMA TwoFewer ==
  ASSUME Typed, stack # <<>>, Pops(2)
  PROVE  \E b \in DOMAIN stack :
           /\ b = Len(stack) - 1 /\ b + 1 = Len(stack) /\ b # Len(stack) /\ Len(stack) > 1
           /\ \A i \in DOMAIN stack : i \in DOMAIN stack' \/ i = b \/ i = Len(stack)
           /\ \A i \in DOMAIN stack' :
                i \in DOMAIN stack /\ i # b /\ i # Len(stack) /\ stack'[i] = stack[i]
<1> DEFINE n == Len(stack)
<1>1. /\ n \in Nat \ {0} /\ DOMAIN stack = 1..n /\ n >= 2 /\ Len(stack') = n - 2
      /\ DOMAIN stack' = 1..(n - 2) /\ \A i \in DOMAIN stack' : stack'[i] = stack[i]
  BY TopFrame DEF Pops
<1>2. \A k \in Nat : k >= 2 =>
        /\ k - 1 \in 1..k /\ (k - 1) + 1 = k /\ k - 1 # k /\ k > 1
        /\ \A i \in 1..k : i \in 1..(k - 2) \/ i = k - 1 \/ i = k
        /\ \A i \in 1..(k - 2) : i \in 1..k /\ i # k - 1 /\ i # k
  OBVIOUS
<1> HIDE DEF n
<1>3. /\ n - 1 \in DOMAIN stack /\ (n - 1) + 1 = n /\ n - 1 # n /\ n > 1
      /\ \A i \in DOMAIN stack : i \in DOMAIN stack' \/ i = n - 1 \/ i = n
      /\ \A i \in DOMAIN stack' :
           i \in DOMAIN stack /\ i # n - 1 /\ i # n /\ stack'[i] = stack[i]
  BY <1>1, <1>2
<1> QED
  BY <1>3 DEF n

\* a loader wrapper that is still there is still in its _apply
LEMMA LoaderUnderPop ==
  ASSUME Typed, LoaderInv, NEW n \in {1, 2}, Pops(n)
  PROVE  LoaderInv'
<1>1. Len(stack) \in Nat /\ DOMAIN stack = 1..Len(stack) /\ Len(stack) >= n
  BY DEF Typed, Pops
<1> SUFFICES ASSUME NEW i \in DOMAIN stack', i # Len(stack'),
                    stack'[i].op = "exec", stack'[i].step = "after"
             PROVE  Applies(stack'[i + 1], stack'[i].mod)
  BY DEF LoaderInv
<1>2. /\ i \in DOMAIN stack /\ i # Len(stack)
      /\ i + 1 \in DOMAIN stack'
  BY <1>1 DEF Pops
<1>3. stack'[i] = stack[i] /\ stack'[i + 1] = stack[i + 1]
  BY <1>2 DEF Pops
<1> QED
  BY <1>2, <1>3 DEF LoaderInv

\* the same for ComingUnderPop if both frames had nothing to do for t
LEMMA ComingUnderPopTwo ==
  ASSUME Typed, LoaderInv, stack # <<>>, Pops(2), NEW t \in Targets, Coming(t),
         NEW b, NEW n, b = Len(stack) - 1, n = Len(stack),
         ~Serves(stack[b], t), ~Executes(stack[b], t), ~Applies(stack[b], t),
         ~Serves(stack[n], t)
  PROVE  Coming(t)'
<1>1. Len(stack) \in Nat /\ DOMAIN stack = 1..Len(stack) /\ Len(stack) >= 2
  BY DEF Typed, Pops
<1>2. \A k \in Nat : \A i \in 1..k : k >= 2 /\ i > k - 2 => i = k - 1 \/ i = k
  OBVIOUS
<1>3. \A i \in DOMAIN stack : i > Len(stack) - 2 => i = Len(stack) - 1 \/ i = Len(stack)
  BY <1>1, <1>2
<1>4. \A i \in DOMAIN stack : i > Len(stack) - 2 =>
          /\ ~Serves(stack[i], t)
          /\ i = Len(stack) \/ ~Executes(stack[i], t)
  BY <1>3
<1>5. ~ (/\ Len(stack) > 2
         /\ Executes(stack[Len(stack) - 2], t)
         /\ stack[Len(stack) - 2].step = "after")
  <2>1. SUFFICES ASSUME Len(stack) > 2, Executes(stack[Len(stack) - 2], t),
                        stack[Len(stack) - 2].step = "after"
                 PROVE  FALSE
    OBVIOUS
  <2>2. /\ Len(stack) - 2 \in DOMAIN stack /\ Len(stack) - 2 # Len(stack)
        /\ (Len(stack) - 2) + 1 = Len(stack) - 1
    <3>1. \A k \in Nat : k > 2 => k - 2 \in 1..k /\ k - 2 # k /\ (k - 2) + 1 = k - 1
      OBVIOUS
    <3> QED
      BY <1>1, <2>1, <3>1
  <2> DEFINE a == Len(stack) - 2
  <2>3. /\ a \in DOMAIN stack /\ a # Len(stack) /\ a + 1 = b
        /\ Executes(stack[a], t) /\ stack[a].step = "after" /\ ~Applies(stack[b], t)
    BY <2>1, <2>2
  <2> HIDE DEF a
  <2> QED
    BY <2>3 DEF LoaderInv, Executes
<1> QED
  BY <1>4, <1>5, ComingUnderPop

\* the frames left when two are popped, without arithmetic
Remains(b, n) ==
    /\ b \in DOMAIN stack /\ n \in DOMAIN stack /\ b # n
    /\ \A i \in DOMAIN stack : i \in DOMAIN stack' \/ i = b \/ i = n
    /\ \A i \in DOMAIN stack' :
         i \in DOMAIN stack /\ i # b /\ i # n /\ stack'[i] = stack[i]

LEMMA TwoRemain ==
  ASSUME Typed, stack # <<>>, Pops(2)
  PROVE  Remains(Len(stack) - 1, Len(stack)) /\ Len(stack) > 1
<1>1. PICK b \in DOMAIN stack :
        /\ b = Len(stack) - 1 /\ b + 1 = Len(stack) /\ b # Len(stack) /\ Len(stack) > 1
        /\ \A i \in DOMAIN stack : i \in DOMAIN stack' \/ i = b \/ i = Len(stack)
        /\ \A i \in DOMAIN stack' :
             i \in DOMAIN stack /\ i # b /\ i # Len(stack) /\ stack'[i] = stack[i]
  BY TwoFewer
<1>2. Len(stack) \in DOMAIN stack
  BY TopFrame
<1>3. Remains(b, Len(stack))
  BY <1>1, <1>2 DEF Remains
<1> QED
  BY <1>1, <1>3

-----------------------------------------------------------------------------
(* the steps: Hermes code, install_defer_hooks and _apply *)

\* a module's body defines a name
LEMMA DefineKeeps ==
  ASSUME HooksInv, NEW t \in Targets, NEW a \in Defines[t], Define(t, a)
  PROVE  HooksInv'
<1> USE DEF Executes, Applies, Holds
<1>1. /\ mod[t] = "executing" /\ attrs' = [attrs EXCEPT ![t] = @ \union {a}]
      /\ UNCHANGED <<mod, hooked, pending, busy, wrapped, guarded, finder, installed,
                     alias, stack, excused>>
  <2>1. stack # <<>> /\ Executes(Top, t) /\ attrs' = [attrs EXCEPT ![t] = @ \union {a}]
        /\ UNCHANGED <<mod, hooked, pending, busy, wrapped, guarded, finder, installed,
                       alias, stack, excused>>
    BY DEF Define, AtStep, IsTop, hookVars
  <2>2. Top = stack[Len(stack)] /\ Len(stack) \in DOMAIN stack
    BY <2>1, TopFrame DEF HooksInv
  <2> QED
    BY <2>1, <2>2 DEF HooksInv, ExecInv
<1>2. Typed'
  BY <1>1 DEF HooksInv, Typed, Names, Defines, Required, Targets
<1>3. Single'
  BY <1>1 DEF HooksInv, Single
<1>4. BusyInv'
  BY <1>1 DEF HooksInv, Single, BusyInv
<1>5. ExecInv'
  BY <1>1 DEF HooksInv, Single, ExecInv
<1>6. HeldInv'
  BY <1>1 DEF HooksInv, ExecInv, HeldInv
<1>7. LoaderInv'
  BY <1>1 DEF HooksInv, LoaderInv
<1>8. BeforeInv'
  BY <1>1 DEF HooksInv, BeforeInv
<1>9. HookInv'
  BY <1>1 DEF HooksInv, HookInv, BeforeInv, HeldInv
<1>10. ReachInv'
  BY <1>1 DEF HooksInv, ReachInv, HookInv, Coming
<1>11. MainUsesWrapper'
  BY <1>1 DEF HooksInv, MainUsesWrapper
<1> QED
  BY <1>2, <1>3, <1>4, <1>5, <1>6, <1>7, <1>8, <1>9, <1>10, <1>11 DEF HooksInv

\* hermes_cli.main copies the function: the wrapper, if there is one to copy
LEMMA ImportFlowKeeps ==
  ASSUME HooksInv, ImportFlowIntoMain
  PROVE  HooksInv'
<1> USE DEF Executes, Applies, Holds
<1>1. /\ alias' = IF "flows" \in hooked THEN "wrapper" ELSE "original"
      /\ UNCHANGED <<mod, attrs, hooked, pending, busy, wrapped, guarded, finder, installed,
                     stack, excused>>
  BY DEF ImportFlowIntoMain, moduleVars, hookVars
<1>2. Typed'
  BY <1>1 DEF HooksInv, Typed
<1>3. Single'
  BY <1>1 DEF HooksInv, Single
<1>4. BusyInv'
  BY <1>1 DEF HooksInv, Single, BusyInv
<1>5. ExecInv'
  BY <1>1 DEF HooksInv, Single, ExecInv
<1>6. HeldInv'
  BY <1>1 DEF HooksInv, ExecInv, HeldInv
<1>7. LoaderInv'
  BY <1>1 DEF HooksInv, LoaderInv
<1>8. BeforeInv'
  BY <1>1 DEF HooksInv, BeforeInv
<1>9. HookInv'
  BY <1>1 DEF HooksInv, HookInv, BeforeInv, HeldInv
<1>10. ReachInv'
  BY <1>1 DEF HooksInv, ReachInv, HookInv, Coming
<1>11. MainUsesWrapper'
  BY <1>1 DEF HooksInv, MainUsesWrapper
<1> QED
  BY <1>2, <1>3, <1>4, <1>5, <1>6, <1>7, <1>8, <1>9, <1>10, <1>11 DEF HooksInv

\* a module is pushed to be executed; a pending one is served by its loader
LEMMA ImportKeeps ==
  ASSUME HooksInv, NEW t \in Targets, Import(t)
  PROVE  HooksInv'
<1> USE DEF Executes, Applies, Holds
<1>1. /\ mod[t] = "absent" /\ mod' = [mod EXCEPT ![t] = "executing"]
      /\ stack' = Append(stack, Exec(t, finder /\ t \in pending))
      /\ UNCHANGED <<attrs, hooked, pending, busy, wrapped, guarded, finder, installed,
                     alias, excused>>
  BY DEF Import, hookVars
<1>2. PICK f : /\ f = Exec(t, finder /\ t \in pending)
               /\ f.op = "exec" /\ f.mod = t /\ f.via = (finder /\ t \in pending)
               /\ f.step = "body" /\ f \in Frame
  BY Frames1 DEF HooksInv, Typed
<1>3. Pushes(f) /\ stack' \in Seq(Frame)
  BY <1>1, <1>2, Pushing DEF HooksInv
<1>4. stack # <<>> => /\ Top = stack[Len(stack)]
                      /\ ~(Top.op = "exec" /\ Top.step = "after") /\ Top.op # "install"
  BY TopFrame DEF HooksInv, Import, HermesRuns
<1>5. Typed'
  BY <1>1, <1>3 DEF HooksInv, Typed
<1>6. Single'
  BY <1>1, <1>2 DEF HooksInv, Single, Pushes, ExecInv
<1>7. BusyInv'
  BY <1>1, <1>2 DEF HooksInv, Single, BusyInv, Pushes
<1>8. ExecInv'
  BY <1>1, <1>2 DEF HooksInv, Single, ExecInv, Pushes, HeldInv, Typed
<1>9. HeldInv'
  BY <1>1, <1>2 DEF HooksInv, ExecInv, HeldInv, Pushes, Typed
<1>10. LoaderInv'
  BY <1>3, <1>4 DEF HooksInv, LoaderInv, Pushes
<1>11. BeforeInv'
  <2>1. ~installed => ~f.via
    BY <1>2 DEF HooksInv, HookInv
  <2> QED
    BY <1>1, <1>2, <2>1 DEF HooksInv, BeforeInv, Pushes
<1>12. HookInv'
  BY <1>1 DEF HooksInv, HookInv, BeforeInv, HeldInv, Typed
<1>13. ReachInv'
  <2> SUFFICES ASSUME installed, NEW u \in pending \ excused, mod'[u] # "absent"
               PROVE  u \in guarded \/ Coming(u)'
    BY <1>1 DEF ReachInv
  <2>1. CASE u = t
    <3>1. f.via
      BY <1>2, <2>1 DEF HooksInv, HookInv
    <3> QED
      BY <1>2, <1>3, <2>1, <3>1 DEF Coming, Serves, Pushes
  <2>2. CASE u # t
    <3>1. mod[u] # "absent" /\ u \in Targets
      BY <1>1, <2>2 DEF HooksInv, Typed, HookInv
    <3> QED
      BY <1>3, <3>1, ComingUnderPush DEF HooksInv, ReachInv
  <2> QED
    BY <2>1, <2>2
<1>14. MainUsesWrapper'
  BY <1>1 DEF HooksInv, MainUsesWrapper
<1> QED
  BY <1>5, <1>6, <1>7, <1>8, <1>9, <1>10, <1>11, <1>12, <1>13, <1>14 DEF HooksInv

\* PendingModule.__getattribute__ calls _apply for a target that is not busy
LEMMA ReadAttributeKeeps ==
  ASSUME HooksInv, NEW t \in Targets, ReadAttribute(t)
  PROVE  HooksInv'
<1> USE DEF Executes, Applies, Holds
<1>1. /\ t \in guarded /\ t \notin busy /\ mod[t] # "absent"
      /\ busy' = busy \union {t} /\ stack' = Append(stack, Apply(t))
      /\ UNCHANGED <<mod, attrs, hooked, pending, wrapped, guarded, finder, installed,
                     alias, excused>>
  BY DEF ReadAttribute, Applicable, moduleVars, HooksInv, HookInv
<1>2. PICK f : f = Apply(t) /\ f.op = "apply" /\ f.mod = t /\ f \in Frame
  BY Frames1
<1>3. Pushes(f) /\ stack' \in Seq(Frame)
  BY <1>1, <1>2, Pushing DEF HooksInv
<1>4. stack # <<>> => /\ Top = stack[Len(stack)]
                      /\ ~(Top.op = "exec" /\ Top.step = "after") /\ Top.op # "install"
  BY TopFrame DEF HooksInv, ReadAttribute, HermesRuns
<1>5. Typed'
  BY <1>1, <1>3 DEF HooksInv, Typed
<1>6. Single'
  BY <1>1, <1>2 DEF HooksInv, Single, Pushes, BusyInv
<1>7. BusyInv'
  BY <1>1, <1>2 DEF HooksInv, Single, BusyInv, Pushes
<1>8. ExecInv'
  BY <1>1, <1>2 DEF HooksInv, Single, ExecInv, Pushes
<1>9. HeldInv'
  BY <1>1, <1>2 DEF HooksInv, ExecInv, HeldInv, Pushes
<1>10. LoaderInv'
  BY <1>3, <1>4 DEF HooksInv, LoaderInv, Pushes
<1>11. BeforeInv'
  BY <1>1 DEF HooksInv, BeforeInv, Pushes
<1>12. HookInv'
  BY <1>1 DEF HooksInv, HookInv, BeforeInv, HeldInv
<1>13. ReachInv'
  <2> SUFFICES ASSUME installed, NEW u \in pending \ excused, mod[u] # "absent"
               PROVE  u \in guarded \/ Coming(u)'
    BY <1>1 DEF ReachInv
  <2> QED
    BY <1>3, ComingUnderPush DEF HooksInv, ReachInv, HookInv
<1>14. MainUsesWrapper'
  BY <1>1 DEF HooksInv, MainUsesWrapper
<1> QED
  BY <1>5, <1>6, <1>7, <1>8, <1>9, <1>10, <1>11, <1>12, <1>13, <1>14 DEF HooksInv

\* install_defer_hooks starts, with every target to do: nothing was hooked before
LEMMA LoadPluginKeeps ==
  ASSUME HooksInv, LoadPlugin
  PROVE  HooksInv'
<1> USE DEF Executes, Applies, Holds
<1>1. /\ ~installed /\ pending = Targets
      /\ installed' = TRUE /\ finder' = TRUE
      /\ stack' = Append(stack, Install([t \in Targets |-> "next"]))
      /\ UNCHANGED <<mod, attrs, hooked, pending, busy, wrapped, guarded, alias, excused>>
  BY DEF LoadPlugin, moduleVars, HooksInv, HookInv, BeforeInv
<1>2. PICK f : /\ f = Install([t \in Targets |-> "next"]) /\ f.op = "install" /\ f \in Frame
               /\ \A t \in Targets : f.todo[t] = "next"
  <2> DEFINE todo == [t \in Targets |-> "next"]
  <2>1. todo \in [Targets -> {"next", "applying", "done"}]
    OBVIOUS
  <2>2. /\ Install(todo) \in Frame /\ Install(todo).op = "install"
        /\ Install(todo).todo = todo
    BY Frames2
  <2>3. \A t \in Targets : Install(todo).todo[t] = "next"
    BY <2>2
  <2> QED
    BY <2>2
<1>3. Pushes(f) /\ stack' \in Seq(Frame)
  BY <1>1, <1>2, Pushing DEF HooksInv
<1>4. stack # <<>> => /\ Top = stack[Len(stack)]
                      /\ ~(Top.op = "exec" /\ Top.step = "after") /\ Top.op # "install"
  BY TopFrame DEF HooksInv, LoadPlugin, HermesRuns
<1>5. Typed'
  BY <1>1, <1>3 DEF HooksInv, Typed
<1>6. Single'
  BY <1>1, <1>2 DEF HooksInv, Single, Pushes, BeforeInv
<1>7. BusyInv'
  BY <1>1, <1>2 DEF HooksInv, Single, BusyInv, Pushes
<1>8. ExecInv'
  BY <1>1, <1>2 DEF HooksInv, Single, ExecInv, Pushes
<1>9. HeldInv'
  BY <1>1, <1>2 DEF HooksInv, ExecInv, HeldInv, Pushes
<1>10. LoaderInv'
  BY <1>3, <1>4 DEF HooksInv, LoaderInv, Pushes
<1>11. BeforeInv'
  BY <1>1 DEF HooksInv, BeforeInv, Pushes
<1>12. HookInv'
  BY <1>1 DEF HooksInv, HookInv, BeforeInv, HeldInv, Targets
<1>13. ReachInv'
  BY <1>1, <1>2 DEF ReachInv, Coming, Serves, Pushes
<1>14. MainUsesWrapper'
  BY <1>1 DEF HooksInv, MainUsesWrapper
<1> QED
  BY <1>5, <1>6, <1>7, <1>8, <1>9, <1>10, <1>11, <1>12, <1>13, <1>14 DEF HooksInv

\* _apply, a step further
LEMMA LookedUpKeeps ==
  ASSUME HooksInv, NEW t \in Targets, LookedUp(t)
  PROVE  HooksInv'
<1> USE DEF Executes, Applies, Holds
<1>1. /\ stack # <<>> /\ Top.op = "apply" /\ Top.mod = t
      /\ UNCHANGED <<mod, attrs, hooked, pending, busy, wrapped, guarded, finder, installed,
                     alias, excused>>
  BY DEF LookedUp, AtStep, IsTop, moduleVars, hookVars
<1>2. /\ Len(stack) \in Nat \ {0} /\ DOMAIN stack = 1..Len(stack)
      /\ Top = stack[Len(stack)] /\ Top \in Frame
  BY <1>1, TopFrame DEF HooksInv
<1>3. PICK f \in Frame : /\ f.op = "apply" /\ f.mod = t
                        /\ stack' = Append(Popped, f)
  BY <1>1, <1>2, Changed DEF LookedUp
<1>4. Replaces(f) /\ stack' \in Seq(Frame)
  BY <1>1, <1>3, Replacing DEF HooksInv
<1>5. /\ DOMAIN stack' = DOMAIN stack /\ Len(stack') = Len(stack)
      /\ \A i \in DOMAIN stack :
            /\ stack'[i].op = stack[i].op /\ stack'[i].mod = stack[i].mod
            /\ stack[i].op # "apply" => stack'[i] = stack[i]
  BY <1>1, <1>2, <1>3, <1>4 DEF Replaces
<1>6. Typed'
  BY <1>1, <1>4 DEF HooksInv, Typed
<1>7. Single'
  BY <1>5 DEF HooksInv, Single
<1>8. BusyInv'
  BY <1>1, <1>5 DEF HooksInv, Single, BusyInv
<1>9. ExecInv'
  BY <1>1, <1>5 DEF HooksInv, Single, ExecInv
<1>10. HeldInv'
  BY <1>1, <1>5 DEF HooksInv, ExecInv, HeldInv
<1>11. LoaderInv'
  BY <1>5 DEF HooksInv, LoaderInv
<1>12. BeforeInv'
  BY <1>1, <1>5 DEF HooksInv, BeforeInv
<1>13. HookInv'
  BY <1>1 DEF HooksInv, HookInv, BeforeInv, HeldInv
<1>14. ReachInv'
  <2> SUFFICES ASSUME installed, NEW u \in pending \ excused, mod[u] # "absent"
               PROVE  u \in guarded \/ Coming(u)'
    BY <1>1 DEF ReachInv
  <2>1. u \in Targets /\ ~Serves(stack[Len(stack)], u)
    BY <1>1, <1>2 DEF HooksInv, HookInv, Serves
  <2> QED
    BY <1>1, <1>4, <2>1, ComingUnderReplace DEF HooksInv, ReachInv
<1>15. MainUsesWrapper'
  BY <1>1 DEF HooksInv, MainUsesWrapper
<1> QED
  BY <1>6, <1>7, <1>8, <1>9, <1>10, <1>11, <1>12, <1>13, <1>14, <1>15 DEF HooksInv

LEMMA RegisterKeeps ==
  ASSUME HooksInv, Register
  PROVE  HooksInv'
<1> USE DEF Executes, Applies, Holds
<1>1. /\ stack # <<>> /\ Top.op = "apply" /\ Top.mod = "auth"
      /\ UNCHANGED <<mod, attrs, hooked, pending, busy, wrapped, guarded, finder, installed,
                     alias, excused>>
  BY DEF Register, AtStep, IsTop, moduleVars, hookVars
<1>2. /\ Len(stack) \in Nat \ {0} /\ DOMAIN stack = 1..Len(stack)
      /\ Top = stack[Len(stack)] /\ Top \in Frame
  BY <1>1, TopFrame DEF HooksInv
<1>3. PICK f \in Frame : /\ f.op = "apply" /\ f.mod = "auth"
                        /\ stack' = Append(Popped, f)
  BY <1>1, <1>2, Changed DEF Register
<1>4. Replaces(f) /\ stack' \in Seq(Frame)
  BY <1>1, <1>3, Replacing DEF HooksInv
<1>5. /\ DOMAIN stack' = DOMAIN stack /\ Len(stack') = Len(stack)
      /\ \A i \in DOMAIN stack :
            /\ stack'[i].op = stack[i].op /\ stack'[i].mod = stack[i].mod
            /\ stack[i].op # "apply" => stack'[i] = stack[i]
  BY <1>1, <1>2, <1>3, <1>4 DEF Replaces
<1>6. Typed'
  BY <1>1, <1>4 DEF HooksInv, Typed
<1>7. Single'
  BY <1>5 DEF HooksInv, Single
<1>8. BusyInv'
  BY <1>1, <1>5 DEF HooksInv, Single, BusyInv
<1>9. ExecInv'
  BY <1>1, <1>5 DEF HooksInv, Single, ExecInv
<1>10. HeldInv'
  BY <1>1, <1>5 DEF HooksInv, ExecInv, HeldInv
<1>11. LoaderInv'
  BY <1>5 DEF HooksInv, LoaderInv
<1>12. BeforeInv'
  BY <1>1, <1>5 DEF HooksInv, BeforeInv
<1>13. HookInv'
  BY <1>1 DEF HooksInv, HookInv, BeforeInv, HeldInv
<1>14. ReachInv'
  <2> SUFFICES ASSUME installed, NEW u \in pending \ excused, mod[u] # "absent"
               PROVE  u \in guarded \/ Coming(u)'
    BY <1>1 DEF ReachInv
  <2>1. u \in Targets /\ ~Serves(stack[Len(stack)], u)
    BY <1>1, <1>2 DEF HooksInv, HookInv, Serves
  <2> QED
    BY <1>1, <1>4, <2>1, ComingUnderReplace DEF HooksInv, ReachInv
<1>15. MainUsesWrapper'
  BY <1>1 DEF HooksInv, MainUsesWrapper
<1> QED
  BY <1>6, <1>7, <1>8, <1>9, <1>10, <1>11, <1>12, <1>13, <1>14, <1>15 DEF HooksInv

\* _apply has installed the wrapper: the hook is no longer pending
LEMMA ApplyOkKeeps ==
  ASSUME HooksInv, NEW t \in Targets, ApplyOk(t)
  PROVE  HooksInv'
<1> USE DEF Executes, Applies, Holds
<1>1. /\ stack # <<>> /\ Top.op = "apply" /\ Top.mod = t /\ stack' = Popped
      /\ IF t \in wrapped THEN UNCHANGED <<hooked, alias>>
         ELSE hooked' = hooked \union {t} /\ alias' = PatchedAlias(t)
      /\ wrapped' = wrapped \union {t}
      /\ pending' = pending \ {t} /\ busy' = busy \ {t} /\ guarded' = guarded \ {t}
      /\ finder' = (finder /\ pending # {t})
      /\ UNCHANGED <<mod, attrs, installed, excused>>
  BY DEF ApplyOk, Finish, AtStep, IsTop
<1>2. /\ Len(stack) \in Nat \ {0} /\ DOMAIN stack = 1..Len(stack)
      /\ Top = stack[Len(stack)] /\ Top \in Frame
  BY <1>1, TopFrame DEF HooksInv
<1>3. Pops(1) /\ stack' \in Seq(Frame)
  BY <1>1, Popping DEF HooksInv
<1>4. mod[t] # "absent"
  BY <1>1, <1>2 DEF HooksInv, HeldInv
<1>5. Typed'
  BY <1>1, <1>3 DEF HooksInv, Typed, PatchedAlias
<1>6. Single'
  BY <1>3 DEF HooksInv, Single, Pops
<1>7. BusyInv'
  BY <1>1, <1>2, <1>3 DEF HooksInv, Single, BusyInv, Pops
<1>8. ExecInv'
  BY <1>1, <1>3 DEF HooksInv, Single, ExecInv, Pops
<1>9. HeldInv'
  BY <1>1, <1>3 DEF HooksInv, ExecInv, HeldInv, Pops
<1>10. LoaderInv'
  BY <1>3 DEF HooksInv, LoaderInv, Pops
<1>11. BeforeInv'
  BY <1>1, <1>2 DEF HooksInv, BeforeInv, Pops
<1>12. HookInv'
  BY <1>1, <1>4 DEF HooksInv, HookInv, BeforeInv, HeldInv
<1>13. ReachInv'
  <2> SUFFICES ASSUME installed, NEW u \in pending' \ excused', mod'[u] # "absent"
               PROVE  u \in guarded' \/ Coming(u)'
    BY <1>1 DEF ReachInv
  <2>1. u \in pending \ excused /\ u # t /\ u \in Targets
    BY <1>1 DEF HooksInv, HookInv
  <2>2. ~ (/\ Len(stack) > 1 /\ Executes(stack[Len(stack) - 1], u)
           /\ stack[Len(stack) - 1].step = "after")
    BY <1>1, <1>2 DEF HooksInv, LoaderInv
  <2>3. ~Serves(stack[Len(stack)], u)
    BY <1>1, <1>2 DEF Serves
  <2>4. CASE u \in guarded
    BY <1>1, <2>4
  <2>5. CASE Coming(u)
    BY <1>3, <2>1, <2>2, <2>3, <2>5, ComingUnderPop DEF HooksInv
  <2> QED
    BY <1>1, <2>5 DEF HooksInv, ReachInv
<1>14. MainUsesWrapper'
  BY <1>1 DEF HooksInv, MainUsesWrapper, PatchedAlias
<1> QED
  BY <1>5, <1>6, <1>7, <1>8, <1>9, <1>10, <1>11, <1>12, <1>13, <1>14 DEF HooksInv

\* install_defer_hooks returns with nothing left to do
LEMMA PluginLoadedKeeps ==
  ASSUME HooksInv, PluginLoaded
  PROVE  HooksInv'
<1> USE DEF Executes, Applies, Holds
<1>1. /\ stack # <<>> /\ Top.op = "install" /\ stack' = Popped
      /\ \A t \in DOMAIN Top.todo : Top.todo[t] = "done"
      /\ UNCHANGED <<mod, attrs, hooked, pending, busy, wrapped, guarded, finder, installed,
                     alias, excused>>
  BY DEF PluginLoaded, moduleVars, hookVars
<1>2. /\ Len(stack) \in Nat \ {0} /\ DOMAIN stack = 1..Len(stack)
      /\ Top = stack[Len(stack)] /\ Top \in Frame
  BY <1>1, TopFrame DEF HooksInv
<1>3. Pops(1) /\ stack' \in Seq(Frame)
  BY <1>1, Popping DEF HooksInv
<1>4. \A t \in Targets : Top.todo[t] = "done"
  BY <1>1, <1>2, FrameFields
<1>5. Typed'
  BY <1>1, <1>3 DEF HooksInv, Typed
<1>6. Single'
  BY <1>3 DEF HooksInv, Single, Pops
<1>7. BusyInv'
  BY <1>1, <1>2, <1>3 DEF HooksInv, Single, BusyInv, Pops
<1>8. ExecInv'
  BY <1>1, <1>3 DEF HooksInv, Single, ExecInv, Pops
<1>9. HeldInv'
  BY <1>1, <1>3 DEF HooksInv, ExecInv, HeldInv, Pops
<1>10. LoaderInv'
  BY <1>3 DEF HooksInv, LoaderInv, Pops
<1>11. BeforeInv'
  BY <1>1, <1>3 DEF HooksInv, BeforeInv, Pops
<1>12. HookInv'
  BY <1>1 DEF HooksInv, HookInv, BeforeInv, HeldInv
<1>13. ReachInv'
  <2> SUFFICES ASSUME installed, NEW u \in pending' \ excused', mod'[u] # "absent"
               PROVE  u \in guarded' \/ Coming(u)'
    BY <1>1 DEF ReachInv
  <2>1. u \in pending \ excused /\ u \in Targets /\ mod[u] # "absent"
    BY <1>1 DEF HooksInv, HookInv
  <2>2. ~ (/\ Len(stack) > 1 /\ Executes(stack[Len(stack) - 1], u)
           /\ stack[Len(stack) - 1].step = "after")
    BY <1>1, <1>2 DEF HooksInv, LoaderInv
  <2>3. ~Serves(stack[Len(stack)], u)
    BY <1>1, <1>2, <1>4, <2>1 DEF Serves
  <2>4. CASE u \in guarded
    BY <1>1, <2>4
  <2>5. CASE Coming(u)
    BY <1>3, <2>1, <2>2, <2>3, <2>5, ComingUnderPop DEF HooksInv
  <2> QED
    BY <2>1, <2>4, <2>5 DEF HooksInv, ReachInv
<1>14. MainUsesWrapper'
  BY <1>1 DEF HooksInv, MainUsesWrapper
<1> QED
  BY <1>5, <1>6, <1>7, <1>8, <1>9, <1>10, <1>11, <1>12, <1>13, <1>14 DEF HooksInv

\* an import ends: what its loader called has returned
LEMMA ImportEndsKeeps ==
  ASSUME HooksInv, NEW t \in Targets, ImportEnds(t)
  PROVE  HooksInv'
<1> USE DEF Executes, Applies, Holds
<1>1. /\ stack # <<>> /\ Top.op = "exec" /\ Top.mod = t /\ Top.step = "after"
      /\ stack' = Popped /\ mod' = [mod EXCEPT ![t] = "loaded"]
      /\ UNCHANGED <<attrs, hooked, pending, busy, wrapped, guarded, finder, installed,
                     alias, excused>>
  BY DEF ImportEnds, AtStep, IsTop, hookVars
<1>2. /\ Len(stack) \in Nat \ {0} /\ DOMAIN stack = 1..Len(stack)
      /\ Top = stack[Len(stack)] /\ Top \in Frame
  BY <1>1, TopFrame DEF HooksInv
<1>3. Pops(1) /\ stack' \in Seq(Frame)
  BY <1>1, Popping DEF HooksInv
<1>4. mod[t] = "executing"
  BY <1>1, <1>2 DEF HooksInv, ExecInv
<1>5. Typed'
  BY <1>1, <1>3 DEF HooksInv, Typed, Names
<1>6. Single'
  BY <1>3 DEF HooksInv, Single, Pops
<1>7. BusyInv'
  BY <1>1, <1>2, <1>3 DEF HooksInv, Single, BusyInv, Pops
<1>8. ExecInv'
  BY <1>1, <1>2, <1>3 DEF HooksInv, Single, ExecInv, Pops, Single, Typed
<1>9. HeldInv'
  BY <1>1, <1>3 DEF HooksInv, ExecInv, HeldInv, Pops, Typed
<1>10. LoaderInv'
  BY <1>3 DEF HooksInv, LoaderInv, Pops
<1>11. BeforeInv'
  BY <1>1, <1>3 DEF HooksInv, BeforeInv, Pops
<1>12. HookInv'
  BY <1>1 DEF HooksInv, HookInv, BeforeInv, HeldInv, Typed
<1>13. ReachInv'
  <2> SUFFICES ASSUME installed, NEW u \in pending' \ excused', mod'[u] # "absent"
               PROVE  u \in guarded' \/ Coming(u)'
    BY <1>1 DEF ReachInv
  <2>1. u \in pending \ excused /\ u \in Targets /\ mod[u] # "absent"
    BY <1>1, <1>4 DEF HooksInv, HookInv, Typed
  <2>2. ~ (/\ Len(stack) > 1 /\ Executes(stack[Len(stack) - 1], u)
           /\ stack[Len(stack) - 1].step = "after")
    BY <1>1, <1>2 DEF HooksInv, LoaderInv
  <2>3. ~Serves(stack[Len(stack)], u)
    BY <1>1, <1>2 DEF Serves
  <2>4. CASE u \in guarded
    BY <1>1, <2>4
  <2>5. CASE Coming(u)
    BY <1>3, <2>1, <2>2, <2>3, <2>5, ComingUnderPop DEF HooksInv
  <2> QED
    BY <2>1, <2>4, <2>5 DEF HooksInv, ReachInv
<1>14. MainUsesWrapper'
  BY <1>1 DEF HooksInv, MainUsesWrapper
<1> QED
  BY <1>5, <1>6, <1>7, <1>8, <1>9, <1>10, <1>11, <1>12, <1>13, <1>14 DEF HooksInv

\* an import fails: nobody holds the module that goes
LEMMA ImportFailsKeeps ==
  ASSUME HooksInv, NEW t \in Targets, ImportFails(t)
  PROVE  HooksInv'
<1> USE DEF Executes, Applies, Holds
<1>1. /\ stack # <<>> /\ Top.op = "exec" /\ Top.mod = t /\ Top.step = "body"
      /\ stack' = Popped /\ mod' = [mod EXCEPT ![t] = "absent"]
      /\ attrs' = [attrs EXCEPT ![t] = {}]
      /\ hooked' = hooked \ {t} /\ guarded' = guarded \ {t}
      /\ excused' = excused \union (hooked \intersect {t})
      /\ UNCHANGED <<pending, busy, wrapped, finder, installed, alias>>
  BY DEF ImportFails, Forget, AtStep, IsTop
<1>2. /\ Len(stack) \in Nat \ {0} /\ DOMAIN stack = 1..Len(stack)
      /\ Top = stack[Len(stack)] /\ Top \in Frame
  BY <1>1, TopFrame DEF HooksInv
<1>3. Pops(1) /\ stack' \in Seq(Frame)
  BY <1>1, Popping DEF HooksInv
<1>4. Typed'
  BY <1>1, <1>3 DEF HooksInv, Typed
<1>5. Single'
  BY <1>3 DEF HooksInv, Single, Pops
<1>6. BusyInv'
  BY <1>1, <1>2, <1>3 DEF HooksInv, Single, BusyInv, Pops
<1>7. ExecInv'
  BY <1>1, <1>2, <1>3 DEF HooksInv, Single, ExecInv, Pops, Single, Typed
<1>8. HeldInv'
  BY <1>1, <1>2, <1>3 DEF HooksInv, ExecInv, HeldInv, Pops, Typed
<1>9. LoaderInv'
  BY <1>3 DEF HooksInv, LoaderInv, Pops
<1>10. BeforeInv'
  BY <1>1, <1>3 DEF HooksInv, BeforeInv, Pops
<1>11. HookInv'
  BY <1>1 DEF HooksInv, HookInv, BeforeInv, HeldInv, Typed
<1>12. ReachInv'
  <2> SUFFICES ASSUME installed, NEW u \in pending' \ excused', mod'[u] # "absent"
               PROVE  u \in guarded' \/ Coming(u)'
    BY <1>1 DEF ReachInv
  <2>1. u \in pending \ excused /\ u \in Targets /\ u # t /\ mod[u] # "absent"
    BY <1>1 DEF HooksInv, HookInv, Typed
  <2>2. ~ (/\ Len(stack) > 1 /\ Executes(stack[Len(stack) - 1], u)
           /\ stack[Len(stack) - 1].step = "after")
    BY <1>1, <1>2 DEF HooksInv, LoaderInv
  <2>3. ~Serves(stack[Len(stack)], u)
    BY <1>1, <1>2, <2>1 DEF Serves
  <2>4. CASE u \in guarded
    BY <1>1, <2>1, <2>4
  <2>5. CASE Coming(u)
    BY <1>3, <2>1, <2>2, <2>3, <2>5, ComingUnderPop DEF HooksInv
  <2> QED
    BY <2>1, <2>4, <2>5 DEF HooksInv, ReachInv
<1>13. MainUsesWrapper'
  BY <1>1 DEF HooksInv, MainUsesWrapper
<1> QED
  BY <1>4, <1>5, <1>6, <1>7, <1>8, <1>9, <1>10, <1>11, <1>12, <1>13 DEF HooksInv

\* _apply finds no profile: its module stays guarded, or is excused
LEMMA ApplyNotOkKeeps ==
  ASSUME HooksInv, ApplyNotOk
  PROVE  HooksInv'
<1> USE DEF Executes, Applies, Holds
<1>1. /\ stack # <<>> /\ Top.op = "apply" /\ Top.mod = "auth" /\ stack' = Popped
      /\ busy' = busy \ {"auth"}
      /\ excused' = IF LoaderCalled THEN excused \union {"auth"} ELSE excused
      /\ UNCHANGED <<mod, attrs, hooked, pending, wrapped, guarded, finder, installed,
                     alias>>
  BY DEF ApplyNotOk, AtStep, IsTop, moduleVars
<1>2. /\ Len(stack) \in Nat \ {0} /\ DOMAIN stack = 1..Len(stack)
      /\ Top = stack[Len(stack)] /\ Top \in Frame
  BY <1>1, TopFrame DEF HooksInv
<1>3. Pops(1) /\ stack' \in Seq(Frame)
  BY <1>1, Popping DEF HooksInv
<1>4. LoaderCalled <=> /\ Len(stack) > 1 /\ stack[Len(stack) - 1].op = "exec"
                       /\ stack[Len(stack) - 1].step = "after"
  BY <1>1, BelowTop DEF HooksInv, LoaderCalled, Caller
<1>5. Typed'
  BY <1>1, <1>3 DEF HooksInv, Typed, Targets
<1>6. Single'
  BY <1>3 DEF HooksInv, Single, Pops
<1>7. BusyInv'
  BY <1>1, <1>2, <1>3 DEF HooksInv, Single, BusyInv, Pops
<1>8. ExecInv'
  BY <1>1, <1>3 DEF HooksInv, Single, ExecInv, Pops
<1>9. HeldInv'
  BY <1>1, <1>3 DEF HooksInv, ExecInv, HeldInv, Pops
<1>10. LoaderInv'
  BY <1>3 DEF HooksInv, LoaderInv, Pops
<1>11. BeforeInv'
  BY <1>1, <1>3 DEF HooksInv, BeforeInv, Pops
<1>12. HookInv'
  BY <1>1 DEF HooksInv, HookInv, BeforeInv, HeldInv
<1>13. ReachInv'
  <2> SUFFICES ASSUME installed, NEW u \in pending' \ excused', mod'[u] # "absent"
               PROVE  u \in guarded' \/ Coming(u)'
    BY <1>1 DEF ReachInv
  <2>1. u \in pending \ excused /\ u \in Targets
    BY <1>1 DEF HooksInv, HookInv
  <2>2. ~ (/\ Len(stack) > 1 /\ Executes(stack[Len(stack) - 1], u)
           /\ stack[Len(stack) - 1].step = "after")
    BY <1>1, <1>2, <1>4 DEF HooksInv, LoaderInv
  <2>3. ~Serves(stack[Len(stack)], u)
    BY <1>1, <1>2 DEF Serves
  <2>4. CASE u \in guarded
    BY <1>1, <2>4
  <2>5. CASE Coming(u)
    BY <1>3, <2>1, <2>2, <2>3, <2>5, ComingUnderPop DEF HooksInv
  <2> QED
    BY <1>1, <2>5 DEF HooksInv, ReachInv
<1>14. MainUsesWrapper'
  BY <1>1 DEF HooksInv, MainUsesWrapper
<1> QED
  BY <1>5, <1>6, <1>7, <1>8, <1>9, <1>10, <1>11, <1>12, <1>13, <1>14 DEF HooksInv

\* _guard, behind its _apply: the target is hooked by now, or guarded
LEMMA GuardThenKeeps ==
  ASSUME HooksInv, NEW t \in Targets, GuardThen(t)
  PROVE  HooksInv'
<1> USE DEF Executes, Applies, Holds
<1>1. /\ stack # <<>> /\ Top.op = "install" /\ Top.todo[t] = "applying"
      /\ guarded' = IF t \in pending THEN guarded \union {t} ELSE guarded
      /\ UNCHANGED <<mod, attrs, hooked, pending, busy, wrapped, finder, installed, alias,
                     excused>>
  BY DEF GuardThen, Guard, AtTodo, moduleVars
<1>2. /\ Len(stack) \in Nat \ {0} /\ DOMAIN stack = 1..Len(stack)
      /\ Top = stack[Len(stack)] /\ Top \in Frame
  BY <1>1, TopFrame DEF HooksInv
<1>3. PICK f \in Frame : /\ f.op = "install" /\ stack' = Append(Popped, f)
                        /\ \A u \in Targets :
                              f.todo[u] = IF u = t THEN "done" ELSE Top.todo[u]
  <2> DEFINE g == [Top EXCEPT !.todo[t] = "done"]
  <2>1. /\ g \in Frame /\ g.op = "install"
        /\ \A u \in Targets : g.todo[u] = IF u = t THEN "done" ELSE Top.todo[u]
    BY <1>1, <1>2, Changed
  <2>2. stack' = Append(Popped, g)
    BY DEF GuardThen, Guard, At
  <2> HIDE DEF g
  <2> QED
    BY <2>1, <2>2
<1>4. Replaces(f) /\ stack' \in Seq(Frame)
  BY <1>1, <1>3, Replacing DEF HooksInv
<1>5. /\ DOMAIN stack' = DOMAIN stack /\ Len(stack') = Len(stack)
      /\ \A i \in DOMAIN stack :
            /\ stack'[i].op = stack[i].op
            /\ stack[i].op # "install" => stack'[i] = stack[i]
            /\ stack[i].op = "install" => \A u \in Targets :
                 stack'[i].todo[u] = "applying" =>
                     stack[i].todo[u] = "applying"
  <2>1. ASSUME NEW i \in DOMAIN stack, i = Len(stack), NEW u \in Targets
        PROVE  stack'[i].todo[u] = "applying" => stack[i].todo[u] = "applying"
    BY <1>2, <1>3, <1>4 DEF Replaces
  <2> QED
    BY <1>1, <1>2, <1>3, <1>4 DEF Replaces
<1>6. mod[t] # "absent" /\ installed
  <2>1. Holds(stack[Len(stack)], t)
    BY <1>1, <1>2
  <2> QED
    BY <1>2, <2>1 DEF HooksInv, HeldInv, BeforeInv
<1>7. Typed'
  BY <1>1, <1>4 DEF HooksInv, Typed
<1>8. Single'
  BY <1>5 DEF HooksInv, Single
<1>9. BusyInv'
  BY <1>1, <1>5 DEF HooksInv, Single, BusyInv
<1>10. ExecInv'
  BY <1>1, <1>5 DEF HooksInv, Single, ExecInv
<1>11. HeldInv'
  BY <1>1, <1>5 DEF HooksInv, ExecInv, HeldInv
<1>12. LoaderInv'
  BY <1>5 DEF HooksInv, LoaderInv
<1>13. BeforeInv'
  BY <1>1, <1>6 DEF HooksInv, BeforeInv
<1>14. HookInv'
  BY <1>1, <1>6 DEF HooksInv, HookInv, BeforeInv, HeldInv
<1>15. ReachInv'
  <2> SUFFICES ASSUME installed, NEW u \in pending \ excused, mod[u] # "absent"
               PROVE  u \in guarded' \/ Coming(u)'
    BY <1>1 DEF ReachInv
  <2>1. u \in Targets
    BY DEF HooksInv, HookInv
  <2>2. CASE u = t
    BY <1>1, <2>2
  <2>3. CASE u # t
    <3>1. Serves(stack[Len(stack)], u) => Serves(f, u)
      BY <1>1, <1>2, <1>3, <2>1, <2>3 DEF Serves
    <3> QED
      BY <1>1, <1>4, <2>1, <3>1, ComingUnderReplace DEF HooksInv, ReachInv
  <2> QED
    BY <2>2, <2>3
<1>16. MainUsesWrapper'
  BY <1>1 DEF HooksInv, MainUsesWrapper
<1> QED
  BY <1>7, <1>8, <1>9, <1>10, <1>11, <1>12, <1>13, <1>14, <1>15, <1>16 DEF HooksInv

\* _guard: an absent target is left to the finder
LEMMA GuardAbsentKeeps ==
  ASSUME HooksInv, NEW t \in Targets, GuardFirst(t), mod[t] = "absent"
  PROVE  HooksInv'
<1> USE DEF Executes, Applies, Holds
<1>1. /\ stack # <<>> /\ Top.op = "install" /\ mod[t] = "absent"
      /\ UNCHANGED <<mod, attrs, hooked, pending, busy, wrapped, guarded, finder, installed,
                     alias, excused>>
  BY DEF GuardFirst, AtTodo, moduleVars
<1>2. /\ Len(stack) \in Nat \ {0} /\ DOMAIN stack = 1..Len(stack)
      /\ Top = stack[Len(stack)] /\ Top \in Frame
  BY <1>1, TopFrame DEF HooksInv
<1>3. PICK f \in Frame : /\ f.op = "install" /\ stack' = Append(Popped, f)
                        /\ \A u \in Targets :
                              f.todo[u] = IF u = t THEN "done" ELSE Top.todo[u]
  <2> DEFINE g == [Top EXCEPT !.todo[t] = "done"]
  <2>1. /\ g \in Frame /\ g.op = "install"
        /\ \A u \in Targets : g.todo[u] = IF u = t THEN "done" ELSE Top.todo[u]
    BY <1>1, <1>2, Changed
  <2>2. stack' = Append(Popped, g)
    BY DEF GuardFirst, At
  <2> HIDE DEF g
  <2> QED
    BY <2>1, <2>2
<1>4. Replaces(f) /\ stack' \in Seq(Frame)
  BY <1>1, <1>3, Replacing DEF HooksInv
<1>5. /\ DOMAIN stack' = DOMAIN stack /\ Len(stack') = Len(stack)
      /\ \A i \in DOMAIN stack :
            /\ stack'[i].op = stack[i].op
            /\ stack[i].op # "install" => stack'[i] = stack[i]
            /\ stack[i].op = "install" => \A u \in Targets :
                 stack'[i].todo[u] = "applying" =>
                     stack[i].todo[u] = "applying"
  <2>1. ASSUME NEW i \in DOMAIN stack, i = Len(stack), NEW u \in Targets
        PROVE  stack'[i].todo[u] = "applying" => stack[i].todo[u] = "applying"
    BY <1>2, <1>3, <1>4 DEF Replaces
  <2> QED
    BY <1>1, <1>2, <1>3, <1>4 DEF Replaces
<1>6. installed
  BY <1>1, <1>2 DEF HooksInv, BeforeInv
<1>7. Typed'
  BY <1>1, <1>4 DEF HooksInv, Typed
<1>8. Single'
  BY <1>5 DEF HooksInv, Single
<1>9. BusyInv'
  BY <1>1, <1>5 DEF HooksInv, Single, BusyInv
<1>10. ExecInv'
  BY <1>1, <1>5 DEF HooksInv, Single, ExecInv
<1>11. HeldInv'
  BY <1>1, <1>5 DEF HooksInv, ExecInv, HeldInv
<1>12. LoaderInv'
  BY <1>5 DEF HooksInv, LoaderInv
<1>13. BeforeInv'
  BY <1>1, <1>6 DEF HooksInv, BeforeInv
<1>14. HookInv'
  BY <1>1 DEF HooksInv, HookInv, BeforeInv, HeldInv
<1>15. ReachInv'
  <2> SUFFICES ASSUME installed, NEW u \in pending \ excused, mod[u] # "absent"
               PROVE  u \in guarded' \/ Coming(u)'
    BY <1>1 DEF ReachInv
  <2>1. u \in Targets
    BY DEF HooksInv, HookInv
  <2>2. CASE u = t
    BY <2>2
  <2>3. CASE u # t
    <3>1. Serves(stack[Len(stack)], u) => Serves(f, u)
      BY <1>1, <1>2, <1>3, <2>1 DEF Serves
    <3> QED
      BY <1>1, <1>4, <2>1, <3>1, ComingUnderReplace DEF HooksInv, ReachInv
  <2> QED
    BY <2>3
<1>16. MainUsesWrapper'
  BY <1>1 DEF HooksInv, MainUsesWrapper
<1> QED
  BY <1>7, <1>8, <1>9, <1>10, <1>11, <1>12, <1>13, <1>14, <1>15, <1>16 DEF HooksInv

\* _guard: _apply has nothing to do yet, or is at it
LEMMA GuardWithoutCallKeeps ==
  ASSUME HooksInv, NEW t \in Targets, GuardFirst(t), mod[t] # "absent", ~Applicable(t)
  PROVE  HooksInv'
<1> USE DEF Executes, Applies, Holds
<1>1. /\ stack # <<>> /\ Top.op = "install"
      /\ UNCHANGED <<mod, attrs, hooked, pending, busy, wrapped, guarded, finder, installed,
                     alias, excused>>
  BY DEF GuardFirst, Calling, BusyCalling, AtTodo, moduleVars
<1>2. /\ Len(stack) \in Nat \ {0} /\ DOMAIN stack = 1..Len(stack)
      /\ Top = stack[Len(stack)] /\ Top \in Frame
  BY <1>1, TopFrame DEF HooksInv
<1>3. PICK f \in Frame : /\ f.op = "install" /\ stack' = Append(Popped, f)
                        /\ \A u \in Targets :
                              f.todo[u] = IF u = t THEN "applying" ELSE Top.todo[u]
  <2> DEFINE g == [Top EXCEPT !.todo[t] = "applying"]
  <2>1. /\ g \in Frame /\ g.op = "install"
        /\ \A u \in Targets : g.todo[u] = IF u = t THEN "applying" ELSE Top.todo[u]
    BY <1>1, <1>2, Changed
  <2>2. stack' = Append(Popped, g)
    BY DEF GuardFirst, Calling, BusyCalling, At
  <2> HIDE DEF g
  <2> QED
    BY <2>1, <2>2
<1>4. Replaces(f) /\ stack' \in Seq(Frame)
  BY <1>1, <1>3, Replacing DEF HooksInv
<1>5. /\ DOMAIN stack' = DOMAIN stack /\ Len(stack') = Len(stack)
      /\ \A i \in DOMAIN stack :
            /\ stack'[i].op = stack[i].op
            /\ stack[i].op # "install" => stack'[i] = stack[i]
            /\ stack[i].op = "install" => \A u \in Targets :
                 stack'[i].todo[u] = "applying" =>
                     stack[i].todo[u] = "applying" \/ u = t
  <2>1. ASSUME NEW i \in DOMAIN stack, i = Len(stack), NEW u \in Targets
        PROVE  stack'[i].todo[u] = "applying" => stack[i].todo[u] = "applying" \/ u = t
    BY <1>2, <1>3, <1>4 DEF Replaces
  <2> QED
    BY <1>1, <1>2, <1>3, <1>4 DEF Replaces
<1>6. installed /\ mod[t] # "absent"
  BY <1>1, <1>2 DEF HooksInv, BeforeInv
<1>7. Typed'
  BY <1>1, <1>4 DEF HooksInv, Typed
<1>8. Single'
  BY <1>5 DEF HooksInv, Single
<1>9. BusyInv'
  BY <1>1, <1>5 DEF HooksInv, Single, BusyInv
<1>10. ExecInv'
  BY <1>1, <1>2, <1>5 DEF HooksInv, Single, ExecInv
<1>11. HeldInv'
  BY <1>1, <1>5 DEF HooksInv, ExecInv, HeldInv
<1>12. LoaderInv'
  BY <1>5 DEF HooksInv, LoaderInv
<1>13. BeforeInv'
  BY <1>1, <1>6 DEF HooksInv, BeforeInv
<1>14. HookInv'
  BY <1>1 DEF HooksInv, HookInv, BeforeInv, HeldInv
<1>15. ReachInv'
  <2> SUFFICES ASSUME installed, NEW u \in pending \ excused, mod[u] # "absent"
               PROVE  u \in guarded' \/ Coming(u)'
    BY <1>1 DEF ReachInv
  <2>1. u \in Targets
    BY DEF HooksInv, HookInv
  <2>2. CASE u = t
    <3>1. Serves(f, t)
      BY <1>3 DEF Serves
    <3>2. Len(stack') \in DOMAIN stack' /\ stack'[Len(stack')] = f
      BY <1>2, <1>4 DEF Replaces
    <3> QED
      BY <2>2, <3>1, <3>2 DEF Coming
  <2>3. CASE u # t
    <3>1. Serves(stack[Len(stack)], u) => Serves(f, u)
      BY <1>1, <1>2, <1>3, <2>1 DEF Serves
    <3> QED
      BY <1>1, <1>4, <2>1, <3>1, ComingUnderReplace DEF HooksInv, ReachInv
  <2> QED
    BY <2>2, <2>3
<1>16. MainUsesWrapper'
  BY <1>1 DEF HooksInv, MainUsesWrapper
<1> QED
  BY <1>7, <1>8, <1>9, <1>10, <1>11, <1>12, <1>13, <1>14, <1>15, <1>16 DEF HooksInv

\* _guard: _apply starts
LEMMA GuardWithCallKeeps ==
  ASSUME HooksInv, NEW t \in Targets, GuardFirst(t), mod[t] # "absent", Applicable(t)
  PROVE  HooksInv'
<1> USE DEF Executes, Applies, Holds
<1>1. /\ stack # <<>> /\ Top.op = "install" /\ t \notin busy
      /\ busy' = busy \union {t}
      /\ UNCHANGED <<mod, attrs, hooked, pending, guarded, wrapped, finder, installed, alias,
                     excused>>
  BY DEF GuardFirst, Calling, BusyCalling, Applicable, AtTodo, moduleVars
<1>2. /\ Len(stack) \in Nat \ {0} /\ DOMAIN stack = 1..Len(stack)
      /\ Top = stack[Len(stack)] /\ Top \in Frame
  BY <1>1, TopFrame DEF HooksInv
<1>3. PICK f \in Frame, g \in Frame :
        /\ f.op = "install" /\ g.op = "apply" /\ g.mod = t
        /\ stack' = Append(Append(Popped, f), g)
        /\ \A u \in Targets : f.todo[u] = IF u = t THEN "applying" ELSE Top.todo[u]
  <2> DEFINE f == [Top EXCEPT !.todo[t] = "applying"]
  <2>1. /\ f \in Frame /\ f.op = "install"
        /\ \A u \in Targets : f.todo[u] = IF u = t THEN "applying" ELSE Top.todo[u]
    BY <1>1, <1>2, Changed
  <2>2. stack' = Append(Append(Popped, f), Apply(t))
    BY DEF GuardFirst, Calling, At
  <2> HIDE DEF f
  <2> QED
    BY <2>1, <2>2, Frames1
<1>4. ReplacesAndPushes(f, g) /\ stack' \in Seq(Frame)
  BY <1>1, <1>3, ReplacingAndPushing DEF HooksInv
<1>5. /\ DOMAIN stack' = 1..(Len(stack) + 1) /\ Len(stack') = Len(stack) + 1
      /\ stack'[Len(stack) + 1].op = "apply" /\ stack'[Len(stack) + 1].mod = t
      /\ \A i \in DOMAIN stack :
            /\ stack'[i].op = stack[i].op
            /\ stack[i].op # "install" => stack'[i] = stack[i]
            /\ stack[i].op = "install" => \A u \in Targets :
                 stack'[i].todo[u] = "applying" =>
                     stack[i].todo[u] = "applying" \/ u = t
  <2>1. ASSUME NEW i \in DOMAIN stack, i = Len(stack), NEW u \in Targets
        PROVE  stack'[i].todo[u] = "applying" =>
                   stack[i].todo[u] = "applying" \/ u = t
    BY <1>2, <1>3, <1>4 DEF ReplacesAndPushes
  <2> QED
    BY <1>1, <1>2, <1>3, <1>4, <2>1 DEF ReplacesAndPushes
<1>6. installed
  BY <1>1, <1>2 DEF HooksInv, BeforeInv
<1>7. Typed'
  BY <1>1, <1>4 DEF HooksInv, Typed
<1>8. Single'
  BY <1>1, <1>2, <1>5 DEF HooksInv, Single, BusyInv
<1>9. BusyInv'
  BY <1>1, <1>2, <1>5 DEF HooksInv, Single, BusyInv
<1>10. ExecInv'
  BY <1>1, <1>2, <1>5 DEF HooksInv, Single, ExecInv
<1>11. HeldInv'
  BY <1>1, <1>2, <1>5 DEF HooksInv, ExecInv, HeldInv
<1>12. LoaderInv'
  BY <1>1, <1>2, <1>5 DEF HooksInv, LoaderInv
<1>13. BeforeInv'
  BY <1>1, <1>6 DEF HooksInv, BeforeInv
<1>14. HookInv'
  BY <1>1 DEF HooksInv, HookInv, BeforeInv, HeldInv
<1>15. ReachInv'
  <2> SUFFICES ASSUME installed, NEW u \in pending \ excused, mod[u] # "absent"
               PROVE  u \in guarded \/ Coming(u)'
    BY <1>1 DEF ReachInv
  <2>1. u \in Targets
    BY DEF HooksInv, HookInv
  <2>2. CASE Serves(f, u)
    BY <1>1, <1>4, <2>1, <2>2, ComingUnderBoth DEF HooksInv
  <2>3. CASE ~Serves(f, u)
    <3>1. ~Serves(stack[Len(stack)], u)
      BY <1>1, <1>2, <1>3, <2>1, <2>3 DEF Serves
    <3> QED
      BY <1>1, <1>4, <2>1, <3>1, ComingUnderBoth DEF HooksInv, ReachInv
  <2> QED
    BY <2>2, <2>3
<1>16. MainUsesWrapper'
  BY <1>1 DEF HooksInv, MainUsesWrapper
<1> QED
  BY <1>7, <1>8, <1>9, <1>10, <1>11, <1>12, <1>13, <1>14, <1>15, <1>16 DEF HooksInv

\* CompletionLoader.exec_module: the body is done and _apply starts
LEMMA BodyEndsWithCallKeeps ==
  ASSUME HooksInv, NEW t \in Targets, BodyEnds(t), Top.via, Applicable(t)
  PROVE  HooksInv'
<1> USE DEF Executes, Applies, Holds
<1>1. /\ stack # <<>> /\ Top.op = "exec" /\ Top.mod = t /\ Top.step = "body"
      /\ attrs[t] = Defines[t] /\ t \notin busy /\ busy' = busy \union {t}
      /\ UNCHANGED <<mod, attrs, hooked, pending, wrapped, guarded, finder, installed, alias,
                     excused>>
  BY DEF BodyEnds, Calling, BusyCalling, Applicable, AtStep, IsTop, moduleVars
<1>2. /\ Len(stack) \in Nat \ {0} /\ DOMAIN stack = 1..Len(stack)
      /\ Top = stack[Len(stack)] /\ Top \in Frame
  BY <1>1, TopFrame DEF HooksInv
<1>3. PICK f \in Frame, g \in Frame :
        /\ f.op = "exec" /\ f.mod = t /\ f.via /\ f.step = "after"
        /\ g.op = "apply" /\ g.mod = t
        /\ stack' = Append(Append(Popped, f), g)
  <2> DEFINE f == [Top EXCEPT !.step = "after"]
  <2>1. /\ f \in Frame /\ f.op = "exec" /\ f.mod = t /\ f.via = Top.via
        /\ f.step = "after"
    BY <1>1, <1>2, Changed
  <2>2. stack' = Append(Append(Popped, f), Apply(t))
    BY DEF BodyEnds, Calling
  <2> HIDE DEF f
  <2> QED
    BY <2>1, <2>2, Frames1
<1>4. ReplacesAndPushes(f, g) /\ stack' \in Seq(Frame)
  BY <1>1, <1>3, ReplacingAndPushing DEF HooksInv
<1>5. /\ DOMAIN stack' = 1..(Len(stack) + 1) /\ Len(stack') = Len(stack) + 1
      /\ stack'[Len(stack) + 1].op = "apply" /\ stack'[Len(stack) + 1].mod = t
      /\ \A i \in DOMAIN stack :
            /\ stack'[i].op = stack[i].op /\ stack'[i].mod = stack[i].mod
            /\ i # Len(stack) => stack'[i] = stack[i]
  BY <1>1, <1>2, <1>3, <1>4 DEF ReplacesAndPushes
<1>6. installed /\ mod[t] # "absent"
  BY <1>1, <1>2 DEF HooksInv, BeforeInv, ExecInv
<1>7. Typed'
  BY <1>1, <1>4 DEF HooksInv, Typed
<1>8. Single'
  BY <1>1, <1>5, <1>6 DEF HooksInv, Single, BusyInv
<1>9. BusyInv'
  BY <1>1, <1>2, <1>5 DEF HooksInv, Single, BusyInv
<1>10. ExecInv'
  BY <1>1, <1>2, <1>5 DEF HooksInv, Single, ExecInv, BusyInv
<1>11. HeldInv'
  BY <1>1, <1>2, <1>5 DEF HooksInv, ExecInv, HeldInv
<1>12. LoaderInv'
  BY <1>1, <1>2, <1>5 DEF HooksInv, LoaderInv
<1>13. BeforeInv'
  BY <1>1, <1>6 DEF HooksInv, BeforeInv
<1>14. HookInv'
  BY <1>1 DEF HooksInv, HookInv, BeforeInv, HeldInv
<1>15. ReachInv'
  <2> SUFFICES ASSUME installed, NEW u \in pending \ excused, mod[u] # "absent"
               PROVE  u \in guarded \/ Coming(u)'
    BY <1>1 DEF ReachInv
  <2>1. u \in Targets
    BY DEF HooksInv, HookInv
  <2>2. CASE u = t
    <3>1. Executes(f, u) /\ f.via
      BY <1>3, <2>2
    <3> QED
      BY <1>1, <1>4, <2>1, <3>1, ComingUnderBoth DEF HooksInv
  <2>3. CASE u # t
    <3>1. ~Serves(stack[Len(stack)], u)
      BY <1>1, <1>2, <2>3 DEF Serves
    <3> QED
      BY <1>1, <1>4, <2>1, <3>1, ComingUnderBoth DEF HooksInv, ReachInv
  <2> QED
    BY <2>2, <2>3
<1>16. MainUsesWrapper'
  BY <1>1 DEF HooksInv, MainUsesWrapper
<1> QED
  BY <1>7, <1>8, <1>9, <1>10, <1>11, <1>12, <1>13, <1>14, <1>15, <1>16 DEF HooksInv

\* the body is done and no hook is pending that could have been served
LEMMA BodyEndsWithoutCallKeeps ==
  ASSUME HooksInv, NEW t \in Targets, BodyEnds(t), ~(Top.via /\ Applicable(t))
  PROVE  HooksInv'
<1> USE DEF Executes, Applies, Holds
<1>1. /\ stack # <<>> /\ Top.op = "exec" /\ Top.mod = t /\ Top.step = "body"
      /\ attrs[t] = Defines[t] /\ busy' = busy
      /\ UNCHANGED <<mod, attrs, hooked, pending, wrapped, guarded, finder, installed, alias,
                     excused>>
  BY DEF BodyEnds, Calling, BusyCalling, AtStep, IsTop, moduleVars
<1>2. /\ Len(stack) \in Nat \ {0} /\ DOMAIN stack = 1..Len(stack)
      /\ Top = stack[Len(stack)] /\ Top \in Frame
  BY <1>1, TopFrame DEF HooksInv
<1>3. PICK f \in Frame : /\ f.op = "exec" /\ f.mod = t /\ f.via = Top.via /\ f.step = "after"
                        /\ stack' = Append(Popped, f)
  <2> DEFINE f == [Top EXCEPT !.step = "after"]
  <2>1. /\ f \in Frame /\ f.op = "exec" /\ f.mod = t /\ f.via = Top.via
        /\ f.step = "after"
    BY <1>1, <1>2, Changed
  <2>2. stack' = Append(Popped, f)
    BY DEF BodyEnds, Calling
  <2> HIDE DEF f
  <2> QED
    BY <2>1, <2>2
<1>4. Replaces(f) /\ stack' \in Seq(Frame)
  BY <1>1, <1>3, Replacing DEF HooksInv
<1>5. /\ DOMAIN stack' = DOMAIN stack /\ Len(stack') = Len(stack)
      /\ \A i \in DOMAIN stack :
            /\ stack'[i].op = stack[i].op /\ stack'[i].mod = stack[i].mod
            /\ stack'[i].op = "exec" => stack'[i].via = stack[i].via
            /\ i # Len(stack) => stack'[i] = stack[i]
  BY <1>1, <1>2, <1>3, <1>4 DEF Replaces
<1>6. t \in pending => ~Top.via
  <2>1. t \notin busy
    BY <1>1, <1>2 DEF HooksInv, BusyInv, ExecInv
  <2>2. Required[t] \in SUBSET Defines[t]
    BY DEF Required, Defines, Targets
  <2> QED
    BY <1>1, <2>1, <2>2 DEF Applicable
<1>7. Typed'
  BY <1>1, <1>4 DEF HooksInv, Typed
<1>8. Single'
  BY <1>5 DEF HooksInv, Single
<1>9. BusyInv'
  BY <1>1, <1>5 DEF HooksInv, Single, BusyInv
<1>10. ExecInv'
  BY <1>1, <1>5 DEF HooksInv, Single, ExecInv
<1>11. HeldInv'
  BY <1>1, <1>2, <1>5 DEF HooksInv, ExecInv, HeldInv
<1>12. LoaderInv'
  BY <1>5 DEF HooksInv, LoaderInv
<1>13. BeforeInv'
  BY <1>1, <1>5 DEF HooksInv, BeforeInv
<1>14. HookInv'
  BY <1>1 DEF HooksInv, HookInv, BeforeInv, HeldInv
<1>15. ReachInv'
  <2> SUFFICES ASSUME installed, NEW u \in pending \ excused, mod[u] # "absent"
               PROVE  u \in guarded \/ Coming(u)'
    BY <1>1 DEF ReachInv
  <2>1. u \in Targets
    BY DEF HooksInv, HookInv
  <2>2. ~Serves(stack[Len(stack)], u)
    BY <1>1, <1>2, <1>6 DEF Serves
  <2> QED
    BY <1>1, <1>4, <2>1, <2>2, ComingUnderReplace DEF HooksInv, ReachInv
<1>16. MainUsesWrapper'
  BY <1>1 DEF HooksInv, MainUsesWrapper
<1> QED
  BY <1>7, <1>8, <1>9, <1>10, <1>11, <1>12, <1>13, <1>14, <1>15, <1>16 DEF HooksInv

\* _apply raises into an attribute access of Hermes code: the class stays
LEMMA RaiseToReaderKeeps ==
  ASSUME HooksInv, Raise, ~LoaderCalled, ~Caller("install")
  PROVE  HooksInv'
<1> USE DEF Executes, Applies, Holds
<1>1. /\ stack # <<>> /\ Top.op = "apply" /\ Top.mod = "auth" /\ busy' = busy \ {"auth"}
      /\ UNCHANGED <<pending, wrapped, finder, installed, alias>>
      /\ stack' = Popped /\ UNCHANGED <<mod, attrs, hooked, guarded, excused>>
  BY DEF Raise, ApplyRaises, AtStep, IsTop, moduleVars
<1>2. /\ Len(stack) \in Nat \ {0} /\ DOMAIN stack = 1..Len(stack)
      /\ Top = stack[Len(stack)] /\ Top \in Frame
  BY <1>1, TopFrame DEF HooksInv
<1>3. Pops(1) /\ stack' \in Seq(Frame)
  BY <1>1, Popping DEF HooksInv
<1>4. ~ (/\ Len(stack) > 1 /\ stack[Len(stack) - 1].op = "exec"
           /\ stack[Len(stack) - 1].step = "after")
  BY BelowTop DEF HooksInv, LoaderCalled, Caller
<1>5. Typed'
  BY <1>1, <1>3 DEF HooksInv, Typed, Targets
<1>6. Single'
  BY <1>3 DEF HooksInv, Single, Pops
<1>7. BusyInv'
  BY <1>1, <1>2, <1>3 DEF HooksInv, Single, BusyInv, Pops
<1>8. ExecInv'
  BY <1>1, <1>3 DEF HooksInv, Single, ExecInv, Pops
<1>9. HeldInv'
  BY <1>1, <1>3 DEF HooksInv, ExecInv, HeldInv, Pops
<1>10. LoaderInv'
  BY <1>3 DEF HooksInv, LoaderInv, Pops
<1>11. BeforeInv'
  BY <1>1, <1>3 DEF HooksInv, BeforeInv, Pops
<1>12. HookInv'
  BY <1>1 DEF HooksInv, HookInv, BeforeInv, HeldInv
<1>13. ReachInv'
  <2> SUFFICES ASSUME installed, NEW u \in pending' \ excused', mod'[u] # "absent"
               PROVE  u \in guarded' \/ Coming(u)'
    BY <1>1 DEF ReachInv
  <2>1. u \in pending \ excused /\ u \in Targets
    BY <1>1 DEF HooksInv, HookInv
  <2>2. ~ (/\ Len(stack) > 1 /\ Executes(stack[Len(stack) - 1], u)
           /\ stack[Len(stack) - 1].step = "after")
    BY <1>4 DEF HooksInv, LoaderInv
  <2>3. ~Serves(stack[Len(stack)], u)
    BY <1>1, <1>2 DEF Serves
  <2>4. CASE u \in guarded
    BY <1>1, <2>4
  <2>5. CASE Coming(u)
    BY <1>3, <2>1, <2>2, <2>3, <2>5, ComingUnderPop DEF HooksInv
  <2> QED
    BY <1>1, <2>5 DEF HooksInv, ReachInv
<1>14. MainUsesWrapper'
  BY <1>1 DEF HooksInv, MainUsesWrapper
<1> QED
  BY <1>5, <1>6, <1>7, <1>8, <1>9, <1>10, <1>11, <1>12, <1>13, <1>14 DEF HooksInv

-----------------------------------------------------------------------------
(* _apply raises *)

\* _apply raises into the loader wrapper: the import fails, and with it the module goes
LEMMA RaiseToLoaderKeeps ==
  ASSUME HooksInv, Raise, LoaderCalled
  PROVE  HooksInv'
<1> USE DEF Executes, Applies, Holds
<1>1. /\ stack # <<>> /\ Top.op = "apply" /\ Top.mod = "auth" /\ busy' = busy \ {"auth"}
      /\ UNCHANGED <<pending, wrapped, finder, installed, alias>>
      /\ Popped # <<>> /\ stack' = Front(Popped)
      /\ mod' = [mod EXCEPT !["auth"] = "absent"]
      /\ attrs' = [attrs EXCEPT !["auth"] = {}]
      /\ hooked' = hooked \ {"auth"} /\ guarded' = guarded \ {"auth"}
      /\ excused' = excused \union (hooked \intersect {"auth"})
  BY DEF Raise, ApplyRaises, AtStep, IsTop, LoaderCalled, Caller, Forget
<1>2. Pops(2) /\ stack' \in Seq(Frame)
  BY <1>1, PoppingTwo DEF HooksInv
<1>3. PICK b, n :
        /\ b = Len(stack) - 1 /\ n = Len(stack) /\ b + 1 = n /\ n > 1 /\ n \in Nat
        /\ Remains(b, n) /\ Top = stack[n]
  BY <1>1, <1>2, TwoRemain, TopFrame DEF HooksInv
<1>4. stack[b].op = "exec" /\ stack[b].step = "after"
  BY <1>3, BelowTop DEF HooksInv, LoaderCalled, Caller
<1>5. stack[b].mod = "auth"
  <2>1. b # Len(stack) /\ b \in DOMAIN stack
    BY <1>3 DEF Remains
  <2> QED
    BY <1>1, <1>3, <1>4 DEF HooksInv, LoaderInv
<1>6. /\ Executes(stack[b], "auth") /\ stack[n].op = "apply" /\ stack[n].mod = "auth"
      /\ "auth" \in Targets /\ Remains(b, n)
  BY <1>1, <1>3, <1>4, <1>5 DEF Targets
<1>7. Typed'
  BY <1>1, <1>2 DEF HooksInv, Typed, Targets
<1>8. Single'
  BY <1>6 DEF HooksInv, Single, Remains
<1>9. BusyInv'
  BY <1>1, <1>6 DEF HooksInv, Single, BusyInv, ExecInv, Remains
<1>10. \A i \in DOMAIN stack' : ~Executes(stack'[i], "auth") /\ ~Holds(stack'[i], "auth")
  <2> SUFFICES ASSUME NEW i \in DOMAIN stack'
               PROVE  ~Executes(stack[i], "auth") /\ ~Holds(stack[i], "auth")
    BY <1>6 DEF Remains
  <2>1. ~Executes(stack[i], "auth")
    BY <1>6 DEF HooksInv, Single, Remains
  <2>2. Holds(stack[i], "auth") => b < i
    BY <1>6 DEF HooksInv, ExecInv, Remains
  <2>3. i \in Nat /\ i < n - 1
    BY <1>2, <1>3 DEF Pops
  <2> QED
    BY <1>3, <2>1, <2>2, <2>3
<1>11. \A t \in Targets : t = "auth" \/ mod'[t] = mod[t]
  BY <1>1 DEF HooksInv, Typed
<1>12. ExecInv'
  <2> SUFFICES ASSUME NEW t \in Targets, NEW i \in DOMAIN stack', Executes(stack'[i], t)
               PROVE  /\ mod'[t] = "executing"
                      /\ \A j \in DOMAIN stack' : Holds(stack'[j], t) => i < j
    BY DEF ExecInv
  <2>1. t # "auth"
    BY <1>10
  <2> QED
    BY <1>6, <1>11, <2>1 DEF HooksInv, ExecInv, Remains
<1>13. HeldInv'
  <2> SUFFICES ASSUME NEW t \in Targets, NEW j \in DOMAIN stack', Holds(stack'[j], t)
               PROVE  mod'[t] # "absent"
    BY DEF HeldInv
  <2>1. t # "auth"
    BY <1>10
  <2>2. j \in DOMAIN stack /\ Holds(stack[j], t)
    BY <1>6 DEF Remains
  <2>3. mod[t] # "absent"
    BY <2>2 DEF HooksInv, HeldInv
  <2> QED
    BY <1>11, <2>1, <2>3
<1>14. LoaderInv'
  BY <1>2, LoaderUnderPop DEF HooksInv
<1>15. BeforeInv'
  BY <1>1, <1>6 DEF HooksInv, BeforeInv, Remains
<1>16. HookInv'
  BY <1>1 DEF HooksInv, HookInv, BeforeInv, Typed, Remains
<1>17. ReachInv'
  <2> SUFFICES ASSUME installed, NEW u \in pending' \ excused', mod'[u] # "absent"
               PROVE  u \in guarded' \/ Coming(u)'
    BY <1>1 DEF ReachInv
  <2>1. u \in pending \ excused /\ u \in Targets /\ u # "auth" /\ mod[u] # "absent"
    BY <1>1 DEF HooksInv, HookInv, Typed
  <2>2. /\ ~Serves(stack[b], u) /\ ~Executes(stack[b], u) /\ ~Applies(stack[b], u)
        /\ ~Serves(stack[n], u)
    BY <1>6, <2>1 DEF Serves
  <2>3. CASE u \in guarded
    BY <1>1, <2>1, <2>3
  <2>4. CASE Coming(u)
    BY <1>2, <1>3, <2>1, <2>2, <2>4, ComingUnderPopTwo DEF HooksInv
  <2> QED
    BY <2>1, <2>3, <2>4 DEF HooksInv, ReachInv
<1>18. MainUsesWrapper'
  BY <1>1 DEF HooksInv, MainUsesWrapper
<1> QED
  BY <1>7, <1>8, <1>9, <1>12, <1>13, <1>14, <1>15, <1>16, <1>17, <1>18 DEF HooksInv

\* _apply raises into install_defer_hooks: what it had not come to yet is excused
LEMMA RaiseToInstallKeeps ==
  ASSUME HooksInv, Raise, Caller("install")
  PROVE  HooksInv'
<1> USE DEF Executes, Applies, Holds
<1>1. /\ stack # <<>> /\ Top.op = "apply" /\ Top.mod = "auth" /\ busy' = busy \ {"auth"}
      /\ UNCHANGED <<pending, wrapped, finder, installed, alias>>
      /\ Popped # <<>> /\ stack' = Front(Popped)
      /\ excused' = excused \union Unguarded(stack[Len(stack) - 1].todo)
      /\ UNCHANGED <<mod, attrs, hooked, guarded>>
  BY BelowTop DEF HooksInv, Raise, ApplyRaises, AtStep, IsTop, LoaderCalled, Caller, moduleVars
<1>2. Pops(2) /\ stack' \in Seq(Frame)
  BY <1>1, PoppingTwo DEF HooksInv
<1>3. PICK b, n :
        /\ b = Len(stack) - 1 /\ n = Len(stack) /\ b + 1 = n /\ n > 1 /\ n \in Nat
        /\ Remains(b, n) /\ Top = stack[n]
  BY <1>1, <1>2, TwoRemain, TopFrame DEF HooksInv
<1>4. stack[b].op = "install"
  BY <1>3, BelowTop DEF HooksInv, Caller
<1>5. /\ \A u \in Targets : u \in excused' <=>
             u \in excused \/ stack[b].todo[u] # "done"
      /\ excused' \in SUBSET Targets
  <2>1. stack[b] \in Frame
    BY <1>3 DEF HooksInv, Typed, Remains
  <2>2. DOMAIN stack[b].todo = Targets
    BY <1>4, <2>1, FrameFields
  <2>3. excused \in SUBSET Targets
    BY DEF HooksInv, Typed
  <2> QED
    BY <1>1, <1>3, <2>2, <2>3 DEF Unguarded
<1>6. /\ stack[b].op = "install" /\ stack[n].op = "apply" /\ stack[n].mod = "auth"
      /\ "auth" \in Targets /\ Remains(b, n)
  BY <1>1, <1>3, <1>4 DEF Targets
<1>7. Typed'
  BY <1>1, <1>2, <1>5 DEF HooksInv, Typed
<1>8. Single'
  BY <1>6 DEF HooksInv, Single, Remains
<1>9. BusyInv'
  BY <1>1, <1>6 DEF HooksInv, Single, BusyInv, Remains
<1>10. ExecInv'
  BY <1>1, <1>6 DEF HooksInv, ExecInv, Remains
<1>11. HeldInv'
  BY <1>1, <1>6 DEF HooksInv, HeldInv, Remains
<1>12. LoaderInv'
  BY <1>2, LoaderUnderPop DEF HooksInv
<1>13. BeforeInv'
  BY <1>1, <1>6 DEF HooksInv, BeforeInv, Remains
<1>14. HookInv'
  BY <1>1 DEF HooksInv, HookInv, Typed
<1>15. ReachInv'
  <2> SUFFICES ASSUME installed, NEW u \in pending' \ excused', mod'[u] # "absent"
               PROVE  u \in guarded' \/ Coming(u)'
    BY <1>1 DEF ReachInv
  <2>1. /\ u \in pending \ excused /\ u \in Targets /\ mod[u] # "absent"
        /\ stack[b].todo[u] = "done"
    BY <1>1, <1>5 DEF HooksInv, HookInv
  <2>2. /\ ~Serves(stack[b], u) /\ ~Executes(stack[b], u) /\ ~Applies(stack[b], u)
        /\ ~Serves(stack[n], u)
    BY <1>6, <2>1 DEF Serves
  <2>3. CASE u \in guarded
    BY <1>1, <2>3
  <2>4. CASE Coming(u)
    BY <1>2, <1>3, <2>1, <2>2, <2>4, ComingUnderPopTwo DEF HooksInv
  <2> QED
    BY <2>1, <2>3, <2>4 DEF HooksInv, ReachInv
<1>16. MainUsesWrapper'
  BY <1>1 DEF HooksInv, MainUsesWrapper
<1> QED
  BY <1>7, <1>8, <1>9, <1>10, <1>11, <1>12, <1>13, <1>14, <1>15, <1>16 DEF HooksInv

-----------------------------------------------------------------------------
(* the invariant *)

\* nothing is loaded
LEMMA HooksStart == Init => HooksInv
<1> SUFFICES ASSUME Init
             PROVE  HooksInv
  OBVIOUS
<1> USE DEF Init
<1>1. stack \in Seq(Frame) /\ DOMAIN stack = {}
  OBVIOUS
<1>2. Typed
  BY <1>1 DEF Typed
<1>3. Single /\ BusyInv /\ ExecInv /\ HeldInv /\ LoaderInv
  BY <1>1 DEF Single, BusyInv, ExecInv, HeldInv, LoaderInv
<1>4. BeforeInv /\ HookInv /\ ReachInv /\ MainUsesWrapper
  BY <1>1 DEF BeforeInv, HookInv, ReachInv, MainUsesWrapper
<1> QED
  BY <1>2, <1>3, <1>4 DEF HooksInv

\* the invariant speaks of the state only
LEMMA HooksStutter ==
  ASSUME HooksInv, UNCHANGED vars
  PROVE  HooksInv'
<1>1. UNCHANGED <<mod, attrs, hooked, pending, busy, wrapped, guarded, finder, installed,
                  alias, stack, excused>>
  BY DEF vars, moduleVars, hookVars
<1>2. Typed' /\ Single' /\ BusyInv' /\ ExecInv' /\ HeldInv' /\ LoaderInv'
  BY <1>1 DEF HooksInv, Typed, Single, BusyInv, ExecInv, HeldInv, LoaderInv
<1>3. BeforeInv' /\ HookInv' /\ MainUsesWrapper'
  BY <1>1 DEF HooksInv, BeforeInv, HookInv, MainUsesWrapper
<1>4. ReachInv'
  BY <1>1 DEF HooksInv, ReachInv, Coming
<1> QED
  BY <1>2, <1>3, <1>4 DEF HooksInv

\* every step of Next, by its lemma above
LEMMA HooksNext ==
  ASSUME HooksInv, [Next]_vars
  PROVE  HooksInv'
<1>1. ASSUME NEW t \in Targets, LookedUp(t)
      PROVE  HooksInv'
  BY <1>1, LookedUpKeeps
<1>2. ASSUME NEW t \in Targets, ApplyOk(t)
      PROVE  HooksInv'
  BY <1>2, ApplyOkKeeps
<1>3. ASSUME NEW t \in Targets, ImportFails(t)
      PROVE  HooksInv'
  BY <1>3, ImportFailsKeeps
<1>4. ASSUME NEW t \in Targets, Import(t)
      PROVE  HooksInv'
  BY <1>4, ImportKeeps
<1>5. ASSUME NEW t \in Targets, NEW a \in Defines[t], Define(t, a)
      PROVE  HooksInv'
  BY <1>5, DefineKeeps
<1>6. ASSUME NEW t \in Targets, ReadAttribute(t)
      PROVE  HooksInv'
  BY <1>6, ReadAttributeKeeps
<1>7. ASSUME NEW t \in Targets, BodyEnds(t)
      PROVE  HooksInv'
  <2>1. Top.via \in BOOLEAN
    <3>1. stack # <<>> /\ Top.op = "exec"
      BY <1>7 DEF BodyEnds, AtStep, IsTop
    <3>2. Top \in Frame
      BY <3>1, TopFrame DEF HooksInv
    <3> QED
      BY <3>1, <3>2, FrameFields
  <2>2. CASE Top.via /\ Applicable(t)
    BY <1>7, <2>2, BodyEndsWithCallKeeps
  <2>3. CASE ~(Top.via /\ Applicable(t))
    BY <1>7, <2>3, BodyEndsWithoutCallKeeps
  <2> QED
    BY <2>2, <2>3
<1>8. ASSUME NEW t \in Targets, ImportEnds(t)
      PROVE  HooksInv'
  BY <1>8, ImportEndsKeeps
<1>9. ASSUME NEW t \in Targets, GuardFirst(t)
      PROVE  HooksInv'
  <2>1. CASE mod[t] = "absent"
    BY <1>9, <2>1, GuardAbsentKeeps
  <2>2. CASE mod[t] # "absent" /\ ~Applicable(t)
    BY <1>9, <2>2, GuardWithoutCallKeeps
  <2>3. CASE mod[t] # "absent" /\ Applicable(t)
    BY <1>9, <2>3, GuardWithCallKeeps
  <2> QED
    BY <2>1, <2>2, <2>3
<1>10. ASSUME NEW t \in Targets, GuardThen(t)
       PROVE  HooksInv'
  BY <1>10, GuardThenKeeps
<1>11. CASE Register
  BY <1>11, RegisterKeeps
<1>12. CASE ApplyNotOk
  BY <1>12, ApplyNotOkKeeps
<1>13. CASE Raise
  <2>1. CASE LoaderCalled
    BY <1>13, <2>1, RaiseToLoaderKeeps
  <2>2. CASE Caller("install")
    BY <1>13, <2>2, RaiseToInstallKeeps
  <2>3. CASE ~LoaderCalled /\ ~Caller("install")
    BY <1>13, <2>3, RaiseToReaderKeeps
  <2> QED
    BY <2>1, <2>2, <2>3
<1>14. CASE ImportFlowIntoMain
  BY <1>14, ImportFlowKeeps
<1>15. CASE LoadPlugin
  BY <1>15, LoadPluginKeeps
<1>16. CASE PluginLoaded
  BY <1>16, PluginLoadedKeeps
<1>17. CASE UNCHANGED vars
  BY <1>17, HooksStutter
<1> QED
  BY <1>1, <1>2, <1>3, <1>4, <1>5, <1>6, <1>7, <1>8, <1>9, <1>10, <1>11, <1>12, <1>13,
     <1>14, <1>15, <1>16, <1>17 DEF Next

\* The invariant holds however Hermes' imports, definitions and attribute accesses nest
\* around the plugin's loading, and whatever of defer_hooks.py raises on the way.
THEOREM HooksInvariant == Spec => []HooksInv
<1>1. Init => HooksInv
  BY HooksStart
<1>2. HooksInv /\ [Next]_vars => HooksInv'
  BY HooksNext
<1> QED
  BY <1>1, <1>2, PTL DEF Spec

\* defer_hooks.py 44-143: once install_defer_hooks is through, a loaded target has the
\* wrapper or a class that tries _apply at the next access, unless one of the three known
\* gaps was met for it.  With the list done no install frame is left, and a loaded module
\* has no frame that executes it: what ReachInv promises is due.
THEOREM HooksAreInPlace == Spec => []HookInPlace
<1>1. HooksInv => HookInPlace
  <2> SUFFICES ASSUME HooksInv, NEW t \in Targets, installed, Frames("install") = {},
                      mod[t] = "loaded", t \notin excused
               PROVE  t \in hooked \union guarded
    BY DEF HookInPlace
  <2> USE DEF Executes
  <2>1. CASE t \in wrapped
    BY <2>1 DEF HooksInv, HookInv
  <2>2. CASE t \notin wrapped
    <3>1. t \in pending \ excused
      BY <2>2 DEF HooksInv, HookInv
    <3>2. ~Coming(t)
      BY DEF HooksInv, ExecInv, Coming, Serves, Frames
    <3> QED
      BY <3>1, <3>2 DEF HooksInv, ReachInv
  <2> QED
    BY <2>1, <2>2
<1> QED
  BY <1>1, HooksInvariant, PTL

\* defer_hooks.py 54-65, 123-143: the guard class and the finder are there for pending
\* hooks only, and the finder as long as there is one.
THEOREM MachineryGoes == Spec => []MachineryIsTemporary
<1>1. HooksInv => MachineryIsTemporary
  BY DEF HooksInv, HookInv, MachineryIsTemporary
<1> QED
  BY <1>1, HooksInvariant, PTL

\* flow_shim.py, _patch_main_alias: hermes_cli.main does not keep the unwrapped flow.
THEOREM MainGetsTheWrapper == Spec => []MainUsesWrapper
<1>1. HooksInv => MainUsesWrapper
  BY DEF HooksInv
<1> QED
  BY <1>1, HooksInvariant, PTL

\* the stack is finite
LEMMA FramesAreFinite ==
  ASSUME Typed, NEW S \in SUBSET DOMAIN stack
  PROVE  IsFiniteSet(S)
<1>1. Len(stack) \in Nat /\ DOMAIN stack = 1..Len(stack)
  BY DEF Typed
<1>2. IsFiniteSet(1..Len(stack)) /\ Cardinality(1..Len(stack)) = Len(stack)
  BY <1>1, FS_Interval
<1> QED
  BY <1>1, <1>2, FS_Subset

\* defer_hooks.py 29-65: _busy holds the targets of the _apply calls under way, none of
\* them twice, so no hook runs into itself and none is left out for ever.
THEOREM BusyIsExact == Spec => []BusyIsApplying
<1>1. HooksInv => BusyIsApplying
  <2> SUFFICES ASSUME HooksInv
               PROVE  BusyIsApplying
    OBVIOUS
  <2> DEFINE F == Frames("apply")
             m == [i \in F |-> stack[i].mod]
  <2>1. \A i \in F : i \in DOMAIN stack /\ stack[i].mod \in Targets
    BY FrameFields DEF HooksInv, Typed, Frames
  <2>2. busy = {stack[i].mod : i \in F}
    BY <2>1 DEF HooksInv, Typed, BusyInv, Applies, Frames
  <2>3. m \in Bijection(F, busy)
    <3>1. m \in [F -> busy]
      BY <2>2
    <3>2. \A i, j \in F : m[i] = m[j] => i = j
      BY DEF HooksInv, Single, Frames
    <3>3. \A t \in busy : \E i \in F : m[i] = t
      BY <2>2
    <3> QED
      BY <3>1, <3>2, <3>3, Fun_IsBij
  <2>4. IsFiniteSet(F)
    BY <2>1, FramesAreFinite DEF HooksInv
  <2>5. Cardinality(F) = Cardinality(busy)
    <3> HIDE DEF m, F
    <3> QED
      BY <2>3, <2>4, FS_Bijection DEF ExistsBijection
  <2> QED
    BY <2>2, <2>5 DEF BusyIsApplying
<1> QED
  BY <1>1, HooksInvariant, PTL

\* three targets
LEMMA TargetsAreFinite == IsFiniteSet(Targets) /\ Cardinality(Targets) \in Nat
<1>1. IsFiniteSet({}) /\ IsFiniteSet({} \union {"auth"})
  BY FS_EmptySet, FS_AddElement
<1>2. IsFiniteSet(({} \union {"auth"}) \union {"flows"})
  BY <1>1, FS_AddElement
<1>3. IsFiniteSet((({} \union {"auth"}) \union {"flows"}) \union {"picker"})
  BY <1>2, FS_AddElement
<1>4. Targets = (({} \union {"auth"}) \union {"flows"}) \union {"picker"}
  BY DEF Targets
<1> QED
  BY <1>3, <1>4, FS_CardinalityType

\* what a frame is told from the others by
Slots == (Targets \X {"exec", "apply"}) \union {<<"install", "install">>}

\* at most two frames of each target, and install_defer_hooks
LEMMA SlotsAreFew ==
  IsFiniteSet(Slots) /\ Cardinality(Slots) <= 2 * Cardinality(Targets) + 1
<1> DEFINE P == Targets \X {"exec", "apply"}
<1>1. IsFiniteSet(Targets) /\ Cardinality(Targets) \in Nat
  BY TargetsAreFinite
<1>2. IsFiniteSet({"exec", "apply"}) /\ Cardinality({"exec", "apply"}) = 2
  <2>1. IsFiniteSet({"exec"}) /\ Cardinality({"exec"}) = 1
    BY FS_Singleton
  <2>2. IsFiniteSet({"exec"} \union {"apply"}) /\ Cardinality({"exec"} \union {"apply"}) = 2
    BY <2>1, FS_AddElement
  <2>3. {"exec"} \union {"apply"} = {"exec", "apply"}
    OBVIOUS
  <2> QED
    BY <2>2, <2>3
<1>3. IsFiniteSet(P) /\ Cardinality(P) = 2 * Cardinality(Targets)
  <2>1. /\ IsFiniteSet(P)
        /\ Cardinality(P) = Cardinality(Targets) * Cardinality({"exec", "apply"})
    BY <1>1, <1>2, FS_Product
  <2> HIDE DEF P
  <2> QED
    BY <1>1, <1>2, <2>1
<1> QED
  <2> HIDE DEF P
  <2>1. Slots = P \union {<<"install", "install">>}
    BY DEF Slots, P
  <2>2. /\ IsFiniteSet(Slots)
        /\ \/ Cardinality(Slots) = Cardinality(P)
           \/ Cardinality(Slots) = Cardinality(P) + 1
    BY <1>3, <2>1, FS_AddElement
  <2>3. \A c, p, k \in Nat : p = 2 * c /\ (k = p \/ k = p + 1) => k <= 2 * c + 1
    OBVIOUS
  <2>4. Cardinality(P) \in Nat /\ Cardinality(Slots) \in Nat
    BY <1>3, <2>2, FS_CardinalityType
  <2> QED
    BY <1>1, <1>3, <2>2, <2>3, <2>4

\* Single, counted: every frame has a slot of its own
LEMMA StackIsShallow ==
  ASSUME Typed, Single
  PROVE  Len(stack) <= 2 * Cardinality(Targets) + 1
<1> DEFINE D == DOMAIN stack
           slot == [i \in D |-> IF stack[i].op = "install" THEN <<"install", "install">>
                                ELSE <<stack[i].mod, stack[i].op>>]
<1>1. Len(stack) \in Nat /\ D = 1..Len(stack) /\ \A i \in D : stack[i] \in Frame
  BY DEF Typed
<1>2. slot \in [D -> Slots]
  <2> SUFFICES ASSUME NEW i \in D
               PROVE  slot[i] \in Slots
    OBVIOUS
  <2>1. CASE stack[i].op = "install"
    BY <2>1 DEF Slots
  <2>2. CASE stack[i].op # "install"
    <3>1. stack[i].mod \in Targets /\ stack[i].op \in {"exec", "apply"}
      BY <1>1, <2>2, FrameFields
    <3> QED
      BY <2>2, <3>1 DEF Slots
  <2> QED
    BY <2>1, <2>2
<1>3. \A i, j \in D : slot[i] = slot[j] => i = j
  <2> SUFFICES ASSUME NEW i \in D, NEW j \in D, slot[i] = slot[j]
               PROVE  i = j
    OBVIOUS
  <2>1. stack[i].op = stack[j].op
    OBVIOUS
  <2>2. stack[i].op # "install" => stack[i].mod = stack[j].mod
    BY <2>1
  <2> QED
    BY <2>1, <2>2 DEF Single
<1>4. slot \in Injection(D, Slots)
  <2> HIDE DEF D, slot
  <2> QED
    BY <1>2, <1>3, Fun_IsInj
<1>5. Cardinality(D) = Len(stack)
  BY <1>1, FS_Interval
<1>6. Cardinality(D) <= Cardinality(Slots)
  <2> HIDE DEF D, slot
  <2> QED
    BY <1>4, SlotsAreFew, FS_Injection
<1>7. Cardinality(Slots) \in Nat /\ Cardinality(Targets) \in Nat
  BY SlotsAreFew, TargetsAreFinite, FS_CardinalityType
<1> QED
  <2> HIDE DEF D
  <2> QED
    BY <1>1, <1>5, <1>6, <1>7, SlotsAreFew

\* The types of the state, and the depth of the stack: a module is executed once and an
\* _apply entered once at a time, and there is one install_defer_hooks.
THEOREM HooksAreTyped == Spec => []TypeOK
<1>1. HooksInv => TypeOK
  <2> SUFFICES ASSUME HooksInv
               PROVE  TypeOK
    OBVIOUS
  <2>1. Len(stack) <= 2 * Cardinality(Targets) + 1
    BY StackIsShallow DEF HooksInv
  <2>2. \A t \in hooked \union guarded : t \in Targets /\ mod[t] # "absent"
    BY DEF HooksInv, HookInv
  <2>3. pending \subseteq Targets
    BY DEF HooksInv, HookInv
  <2> QED
    BY <2>1, <2>2, <2>3 DEF HooksInv, Typed, TypeOK
<1> QED
  BY <1>1, HooksInvariant, PTL

=============================================================================
