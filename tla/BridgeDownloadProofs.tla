------------------------ MODULE BridgeDownloadProofs ------------------------
(***************************************************************************)
(* For any number of overlapping downloads: the managed directory is never *)
(* half written, when it is missing its bridge is in a backup, and one     *)
(* that fails before its bridge is in place has changed nothing.           *)
(***************************************************************************)
EXTENDS BridgeDownload, TLAPS

IInv == TypeOK /\ ManagedIsWhole /\ MissingIsHeld

\* A download that holds the missing bridge goes on holding it in a step of another.
LEMMA HeldByOther ==
    ASSUME TypeOK, NEW d \in Downloads, NEW e \in Downloads, e # d, Holds(e),
           pc'[e] = pc[e], backup'[e] = backup[e]
    PROVE  Holds(e)'
BY DEF Holds

\* The initial states satisfy the invariant: nothing is torn, and a bridge that was
\* ever there is there.
LEMMA InitInv == Init => IInv
BY DownloadAssumption
   DEF Init, IInv, TypeOK, ManagedIsWhole, MissingIsHeld, Whole, Ended, Raised

\* Every step preserves the invariant.
LEMMA StepInv == IInv /\ [Next]_vars => IInv'
<1> SUFFICES ASSUME IInv, [Next]_vars PROVE IInv'
  OBVIOUS
<1> USE DownloadAssumption DEF IInv
<1>1. CASE UNCHANGED vars
  BY <1>1 DEF vars, TypeOK, ManagedIsWhole, MissingIsHeld, Holds
<1>2. ASSUME NEW d \in Downloads, Download(d) PROVE IInv'
  <2>1. CASE Fetch(d) \/ Look(d) \/ SwapFails(d) \/ Crash(d)
    <3>1. TypeOK'
      BY <2>1 DEF Fetch, Look, SwapFails, Crash, Goto, TypeOK, ManagedIsWhole, Whole, Ended, Raised
    <3>2. ManagedIsWhole'
      BY <2>1 DEF Fetch, Look, SwapFails, Crash, ManagedIsWhole
    <3>3. MissingIsHeld'
      <4>1. SUFFICES ASSUME NEW e \in Downloads, Holds(e) PROVE Holds(e)'
        BY <2>1 DEF Fetch, Look, SwapFails, Crash, MissingIsHeld
      <4>2. CASE e = d
        BY <2>1, <4>1, <4>2
           DEF Fetch, Look, SwapFails, Crash, Goto, TypeOK, Holds, Ended, Raised
      <4>3. CASE e # d
        BY <2>1, <4>1, <4>3, HeldByOther
           DEF Fetch, Look, SwapFails, Crash, Goto, TypeOK
      <4> QED BY <4>2, <4>3
    <3> QED BY <3>1, <3>2, <3>3
  <2>2. CASE Stage(d) \/ StageFails(d)
    <3>1. TypeOK'
      BY <2>2 DEF Stage, Unpack, StageFails, Goto, TypeOK, Whole, Ended, Raised
    <3>2. ManagedIsWhole'
      BY <2>2 DEF Stage, Unpack, StageFails, ManagedIsWhole
    <3>3. MissingIsHeld'
      <4>1. SUFFICES ASSUME NEW e \in Downloads, Holds(e) PROVE Holds(e)'
        BY <2>2 DEF Stage, Unpack, StageFails, MissingIsHeld
      <4>2. e # d
        BY <2>2, <4>1 DEF Stage, Unpack, StageFails, Goto, Holds
      <4> QED
        BY <2>2, <4>1, <4>2, HeldByOther DEF Stage, Unpack, StageFails, Goto, TypeOK
    <3> QED BY <3>1, <3>2, <3>3
  <2>3. CASE SaveOld(d)
    <3>1. TypeOK'
      BY <2>3 DEF SaveOld, Take, Goto, TypeOK, ManagedIsWhole, Whole, Ended, Raised
    <3>2. ManagedIsWhole'
      BY <2>3 DEF SaveOld, Take, ManagedIsWhole
    <3>3. Holds(d)'
      BY <2>3 DEF SaveOld, Take, Goto, TypeOK, ManagedIsWhole, Holds, Whole
    <3> QED BY <3>1, <3>2, <3>3 DEF MissingIsHeld
  <2>4. CASE Publish(d)
    <3>1. TypeOK'
      BY <2>4 DEF Publish, Goto, TypeOK, Whole, Ended, Raised
    <3>2. managed' = d
      BY <2>4 DEF Publish, Goto, TypeOK
    <3> QED BY <3>1, <3>2 DEF ManagedIsWhole, MissingIsHeld, TypeOK, Whole
  <2>5. CASE Restore(d)
    <3>1. TypeOK'
      BY <2>5 DEF Restore, PutBack, TypeOK, Whole, Ended, Raised
    <3>2. ManagedIsWhole'
      BY <2>5 DEF Restore, PutBack, TypeOK, ManagedIsWhole
    <3>3. MissingIsHeld'
      <4>1. SUFFICES ASSUME had, managed' = None, managed = None
                     PROVE  \E e \in Downloads : Holds(e)'
        BY <2>5 DEF Restore, PutBack, MissingIsHeld
      <4>2. PICK e \in Downloads : Holds(e)
        BY <4>1 DEF MissingIsHeld
      <4>3. CASE e = d
        BY <2>5, <4>1, <4>2, <4>3 DEF Restore, PutBack, TypeOK, Holds, Whole
      <4>4. CASE e # d
        BY <2>5, <4>2, <4>4, HeldByOther DEF Restore, PutBack, TypeOK
      <4> QED BY <4>3, <4>4
    <3> QED BY <3>1, <3>2, <3>3
  <2>6. CASE Discard(d)
    <3>1. TypeOK'
      BY <2>6 DEF Discard, Goto, TypeOK, Whole, Ended, Raised
    <3>2. ManagedIsWhole'
      BY <2>6 DEF Discard, ManagedIsWhole
    <3>3. MissingIsHeld'
      <4>1. SUFFICES ASSUME NEW e \in Downloads, Holds(e) PROVE Holds(e)'
        BY <2>6 DEF Discard, MissingIsHeld
      <4>2. e # d
        BY <2>6, <4>1 DEF Discard, Goto, Holds
      <4> QED
        BY <2>6, <4>1, <4>2, HeldByOther DEF Discard, Goto, TypeOK
    <3> QED BY <3>1, <3>2, <3>3
  <2> QED BY <1>2, <2>1, <2>2, <2>3, <2>4, <2>5, <2>6 DEF Download
<1> QED BY <1>1, <1>2 DEF Next

\* The three invariants together, for every set of downloads.
THEOREM Invariance == Spec => []IInv
BY InitInv, StepInv, PTL DEF Spec

\* Every variable keeps its type, and a bridge about to be put in place is unpacked.
THEOREM TypeCorrect == Spec => []TypeOK
BY Invariance, PTL DEF IInv

\* No incomplete bridge is ever in the managed directory.
THEOREM ManagedStaysWhole == Spec => []ManagedIsWhole
BY Invariance, PTL DEF IInv

\* The last bridge is never lost, however many downloads overlap and are killed.
THEOREM LastBridgeIsKept == Spec => []MissingIsHeld
BY Invariance, PTL DEF IInv

-----------------------------------------------------------------------------
(* A download alone in its swap.  What it finds and leaves is followed from    *)
(* step to step as long as no other has left the steps before the swap, to     *)
(* which none returns.                                                         *)

Before == {"fetch", "stage", "staging", "look", "save", "refused"}

Alone(d) == \A e \in Downloads \ {d} : pc[e] \in Before

Untouched == managed = IF had THEN Old ELSE None

\* between the two renames, or before the first of a download that found nothing
BetweenRenames(d) == \/ backup[d] = None /\ Untouched
                     \/ backup[d] = Old /\ managed = None /\ had

InPlace(d) == staged[d] = None /\ managed = d

SoloInv == \A d \in Downloads :
    /\ pc[d] \in Before => backup[d] = None
    /\ Alone(d) =>
        /\ pc[d] \in Before \union {"failed"} => Untouched
        /\ pc[d] = "publish" => BetweenRenames(d)
        /\ pc[d] = "published" => InPlace(d)
        /\ pc[d] = "restore" => (staged[d] = d /\ BetweenRenames(d)) \/ InPlace(d)

LEMMA SoloInit == Init => SoloInv
BY DEF Init, SoloInv, Alone, Before, Untouched, BetweenRenames, InPlace

LEMMA SoloStep == TypeOK /\ SoloInv /\ [Next]_vars => SoloInv'
<1> SUFFICES ASSUME TypeOK, SoloInv, [Next]_vars PROVE SoloInv'
  OBVIOUS
<1> USE DownloadAssumption
<1>1. CASE UNCHANGED vars
  BY <1>1 DEF vars, SoloInv, Alone, Before, Untouched, BetweenRenames, InPlace
<1>2. ASSUME NEW d \in Downloads, Download(d) PROVE SoloInv'
  <2>1. \A e \in Downloads : pc'[e] \in Before => pc[e] \in Before /\ backup'[e] = backup[e]
    BY <1>2 DEF Download, Fetch, Stage, Unpack, StageFails, Look, SaveOld, Take, Publish,
       SwapFails, Restore, PutBack, Discard, Crash, Goto, TypeOK, Before, Ended, Raised
  <2>2. \A e \in Downloads \ {d} :
           pc'[e] = pc[e] /\ staged'[e] = staged[e] /\ backup'[e] = backup[e]
    BY <1>2 DEF Download, Fetch, Stage, Unpack, StageFails, Look, SaveOld, Take, Publish,
       SwapFails, Restore, PutBack, Discard, Crash, Goto, TypeOK
  <2>3. ASSUME NEW e \in Downloads \ {d}, Alone(e)' PROVE UNCHANGED <<managed, had>>
    BY <1>2, <2>3 DEF Alone, Download, Fetch, Stage, Unpack, StageFails, Look, SaveOld,
       Take, Publish, SwapFails, Restore, PutBack, Discard, Crash, Goto, TypeOK, Before
  <2>4. ASSUME NEW e \in Downloads, Alone(e)' PROVE Alone(e)
    BY <2>1, <2>4 DEF Alone
  <2>5. ASSUME Alone(d), Alone(d)'
        PROVE  /\ pc'[d] \in Before \union {"failed"} => Untouched'
               /\ pc'[d] = "publish" => BetweenRenames(d)'
               /\ pc'[d] = "published" => InPlace(d)'
               /\ pc'[d] = "restore" => ((staged[d] = d /\ BetweenRenames(d)) \/ InPlace(d))'
    <3> USE <2>5 DEF SoloInv, Before, Untouched, BetweenRenames, InPlace, TypeOK, Goto
    <3>1. CASE Fetch(d) \/ Stage(d) \/ StageFails(d)
      BY <3>1 DEF Fetch, Stage, Unpack, StageFails
    <3>2. CASE Look(d)
      BY <3>2 DEF Look
    <3>3. CASE SaveOld(d)
      BY <3>3 DEF SaveOld, Take
    <3>4. CASE Publish(d)
      BY <3>4 DEF Publish
    <3>5. CASE SwapFails(d)
      BY <3>5 DEF SwapFails
    <3>6. CASE Restore(d)
      BY <3>6 DEF Restore, PutBack
    <3>7. CASE Discard(d) \/ Crash(d)
      BY <3>7 DEF Discard, Crash, Ended, Raised
    <3> QED BY <1>2, <3>1, <3>2, <3>3, <3>4, <3>5, <3>6, <3>7 DEF Download
  <2>6. ASSUME NEW e \in Downloads \ {d}, Alone(e)'
        PROVE  /\ pc'[e] \in Before \union {"failed"} => Untouched'
               /\ pc'[e] = "publish" => BetweenRenames(e)'
               /\ pc'[e] = "published" => InPlace(e)'
               /\ pc'[e] = "restore" => ((staged[e] = e /\ BetweenRenames(e)) \/ InPlace(e))'
    BY <2>2, <2>3, <2>4, <2>6 DEF SoloInv, Untouched, BetweenRenames, InPlace
  <2> QED BY <2>1, <2>4, <2>5, <2>6 DEF SoloInv
<1> QED BY <1>1, <1>2 DEF Next

\* A download that failed before its bridge was in place changed nothing, whatever the
\* others do up to their own swap.
THEOREM FailedChangesNothing == Spec => []FailureChangesNothing
<1>1. SoloInv => FailureChangesNothing
  BY DEF SoloInv, Alone, Before, Untouched, FailureChangesNothing
<1>2. Spec => []SoloInv
  BY SoloInit, SoloStep, TypeCorrect, PTL DEF Spec
<1> QED BY <1>1, <1>2, PTL

=============================================================================
