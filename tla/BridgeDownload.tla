--------------------------- MODULE BridgeDownload ---------------------------
(***************************************************************************)
(* download_bridge (plugin/model-providers/cursor/                         *)
(* cursor_bridge_transport.py): a bridge archive is fetched, verified and  *)
(* unpacked beside the managed directory, then takes its place by two      *)
(* renames, the first of which keeps what was there.  Nothing serialises   *)
(* downloads: several setup flows may run in the same Hermes home.         *)
(*                                                                         *)
(* A directory is known by whose content it has: None when absent, Torn    *)
(* when half written or half removed, Old for the bridge of before, the    *)
(* download for what that download unpacked.                               *)
(***************************************************************************)
CONSTANTS Downloads, None, Torn, Old

ASSUME DownloadAssumption ==
    /\ {None, Torn, Old} \intersect Downloads = {}
    /\ None # Torn /\ None # Old /\ Torn # Old

VARIABLES
    managed,   \* <HERMES_HOME>/cursor-sdk-bridge
    had,       \* whether a bridge was ever in managed
    staged,    \* staged[d]: the directory "extracted" in d's staging directory
    backup,    \* backup[d]: "previous" in d's backup directory
    pc         \* pc[d]

vars == <<managed, had, staged, backup, pc>>

Raised == {"refused", "failed", "unrestored", "late"}
Ended == Raised \union {"done", "crashed"}

Init ==
    /\ managed \in {None, Old} /\ had = (managed # None)
    /\ staged = [d \in Downloads |-> None]
    /\ backup = [d \in Downloads |-> None]
    /\ pc = [d \in Downloads |-> "fetch"]

Goto(d, from, to) == pc[d] = from /\ pc' = [pc EXCEPT ![d] = to]

-----------------------------------------------------------------------------
\* no pinned digest for this platform, no archive, or an archive with another digest
Fetch(d) ==
    /\ Goto(d, "fetch", "stage") \/ Goto(d, "fetch", "refused")
    /\ UNCHANGED <<managed, had, staged, backup>>

\* unpack the archive and check manifest and launcher
Unpack(d, next) ==
    /\ \/ Goto(d, "stage", "staging") /\ staged' = [staged EXCEPT ![d] = Torn]
       \/ Goto(d, "staging", next) /\ staged' = [staged EXCEPT ![d] = d]
    /\ UNCHANGED <<managed, had, backup>>

\* mutant: unpacked in the managed directory itself
StageInPlace(d) ==
    /\ \/ Goto(d, "stage", "staging") /\ managed' = Torn
       \/ Goto(d, "staging", "published") /\ managed' = d
    /\ UNCHANGED <<had, staged, backup>>

\* mutant: the archive's content is not checked
StageUnchecked(d) ==
    /\ Goto(d, "stage", "look") /\ staged' = [staged EXCEPT ![d] = Torn]
    /\ UNCHANGED <<managed, had, backup>>

Stage(d) == Unpack(d, "look")

\* unpacking fails or is interrupted: the staging directory goes
StageFails(d) ==
    /\ Goto(d, "stage", "refused") \/ Goto(d, "staging", "refused")
    /\ staged' = [staged EXCEPT ![d] = None]
    /\ UNCHANGED <<managed, had, backup>>

\* is there something in the managed directory's place?
Look(d) ==
    /\ Goto(d, "look", IF managed = None THEN "publish" ELSE "save")
    /\ UNCHANGED <<managed, had, staged, backup>>

\* rename it into a backup directory of this download
Take(d, saved) ==
    /\ Goto(d, "save", "publish") /\ managed # None
    /\ backup' = [backup EXCEPT ![d] = saved]
    /\ managed' = None
    /\ UNCHANGED <<had, staged>>

RemoveOld(d) == Take(d, None)  \* mutant: removed instead of renamed

SaveOld(d) == Take(d, managed)

\* rename the unpacked bridge, which needs the place to be free
Publish(d) ==
    /\ Goto(d, "publish", "published") /\ managed = None
    /\ managed' = staged[d] /\ had' = TRUE
    /\ staged' = [staged EXCEPT ![d] = None]
    /\ UNCHANGED backup

\* a rename raises, as it must when another download took or filled the place, or an
\* interruption comes before the try statement is left
SwapFails(d) ==
    /\ \E from \in {"save", "publish", "published"} : Goto(d, from, "restore")
    /\ UNCHANGED <<managed, had, staged, backup>>

\* put back what was renamed away, if the place is free; else keep the backup.
\* With nothing to put back the exception goes on, too late if d's bridge is in place
PutBack(d, left) ==
    /\ pc[d] = "restore"
    /\ \/ /\ backup[d] # None /\ managed = None
          /\ managed' = backup[d]
          /\ backup' = [backup EXCEPT ![d] = None]
          /\ pc' = [pc EXCEPT ![d] = "failed"]
       \/ /\ backup[d] # None
          /\ UNCHANGED managed
          /\ backup' = [backup EXCEPT ![d] = left]
          /\ pc' = [pc EXCEPT ![d] = "unrestored"]
       \/ /\ backup[d] = None
          /\ UNCHANGED <<managed, backup>>
          /\ pc' = [pc EXCEPT ![d] = IF staged[d] = None THEN "late" ELSE "failed"]
    /\ staged' = [staged EXCEPT ![d] = None]
    /\ UNCHANGED had

\* mutant: the backup directory is removed also when the restoration failed
RestoreAndDiscard(d) == PutBack(d, None)

\* mutant: no restoration
RaiseOnly(d) ==
    /\ Goto(d, "restore", "failed")
    /\ staged' = [staged EXCEPT ![d] = None]
    /\ UNCHANGED <<managed, had, backup>>

Restore(d) == PutBack(d, backup[d])

\* remove the backup; an exception, an interruption or a kill may leave part of it
Discard(d) ==
    /\ \/ Goto(d, "published", "done") /\ backup' = [backup EXCEPT ![d] = None]
       \/ /\ backup[d] # None
          /\ Goto(d, "published", "late") \/ Goto(d, "published", "crashed")
          /\ backup' = [backup EXCEPT ![d] = Torn]
    /\ UNCHANGED <<managed, had, staged>>

\* a kill, or a second interruption; staging and backup directories stay
Crash(d) ==
    /\ pc[d] \notin Ended
    /\ pc' = [pc EXCEPT ![d] = "crashed"]
    /\ UNCHANGED <<managed, had, staged, backup>>

Download(d) ==
    \/ Fetch(d) \/ Stage(d) \/ StageFails(d) \/ Look(d) \/ SaveOld(d) \/ Publish(d)
    \/ SwapFails(d) \/ Restore(d) \/ Discard(d) \/ Crash(d)

Next == \E d \in Downloads : Download(d)

Spec == Init /\ [][Next]_vars

-----------------------------------------------------------------------------
(* Properties *)

Whole == Downloads \union {Old}

TypeOK ==
    /\ managed \in Whole \union {None, Torn}
    /\ had \in BOOLEAN
    /\ staged \in [Downloads -> Whole \union {None, Torn}]
    /\ backup \in [Downloads -> Whole \union {None, Torn}]
    /\ pc \in [Downloads -> {"fetch", "stage", "staging", "look", "save", "publish",
                             "published", "restore"} \union Ended]
    /\ \A d \in Downloads :
          /\ pc[d] \in {"look", "save", "publish"} => staged[d] = d
          /\ backup[d] = Torn => pc[d] \in {"late", "crashed"}

\* "Keep incomplete archives out of the managed path, including on interruption"
\* (cursor_bridge_transport.py:315), however downloads overlap and wherever one of
\* them is killed.
ManagedIsWhole == managed # Torn

\* d has the bridge that was in the managed directory and has not been replaced
Holds(d) ==
    backup[d] \in Whole /\ pc[d] \in {"publish", "restore", "unrestored", "crashed"}

\* The managed directory goes missing only while a download is between its two
\* renames, was killed there or could not restore it ("Retain the backup if
\* restoration itself fails, for recovery", :363), and a whole bridge is then in
\* the backup of that download: no overlap of downloads loses the last one.
MissingIsHeld == had /\ managed = None => \E d \in Downloads : Holds(d)

\* A download that failed before its bridge was in place changed nothing
\* (tests/test_transport.py:266-269), also if others are under way, as long as none of
\* them has come to its own swap.
FailureChangesNothing ==
    \A d \in Downloads :
        /\ pc[d] \in {"refused", "failed"}
        /\ \A e \in Downloads \ {d} :
              pc[e] \in {"fetch", "stage", "staging", "look", "save", "refused"}
        => managed = IF had THEN Old ELSE None

=============================================================================
