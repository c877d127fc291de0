-------------------------- MODULE CredentialStore ---------------------------
(***************************************************************************)
(* The credential store ~/.cursor/sdk/auth.json and the logins that write  *)
(* it: save_sdk_credentials, clear_sdk_credentials, read_sdk_credentials   *)
(* and login (plugin/model-providers/cursor/cursor_sdk_auth.py), and the   *)
(* setup flow's _login_cursor_oauth (setup_flow.py), which with            *)
(* force_new_login clears the store first and restores it on failure.      *)
(*                                                                         *)
(* Every save goes through one temporary name, auth.json.tmp, so a file is *)
(* kept apart from its name: a writer's handle stays on the file it opened *)
(* when the name is given to something else.  A file is named by the login *)
(* that created it and whether it did so while restoring.                  *)
(***************************************************************************)
EXTENDS Naturals

CONSTANTS Logins,      \* the login runs
          Forced,      \* those with force_new_login
          Overlap,     \* whether logins may overlap
          None, Old

Keys == Logins \union {Old}    \* the key of before, and the one each login mints
Unreadable == {"empty", "torn", "stale"}  \* stale: expired, or not version 1
First == <<Old, FALSE>>
Files == Keys \X BOOLEAN

ASSUME CredentialAssumption ==
    /\ Forced \subseteq Logins
    /\ Overlap \in BOOLEAN
    /\ Old \notin Logins /\ None \notin Keys \union Files
    /\ Keys \cap Unreadable = {}

VARIABLES
    auth,       \* the file at auth.json, or None
    tmp,        \* the file at auth.json.tmp, or None
    content,    \* content[f]: the key in file f, or why there is none
    handle,     \* handle[l]: the file l has opened for writing, or None
    backup,     \* backup[l]: the key l read before clearing, or None
    missed,     \* history: the key that l could not read before clearing, or None
    restoring,  \* the logins in the except clause
    newest,     \* the key stored last by a login that has not failed since, or
                \* the one of before
    pc          \* pc[l]

names == <<auth, tmp>>
vars == <<names, content, handle, backup, missed, restoring, newest, pc>>

Ended == {"done", "failed", "unrestored", "escaped", "crashed"}

Init ==
    /\ auth \in {First, None} /\ tmp = None
    /\ \E old \in {Old, "stale"} :
          content = [f \in Files |-> IF f = First THEN old ELSE "empty"]
    /\ newest = IF auth = First /\ content[First] = Old THEN Old ELSE None
    /\ handle = [l \in Logins |-> None]
    /\ backup = [l \in Logins |-> None] /\ missed = [l \in Logins |-> None]
    /\ restoring = {}
    /\ pc = [l \in Logins |-> "start"]

Goto(l, from, to) == pc[l] = from /\ pc' = [pc EXCEPT ![l] = to]

-----------------------------------------------------------------------------
\* the store holds a key that read_sdk_credentials takes
Readable == auth # None /\ content[auth] \in Keys

Stored == IF Readable THEN content[auth] ELSE None

\* what a forced login sees before it clears the store: an OSError is taken for no key
Begin(l) ==
    /\ Overlap \/ \A m \in Logins : pc[m] \in Ended \union {"start"}
    /\ Goto(l, "start", IF l \in Forced THEN "clear" ELSE "browser")
    /\ \E read \in {Stored, None} :
          /\ backup' = [backup EXCEPT ![l] = IF l \in Forced THEN read ELSE None]
          /\ missed' = [missed EXCEPT ![l] =
                  IF l \in Forced /\ read # Stored THEN Stored ELSE None]
    /\ UNCHANGED <<names, content, handle, restoring, newest>>

\* unlink; a failure of it is not looked at
Clear(l) ==
    /\ Goto(l, "clear", "browser")
    /\ auth' \in {None, auth}
    /\ UNCHANGED <<tmp, content, handle, backup, missed, restoring, newest>>

\* an interruption while the store is being cleared, before the try statement
ClearInterrupted(l) ==
    /\ Goto(l, "clear", "escaped")
    /\ auth' \in {None, auth}
    /\ UNCHANGED <<tmp, content, handle, backup, missed, restoring, newest>>

\* handshake, poll and mint: a key, or an exception
Browser(l) ==
    /\ Goto(l, "browser", "open")
    /\ UNCHANGED <<names, content, handle, backup, missed, restoring, newest>>

\* save_sdk_credentials: open auth.json.tmp, creating or truncating it
OpenAt(l, name, newAuth, newTmp) ==
    /\ Goto(l, "open", "write")
    /\ handle' = [handle EXCEPT ![l] = name]
    /\ content' = [content EXCEPT ![name] = "empty"]
    /\ auth' = newAuth /\ tmp' = newTmp
    /\ UNCHANGED <<backup, missed, restoring, newest>>

NewFile(l) == <<l, l \in restoring>>

\* mutant: auth.json itself is opened
OpenInPlace(l) ==
    LET f == IF auth = None THEN NewFile(l) ELSE auth IN OpenAt(l, f, f, f)

Open(l) ==
    LET f == IF tmp = None THEN NewFile(l) ELSE tmp IN OpenAt(l, f, auth, f)

\* write the key from the start of the file: over what another handle wrote since it
\* was truncated, the end of which may stay
Write(l) ==
    LET key == IF l \in restoring THEN backup[l] ELSE l
        written == IF content[handle[l]] = "empty" THEN {key} ELSE {key, "torn"} IN
    /\ Goto(l, "write", "replace")
    /\ \E c \in written : content' = [content EXCEPT ![handle[l]] = c]
    /\ UNCHANGED <<names, handle, backup, missed, restoring, newest>>

\* chmod and replace: auth.json.tmp, whichever file it now is, becomes auth.json
ReplaceBy(l, left) ==
    /\ tmp # None
    /\ Goto(l, "replace", IF l \in restoring THEN "failed" ELSE "saved")
    /\ auth' = tmp /\ tmp' = left
    /\ handle' = [handle EXCEPT ![l] = None]
    /\ newest' = IF l \in restoring THEN newest ELSE l
    /\ UNCHANGED <<content, backup, missed, restoring>>

LinkTmp(l) == ReplaceBy(l, tmp)  \* mutant: the temporary name is kept

Replace(l) == ReplaceBy(l, None)

\* mutant: finally for except
FinishRestoring(l) ==
    /\ Goto(l, "saved", IF backup[l] = None THEN "done" ELSE "open")
    /\ restoring' = IF backup[l] = None THEN restoring ELSE restoring \union {l}
    /\ UNCHANGED <<names, content, handle, backup, missed, newest>>

Finish(l) ==
    /\ Goto(l, "saved", "done")
    /\ UNCHANGED <<names, content, handle, backup, missed, restoring, newest>>

\* an exception or an interruption: the login restores what it cleared, if that was a
\* key; a second one, in the restoration, goes out
RaiseTo(l, restore) ==
    /\ pc[l] \in {"browser", "open", "write", "replace", "saved"}
    /\ newest' = IF pc[l] = "saved" /\ backup[l] # None THEN backup[l] ELSE newest
    /\ IF l \in restoring
       THEN pc' = [pc EXCEPT ![l] = "unrestored"] /\ UNCHANGED restoring
       ELSE IF restore THEN pc' = [pc EXCEPT ![l] = "open"]
                            /\ restoring' = restoring \union {l}
                       ELSE pc' = [pc EXCEPT ![l] = "failed"] /\ UNCHANGED restoring
    /\ handle' = [handle EXCEPT ![l] = None]
    /\ UNCHANGED <<names, content, backup, missed>>

RaiseOnly(l) == RaiseTo(l, FALSE)  \* mutant: nothing is restored

Raise(l) == RaiseTo(l, backup[l] # None)

\* a kill; a leftover auth.json.tmp stays
Crash(l) ==
    /\ pc[l] \notin Ended \union {"start"}
    /\ pc' = [pc EXCEPT ![l] = "crashed"]
    /\ UNCHANGED <<names, content, handle, backup, missed, restoring, newest>>

Login(l) ==
    \/ Begin(l) \/ Clear(l) \/ ClearInterrupted(l) \/ Browser(l)
    \/ Open(l) \/ Write(l) \/ Replace(l) \/ Finish(l) \/ Raise(l) \/ Crash(l)

Next == \E l \in Logins : Login(l)

Spec == Init /\ [][Next]_vars

-----------------------------------------------------------------------------
(* Properties *)

TypeOK ==
    /\ auth \in Files \union {None} /\ tmp \in Files \union {None}
    /\ auth = tmp => auth = None
    /\ content \in [Files -> Keys \union Unreadable]
    /\ handle \in [Logins -> Files \union {None}]
    /\ \A l \in Logins : pc[l] = "write" => handle[l] # None
    /\ backup \in [Logins -> Keys \union {None}]
    /\ missed \in [Logins -> Keys \union {None}]
    /\ restoring \subseteq Forced
    /\ newest \in Keys \union {None}
    /\ pc \in [Logins -> {"start", "clear", "browser", "open", "write", "replace",
                          "saved"} \union Ended]

\* auth.json is never seen half written, wherever a save stops, also when the next
\* one finds the temporary file of a killed one (logins one at a time).
StoreIsWhole == auth # None => content[auth] \notin {"empty", "torn"}

\* What the store holds is the newest key: restoring after a failed login never
\* brings back a key older than one a successful login stored since; only the key of a
\* login interrupted after saving it may be there in between (logins one at a time).
NewestIsStored ==
    Readable => \/ content[auth] = newest
                \/ \E l \in restoring : content[auth] = l /\ pc[l] # "failed"

\* The newest key goes missing only while a login that cleared it has it in memory, or
\* was killed or interrupted in clearing, or could not restore it; or if that login
\* could not read it before clearing.  Nothing else in the browser login or in saving
\* the new key loses the old one (logins one at a time).
MissingIsRemembered ==
    newest # None /\ ~Readable =>
        \E l \in Forced : \/ missed[l] = newest
                          \/ backup[l] = newest /\ pc[l] \notin {"start", "done", "failed"}

\* "one login covers every SDK consumer on the machine" (cursor_sdk_auth.py:254-255):
\* a login that reported success is found by read_sdk_credentials.
LoginCovers ==
    /\ \A l \in Logins : pc[l] \in {"done", "failed"}
    /\ \E l \in Logins : pc[l] = "done"
    => Readable

=============================================================================
