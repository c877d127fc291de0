---------------------------- MODULE LoginProofs -----------------------------
(***************************************************************************)
(* The credential store through any number of logins one after the other,  *)
(* each of which may fail, be interrupted or be killed anywhere, and the   *)
(* poll each of them waits in.                                             *)
(*                                                                         *)
(* The invariants of the store are not inductive.  What is added: only one *)
(* login is under way (OneLogin), the name of a file it has yet to create  *)
(* is nowhere in use (NamesAreFresh), how far the file behind auth.json.tmp *)
(* has been written at each step of a save (SaveInv), and that a key in    *)
(* memory is the newest or the key of a login that could not undo its save *)
(* while it remembers the newest (BackupInv, Current); what a login is     *)
(* about to clear, it has in memory or failed to read.                     *)
(***************************************************************************)
EXTENDS Login, TLAPS

Active == {"clear", "browser", "open", "write", "replace", "saved"}

OneLogin == \A l, m \in Logins : pc[l] \in Active /\ pc[m] \in Active => l = m

\* the files that a login creates when it saves, and when it restores
SaveFile(l) == <<l, FALSE>>
RestoreFile(l) == <<l, TRUE>>

NamesAreFresh == \A l \in Logins :
    /\ l \notin restoring => RestoreFile(l) \notin {auth, tmp}
    /\ l \notin restoring /\ pc[l] \in {"start", "clear", "browser", "open"} =>
           SaveFile(l) \notin {auth, tmp}
    /\ l \in restoring /\ pc[l] = "open" => RestoreFile(l) \notin {auth, tmp}

SaveInv == \A l \in Logins :
    /\ pc[l] = "write" =>
           tmp # None /\ handle[l] = tmp /\ content[tmp] = "empty"
    /\ pc[l] = "replace" =>
           tmp # None /\ content[tmp] = IF l \in restoring THEN backup[l] ELSE l
    /\ pc[l] = "saved" =>
           l \notin restoring /\ auth # None /\ content[auth] = l /\ newest = l

\* A key is current if it is the newest one, or was saved by a login that was then
\* interrupted and has not restored the newest, which it has in memory.
Current(k) == \/ k = newest
              \/ k \in restoring /\ pc[k] # "failed" /\ backup[k] = newest

BackupInv ==
    /\ \A l \in Logins :
        /\ backup[l] # None \/ missed[l] # None => l \in Forced /\ pc[l] # "start"
        /\ l \in restoring =>
               backup[l] # None /\ pc[l] \notin {"start", "clear", "browser", "done"}
        /\ pc[l] = "clear" => l \in Forced /\ (Readable => content[auth] \in {backup[l], missed[l]})
        /\ pc[l] \in Active \ {"saved"} => backup[l] = None \/ Current(backup[l])
        /\ backup[l] \in Logins => pc[backup[l]] \in Ended
    /\ \A f \in Files : content[f] \in Logins => pc[content[f]] # "start"

StoredInv == Readable => Current(content[auth])

StoreInv ==
    /\ TypeOK /\ OneLogin /\ NamesAreFresh /\ SaveInv /\ BackupInv
    /\ StoreIsWhole /\ StoredInv /\ MissingIsRemembered

USE CredentialAssumption

-----------------------------------------------------------------------------
(* The store *)

\* The file that a save creates has a name of its own.
LEMMA NamesOfFiles ==
    /\ First \in Files
    /\ \A l \in Logins :
        /\ NewFile(l) \in Files
        /\ l \in restoring => NewFile(l) = RestoreFile(l)
        /\ l \notin restoring => NewFile(l) = SaveFile(l)
        /\ \A m \in Logins :
            /\ SaveFile(l) # RestoreFile(m)
            /\ l # m => SaveFile(l) # SaveFile(m) /\ RestoreFile(l) # RestoreFile(m)
        /\ None \notin {SaveFile(l), RestoreFile(l)}
<1>1. First \in Files
  BY DEF First, Files, Keys
<1>2. ASSUME NEW l \in Logins, l \in restoring PROVE NewFile(l) = RestoreFile(l)
  <2>1. (l \in restoring) = TRUE
    BY <1>2
  <2> QED BY <2>1, Zenon DEF NewFile, SaveFile, RestoreFile
<1>3. ASSUME NEW l \in Logins, l \notin restoring PROVE NewFile(l) = SaveFile(l)
  <2>1. (l \in restoring) = FALSE
    BY <1>3
  <2> QED BY <2>1, Zenon DEF NewFile, SaveFile, RestoreFile
<1>4. ASSUME NEW l \in Logins PROVE SaveFile(l) \in Files /\ RestoreFile(l) \in Files
  BY DEF Files, Keys, SaveFile, RestoreFile
<1>5. ASSUME NEW l \in Logins, NEW m \in Logins
      PROVE /\ SaveFile(l) # RestoreFile(m)
            /\ l # m => SaveFile(l) # SaveFile(m) /\ RestoreFile(l) # RestoreFile(m)
  BY DEF SaveFile, RestoreFile
<1>6. ASSUME NEW l \in Logins PROVE None \notin {SaveFile(l), RestoreFile(l)}
  BY <1>4
<1> QED BY <1>1, <1>2, <1>3, <1>4, <1>5, <1>6, Zenon

LEMMA BeginKeeps == ASSUME StoreInv, ~Overlap, NEW l \in Logins, Begin(l) PROVE StoreInv'
<1>1. TypeOK'
  BY SMT DEF StoreInv, TypeOK, NamesAreFresh, SaveInv, BackupInv, Readable, Ended, Unreadable, Keys, Begin, Stored, Goto, names
<1>2. OneLogin'
  BY DEF StoreInv, TypeOK, OneLogin, Active, Ended, Begin, Stored, Goto, names
<1>3. NamesAreFresh'
  BY SMT DEF StoreInv, TypeOK, OneLogin, NamesAreFresh, BackupInv, Active, Ended, Begin, Stored, Goto, names
<1>4. SaveInv'
  BY SMT DEF StoreInv, TypeOK, OneLogin, NamesAreFresh, SaveInv, BackupInv, Active, Ended, Begin, Stored, Goto, names
<1>5. BackupInv'
  BY SMT DEF StoreInv, TypeOK, Keys, Unreadable, OneLogin, NamesAreFresh, SaveInv, BackupInv, StoredInv, Current, Readable, Active, Ended, Begin, Stored, Goto, names
<1>6. StoreIsWhole'
  BY SMT DEF StoreInv, TypeOK, NamesAreFresh, SaveInv, BackupInv, StoreIsWhole, Unreadable, Keys, Begin, Stored, Goto, names
<1>7. StoredInv'
  BY SMT DEF StoreInv, TypeOK, OneLogin, NamesAreFresh, SaveInv, BackupInv, StoredInv, Current, Readable, Active, Ended, Begin, Stored, Goto, names
<1>8. MissingIsRemembered'
  BY SMT DEF StoreInv, TypeOK, OneLogin, NamesAreFresh, SaveInv, BackupInv, StoredInv, Current, MissingIsRemembered, Readable, Keys, Active, Ended, Begin, Stored, Goto, names
<1> QED BY <1>1, <1>2, <1>3, <1>4, <1>5, <1>6, <1>7, <1>8 DEF StoreInv

LEMMA ClearKeeps == ASSUME StoreInv, ~Overlap, NEW l \in Logins, Clear(l) PROVE StoreInv'
<1>1. TypeOK'
  BY NamesOfFiles, SMT DEF StoreInv, TypeOK, NamesAreFresh, SaveInv, BackupInv, Readable, Ended, Unreadable, Keys, Clear, Goto
<1>2. OneLogin'
  BY DEF StoreInv, TypeOK, OneLogin, Active, Ended, Clear, Goto
<1>3. NamesAreFresh'
  BY NamesOfFiles, SMT DEF StoreInv, TypeOK, OneLogin, NamesAreFresh, BackupInv, Active, Ended, Clear, Goto
<1>4. SaveInv'
  BY NamesOfFiles, SMT DEF StoreInv, TypeOK, OneLogin, NamesAreFresh, SaveInv, BackupInv, Active, Ended, Clear, Goto
<1>5. BackupInv'
  BY NamesOfFiles, SMT DEF StoreInv, TypeOK, Keys, Unreadable, OneLogin, NamesAreFresh, SaveInv, BackupInv, StoredInv, Current, Readable, Active, Ended, Clear, Goto
<1>6. StoreIsWhole'
  BY NamesOfFiles, SMT DEF StoreInv, TypeOK, NamesAreFresh, SaveInv, BackupInv, StoreIsWhole, Unreadable, Keys, Clear, Goto
<1>7. StoredInv'
  BY NamesOfFiles, SMT DEF StoreInv, TypeOK, OneLogin, NamesAreFresh, SaveInv, BackupInv, StoredInv, Current, Readable, Active, Ended, Clear, Goto
<1>8. MissingIsRemembered'
  BY NamesOfFiles, SMT DEF StoreInv, TypeOK, OneLogin, NamesAreFresh, SaveInv, BackupInv, StoredInv, Current, MissingIsRemembered, Readable, Keys, Active, Ended, Clear, Goto
<1> QED BY <1>1, <1>2, <1>3, <1>4, <1>5, <1>6, <1>7, <1>8 DEF StoreInv

LEMMA ClearInterruptedKeeps == ASSUME StoreInv, ~Overlap, NEW l \in Logins, ClearInterrupted(l) PROVE StoreInv'
<1>1. TypeOK'
  BY NamesOfFiles, SMT DEF StoreInv, TypeOK, NamesAreFresh, SaveInv, BackupInv, Readable, Ended, Unreadable, Keys, ClearInterrupted, Goto
<1>2. OneLogin'
  BY DEF StoreInv, TypeOK, OneLogin, Active, Ended, ClearInterrupted, Goto
<1>3. NamesAreFresh'
  BY NamesOfFiles, SMT DEF StoreInv, TypeOK, OneLogin, NamesAreFresh, BackupInv, Active, Ended, ClearInterrupted, Goto
<1>4. SaveInv'
  BY NamesOfFiles, SMT DEF StoreInv, TypeOK, OneLogin, NamesAreFresh, SaveInv, BackupInv, Active, Ended, ClearInterrupted, Goto
<1>5. BackupInv'
  BY NamesOfFiles, SMT DEF StoreInv, TypeOK, Keys, Unreadable, OneLogin, NamesAreFresh, SaveInv, BackupInv, StoredInv, Current, Readable, Active, Ended, ClearInterrupted, Goto
<1>6. StoreIsWhole'
  BY NamesOfFiles, SMT DEF StoreInv, TypeOK, NamesAreFresh, SaveInv, BackupInv, StoreIsWhole, Unreadable, Keys, ClearInterrupted, Goto
<1>7. StoredInv'
  BY NamesOfFiles, SMT DEF StoreInv, TypeOK, OneLogin, NamesAreFresh, SaveInv, BackupInv, StoredInv, Current, Readable, Active, Ended, ClearInterrupted, Goto
<1>8. MissingIsRemembered'
  BY NamesOfFiles, SMT DEF StoreInv, TypeOK, OneLogin, NamesAreFresh, SaveInv, BackupInv, StoredInv, Current, MissingIsRemembered, Readable, Keys, Active, Ended, ClearInterrupted, Goto
<1> QED BY <1>1, <1>2, <1>3, <1>4, <1>5, <1>6, <1>7, <1>8 DEF StoreInv

LEMMA BrowserKeeps == ASSUME StoreInv, ~Overlap, NEW l \in Logins, Browser(l) PROVE StoreInv'
<1>1. TypeOK'
  BY SMT DEF StoreInv, TypeOK, NamesAreFresh, SaveInv, BackupInv, Readable, Ended, Unreadable, Keys, Browser, Goto, names
<1>2. OneLogin'
  BY DEF StoreInv, TypeOK, OneLogin, Active, Ended, Browser, Goto, names
<1>3. NamesAreFresh'
  BY SMT DEF StoreInv, TypeOK, OneLogin, NamesAreFresh, BackupInv, Active, Ended, Browser, Goto, names
<1>4. SaveInv'
  BY SMT DEF StoreInv, TypeOK, OneLogin, NamesAreFresh, SaveInv, BackupInv, Active, Ended, Browser, Goto, names
<1>5. BackupInv'
  BY SMT DEF StoreInv, TypeOK, Keys, Unreadable, OneLogin, NamesAreFresh, SaveInv, BackupInv, StoredInv, Current, Readable, Active, Ended, Browser, Goto, names
<1>6. StoreIsWhole'
  BY SMT DEF StoreInv, TypeOK, NamesAreFresh, SaveInv, BackupInv, StoreIsWhole, Unreadable, Keys, Browser, Goto, names
<1>7. StoredInv'
  BY SMT DEF StoreInv, TypeOK, OneLogin, NamesAreFresh, SaveInv, BackupInv, StoredInv, Current, Readable, Active, Ended, Browser, Goto, names
<1>8. MissingIsRemembered'
  BY SMT DEF StoreInv, TypeOK, OneLogin, NamesAreFresh, SaveInv, BackupInv, StoredInv, Current, MissingIsRemembered, Readable, Keys, Active, Ended, Browser, Goto, names
<1> QED BY <1>1, <1>2, <1>3, <1>4, <1>5, <1>6, <1>7, <1>8 DEF StoreInv

LEMMA OpenKeeps == ASSUME StoreInv, ~Overlap, NEW l \in Logins, Open(l) PROVE StoreInv'
<1>1. TypeOK'
  BY NamesOfFiles, SMT DEF StoreInv, TypeOK, NamesAreFresh, SaveInv, BackupInv, Readable, Ended, Unreadable, Keys, Open, OpenAt, Goto
<1>2. OneLogin'
  BY DEF StoreInv, TypeOK, OneLogin, Active, Ended, Open, OpenAt, Goto
<1>3. NamesAreFresh'
  BY NamesOfFiles, SMT DEF StoreInv, TypeOK, OneLogin, NamesAreFresh, BackupInv, Active, Ended, Open, OpenAt, Goto
<1>4. SaveInv'
  BY NamesOfFiles, SMT DEF StoreInv, TypeOK, OneLogin, NamesAreFresh, SaveInv, BackupInv, Active, Ended, Open, OpenAt, Goto
<1>5. BackupInv'
  BY NamesOfFiles, SMT DEF StoreInv, TypeOK, Keys, Unreadable, OneLogin, NamesAreFresh, SaveInv, BackupInv, StoredInv, Current, Readable, Active, Ended, Open, OpenAt, Goto
<1>6. StoreIsWhole'
  BY NamesOfFiles, SMT DEF StoreInv, TypeOK, NamesAreFresh, SaveInv, BackupInv, StoreIsWhole, Unreadable, Keys, Open, OpenAt, Goto
<1>7. StoredInv'
  BY NamesOfFiles, SMT DEF StoreInv, TypeOK, OneLogin, NamesAreFresh, SaveInv, BackupInv, StoredInv, Current, Readable, Active, Ended, Open, OpenAt, Goto
<1>8. MissingIsRemembered'
  BY NamesOfFiles, SMT DEF StoreInv, TypeOK, OneLogin, NamesAreFresh, SaveInv, BackupInv, StoredInv, Current, MissingIsRemembered, Readable, Keys, Active, Ended, Open, OpenAt, Goto
<1> QED BY <1>1, <1>2, <1>3, <1>4, <1>5, <1>6, <1>7, <1>8 DEF StoreInv

LEMMA WriteKeeps == ASSUME StoreInv, ~Overlap, NEW l \in Logins, Write(l) PROVE StoreInv'
<1>1. TypeOK'
  BY SMT DEF StoreInv, TypeOK, NamesAreFresh, SaveInv, BackupInv, Readable, Ended, Unreadable, Keys, Write, Goto, names
<1>2. OneLogin'
  BY DEF StoreInv, TypeOK, OneLogin, Active, Ended, Write, Goto, names
<1>3. NamesAreFresh'
  BY SMT DEF StoreInv, TypeOK, OneLogin, NamesAreFresh, BackupInv, Active, Ended, Write, Goto, names
<1>4. SaveInv'
  BY SMT DEF StoreInv, TypeOK, OneLogin, NamesAreFresh, SaveInv, BackupInv, Active, Ended, Write, Goto, names
<1>5. BackupInv'
  BY SMT DEF StoreInv, TypeOK, Keys, Unreadable, OneLogin, NamesAreFresh, SaveInv, BackupInv, StoredInv, Current, Readable, Active, Ended, Write, Goto, names
<1>6. StoreIsWhole'
  BY SMT DEF StoreInv, TypeOK, NamesAreFresh, SaveInv, BackupInv, StoreIsWhole, Unreadable, Keys, Write, Goto, names
<1>7. StoredInv'
  BY SMT DEF StoreInv, TypeOK, OneLogin, NamesAreFresh, SaveInv, BackupInv, StoredInv, Current, Readable, Active, Ended, Write, Goto, names
<1>8. MissingIsRemembered'
  BY SMT DEF StoreInv, TypeOK, OneLogin, NamesAreFresh, SaveInv, BackupInv, StoredInv, Current, MissingIsRemembered, Readable, Keys, Active, Ended, Write, Goto, names
<1> QED BY <1>1, <1>2, <1>3, <1>4, <1>5, <1>6, <1>7, <1>8 DEF StoreInv

LEMMA ReplaceKeeps == ASSUME StoreInv, ~Overlap, NEW l \in Logins, Replace(l) PROVE StoreInv'
<1>1. TypeOK'
  BY NamesOfFiles, SMT DEF StoreInv, TypeOK, NamesAreFresh, SaveInv, BackupInv, Readable, Ended, Unreadable, Keys, Replace, ReplaceBy, Goto
<1>2. OneLogin'
  BY DEF StoreInv, TypeOK, OneLogin, Active, Ended, Replace, ReplaceBy, Goto
<1>3. NamesAreFresh'
  BY NamesOfFiles, SMT DEF StoreInv, TypeOK, OneLogin, NamesAreFresh, BackupInv, Active, Ended, Replace, ReplaceBy, Goto
<1>4. SaveInv'
  BY NamesOfFiles, SMT DEF StoreInv, TypeOK, OneLogin, NamesAreFresh, SaveInv, BackupInv, Active, Ended, Replace, ReplaceBy, Goto
<1>5. BackupInv'
  BY NamesOfFiles, SMT DEF StoreInv, TypeOK, Keys, Unreadable, OneLogin, NamesAreFresh, SaveInv, BackupInv, StoredInv, Current, Readable, Active, Ended, Replace, ReplaceBy, Goto
<1>6. StoreIsWhole'
  BY NamesOfFiles, SMT DEF StoreInv, TypeOK, NamesAreFresh, SaveInv, BackupInv, StoreIsWhole, Unreadable, Keys, Replace, ReplaceBy, Goto
<1>7. StoredInv'
  BY NamesOfFiles, SMT DEF StoreInv, TypeOK, OneLogin, NamesAreFresh, SaveInv, BackupInv, StoredInv, Current, Readable, Active, Ended, Replace, ReplaceBy, Goto
<1>8. MissingIsRemembered'
  BY NamesOfFiles, SMT DEF StoreInv, TypeOK, OneLogin, NamesAreFresh, SaveInv, BackupInv, StoredInv, Current, MissingIsRemembered, Readable, Keys, Active, Ended, Replace, ReplaceBy, Goto
<1> QED BY <1>1, <1>2, <1>3, <1>4, <1>5, <1>6, <1>7, <1>8 DEF StoreInv

LEMMA FinishKeeps == ASSUME StoreInv, ~Overlap, NEW l \in Logins, Finish(l) PROVE StoreInv'
<1>1. TypeOK'
  BY SMT DEF StoreInv, TypeOK, NamesAreFresh, SaveInv, BackupInv, Readable, Ended, Unreadable, Keys, Finish, Goto, names
<1>2. OneLogin'
  BY DEF StoreInv, TypeOK, OneLogin, Active, Ended, Finish, Goto, names
<1>3. NamesAreFresh'
  BY SMT DEF StoreInv, TypeOK, OneLogin, NamesAreFresh, BackupInv, Active, Ended, Finish, Goto, names
<1>4. SaveInv'
  BY SMT DEF StoreInv, TypeOK, OneLogin, NamesAreFresh, SaveInv, BackupInv, Active, Ended, Finish, Goto, names
<1>5. BackupInv'
  BY SMT DEF StoreInv, TypeOK, Keys, Unreadable, OneLogin, NamesAreFresh, SaveInv, BackupInv, StoredInv, Current, Readable, Active, Ended, Finish, Goto, names
<1>6. StoreIsWhole'
  BY SMT DEF StoreInv, TypeOK, NamesAreFresh, SaveInv, BackupInv, StoreIsWhole, Unreadable, Keys, Finish, Goto, names
<1>7. StoredInv'
  BY SMT DEF StoreInv, TypeOK, OneLogin, NamesAreFresh, SaveInv, BackupInv, StoredInv, Current, Readable, Active, Ended, Finish, Goto, names
<1>8. MissingIsRemembered'
  BY SMT DEF StoreInv, TypeOK, OneLogin, NamesAreFresh, SaveInv, BackupInv, StoredInv, Current, MissingIsRemembered, Readable, Keys, Active, Ended, Finish, Goto, names
<1> QED BY <1>1, <1>2, <1>3, <1>4, <1>5, <1>6, <1>7, <1>8 DEF StoreInv

LEMMA RaiseKeeps == ASSUME StoreInv, ~Overlap, NEW l \in Logins, Raise(l) PROVE StoreInv'
<1>1. TypeOK'
  BY SMT DEF StoreInv, TypeOK, NamesAreFresh, SaveInv, BackupInv, Readable, Ended, Unreadable, Keys, Raise, RaiseTo, names
<1>2. OneLogin'
  BY DEF StoreInv, TypeOK, OneLogin, Active, Ended, Raise, RaiseTo, names
<1>3. NamesAreFresh'
  BY SMT DEF StoreInv, TypeOK, OneLogin, NamesAreFresh, BackupInv, Active, Ended, Raise, RaiseTo, names
<1>4. SaveInv'
  BY SMT DEF StoreInv, TypeOK, OneLogin, NamesAreFresh, SaveInv, BackupInv, Active, Ended, Raise, RaiseTo, names
<1>5. BackupInv'
  BY SMT DEF StoreInv, TypeOK, Keys, Unreadable, OneLogin, NamesAreFresh, SaveInv, BackupInv, StoredInv, Current, Readable, Active, Ended, Raise, RaiseTo, names
<1>6. StoreIsWhole'
  BY SMT DEF StoreInv, TypeOK, NamesAreFresh, SaveInv, BackupInv, StoreIsWhole, Unreadable, Keys, Raise, RaiseTo, names
<1>7. StoredInv'
  BY SMT DEF StoreInv, TypeOK, OneLogin, NamesAreFresh, SaveInv, BackupInv, StoredInv, Current, Readable, Active, Ended, Raise, RaiseTo, names
<1>8. MissingIsRemembered'
  BY SMT DEF StoreInv, TypeOK, OneLogin, NamesAreFresh, SaveInv, BackupInv, StoredInv, Current, MissingIsRemembered, Readable, Keys, Active, Ended, Raise, RaiseTo, names
<1> QED BY <1>1, <1>2, <1>3, <1>4, <1>5, <1>6, <1>7, <1>8 DEF StoreInv

LEMMA CrashKeeps == ASSUME StoreInv, ~Overlap, NEW l \in Logins, Crash(l) PROVE StoreInv'
<1>1. TypeOK'
  BY SMT DEF StoreInv, TypeOK, NamesAreFresh, SaveInv, BackupInv, Readable, Ended, Unreadable, Keys, Crash, names
<1>2. OneLogin'
  BY DEF StoreInv, TypeOK, OneLogin, Active, Ended, Crash, names
<1>3. NamesAreFresh'
  BY SMT DEF StoreInv, TypeOK, OneLogin, NamesAreFresh, BackupInv, Active, Ended, Crash, names
<1>4. SaveInv'
  BY SMT DEF StoreInv, TypeOK, OneLogin, NamesAreFresh, SaveInv, BackupInv, Active, Ended, Crash, names
<1>5. BackupInv'
  BY SMT DEF StoreInv, TypeOK, Keys, Unreadable, OneLogin, NamesAreFresh, SaveInv, BackupInv, StoredInv, Current, Readable, Active, Ended, Crash, names
<1>6. StoreIsWhole'
  BY SMT DEF StoreInv, TypeOK, NamesAreFresh, SaveInv, BackupInv, StoreIsWhole, Unreadable, Keys, Crash, names
<1>7. StoredInv'
  BY SMT DEF StoreInv, TypeOK, OneLogin, NamesAreFresh, SaveInv, BackupInv, StoredInv, Current, Readable, Active, Ended, Crash, names
<1>8. MissingIsRemembered'
  BY SMT DEF StoreInv, TypeOK, OneLogin, NamesAreFresh, SaveInv, BackupInv, StoredInv, Current, MissingIsRemembered, Readable, Keys, Active, Ended, Crash, names
<1> QED BY <1>1, <1>2, <1>3, <1>4, <1>5, <1>6, <1>7, <1>8 DEF StoreInv

LEMMA InitStores == Init => StoreInv
<1> SUFFICES ASSUME Init PROVE StoreInv
  OBVIOUS
<1>1. TypeOK
  BY NamesOfFiles, SMT DEF Init, TypeOK, Ended, Unreadable, Keys
<1>2. OneLogin /\ StoreIsWhole /\ StoredInv /\ MissingIsRemembered
  BY NamesOfFiles, SMT DEF Init, OneLogin, StoreIsWhole, StoredInv, Current,
     MissingIsRemembered, Readable, Active, Keys, Unreadable
<1>3. NamesAreFresh
  <2>1. \A l \in Logins : First \notin {SaveFile(l), RestoreFile(l)}
    BY DEF First, SaveFile, RestoreFile
  <2> QED BY <2>1, NamesOfFiles DEF Init, NamesAreFresh
<1>4. SaveInv /\ BackupInv
  BY NamesOfFiles, SMT DEF Init, SaveInv, BackupInv, Active, Ended, Keys, Unreadable
<1> QED BY <1>1, <1>2, <1>3, <1>4 DEF StoreInv

LEMMA StutterKeeps == ASSUME StoreInv, UNCHANGED vars PROVE StoreInv'
BY DEF StoreInv, vars, names, TypeOK, OneLogin, NamesAreFresh, SaveInv, BackupInv,
   StoreIsWhole, StoredInv, MissingIsRemembered, Current, Readable

LEMMA LoginKeeps == StoreInv /\ [LoginNext]_loginVars => StoreInv'
<1> SUFFICES ASSUME StoreInv, [LoginNext]_loginVars PROVE StoreInv'
  OBVIOUS
<1>1. ~Overlap
  BY LoginAssumption
<1>2. CASE PollStep \/ UNCHANGED loginVars
  BY <1>2, StutterKeeps DEF PollStep, loginVars
<1>3. ASSUME NEW l \in Logins,
             Handshake(l) \/ Mint(l) \/ Fail(l) \/ Die(l) \/ StoreStep(l)
      PROVE StoreInv'
  <2>1. CASE Handshake(l)
    BY <2>1, StutterKeeps DEF Handshake
  <2>2. CASE Mint(l)
    BY <1>1, <2>2, BrowserKeeps DEF Mint
  <2>3. CASE Fail(l)
    BY <1>1, <2>3, RaiseKeeps DEF Fail
  <2>4. CASE Die(l)
    BY <1>1, <2>4, CrashKeeps DEF Die
  <2>5. CASE StoreStep(l)
    BY <1>1, <2>5, BeginKeeps, ClearKeeps, ClearInterruptedKeeps, OpenKeeps, WriteKeeps,
       ReplaceKeeps, FinishKeeps DEF StoreStep
  <2> QED BY <1>3, <2>1, <2>2, <2>3, <2>4, <2>5
<1> QED BY <1>2, <1>3 DEF LoginNext

LEMMA StoreHolds == LoginSpec => []StoreInv
<1>1. LoginInit => StoreInv
  BY InitStores DEF LoginInit
<1> QED BY <1>1, LoginKeeps, PTL DEF LoginSpec

\* auth.json is never seen half written, whichever logins fail or are killed and
\* whatever temporary file they leave to the next.
THEOREM StoreStaysWhole == LoginSpec => []StoreIsWhole
<1>1. StoreInv => StoreIsWhole
  BY DEF StoreInv
<1> QED BY <1>1, StoreHolds, PTL

\* The restoration of one login never brings back a key older than one that another
\* stored since.
THEOREM NewestStaysStored == LoginSpec => []NewestIsStored
<1>1. StoreInv => NewestIsStored
  BY SMT DEF StoreInv, StoredInv, Current, NewestIsStored
<1> QED BY <1>1, StoreHolds, PTL

\* No failure of a forced login loses a key that it read before clearing: it restores
\* it, or was killed, or interrupted in clearing or in restoring.
THEOREM KeyIsNotLost == LoginSpec => []MissingIsRemembered
<1>1. StoreInv => MissingIsRemembered
  BY DEF StoreInv
<1> QED BY <1>1, StoreHolds, PTL

-----------------------------------------------------------------------------
(* The poll.  What GivesUpForAReason needs is that the code's error count      *)
(* never runs ahead of the failures in a row.                                  *)

PollInv ==
    /\ LoginTypeOK
    /\ errors <= row /\ (poll = "polling" => errors < MaxErrors)
    /\ GivesUpForAReason

LEMMA PollStepKeeps == ASSUME PollInv, TypeOK', PollStep PROVE PollInv'
<1> USE LoginAssumption DEF Poll!PollBounds
<1>0. Poll!TypeOK /\ (\E l \in Logins : pc[l] = "browser") /\ pc' = pc
  BY DEF PollStep, PollInv, LoginTypeOK, vars
<1>1. /\ method' \in Poll!Methods
      /\ browser' \in {"waiting", "completed", "redeemed"}
      /\ errors' \in 0 .. MaxErrors /\ row' \in 0 .. MaxErrors
      /\ tried' \in 0 .. MaxAttempts /\ poll' \in {"polling", "tokens", "none"}
      /\ (errors <= row /\ (poll = "polling" => errors < MaxErrors))'
      /\ GivesUpForAReason'
  <2> USE <1>0 DEF PollInv, PollStep, GivesUpForAReason, Poll!GivesUpForAReason, Poll!TypeOK,
            Poll!Methods, Poll!Attempt, Poll!OneMore
  <2>1. CASE Poll!NotFound
    BY <2>1 DEF Poll!NotFound, Poll!FallBack, Poll!Pending, Poll!PendingThen
  <2>2. CASE Poll!Tokens
    BY <2>2 DEF Poll!Tokens
  <2>3. CASE Poll!Other
    BY <2>3 DEF Poll!Other
  <2>4. CASE Poll!Invalid
    BY <2>4 DEF Poll!Invalid, Poll!CountError
  <2>5. CASE Poll!RequestFails
    BY <2>5 DEF Poll!RequestFails, Poll!CountError
  <2>6. CASE Poll!TimeOut
    BY <2>6 DEF Poll!TimeOut
  <2>7. CASE Poll!Complete
    BY <2>7 DEF Poll!Complete
  <2> QED BY <2>1, <2>2, <2>3, <2>4, <2>5, <2>6, <2>7 DEF Poll!Next
<1>2. odd' \in BOOLEAN
  BY <1>0 DEF PollStep, Poll!Next, Poll!TypeOK, Poll!Attempt, Poll!NotFound, Poll!FallBack,
     Poll!Pending, Poll!PendingThen, Poll!Tokens, Poll!Other, Poll!Invalid, Poll!CountError,
     Poll!RequestFails, Poll!TimeOut, Poll!Complete
<1> QED BY <1>0, <1>1, <1>2 DEF PollInv, LoginTypeOK, Poll!TypeOK

LEMMA PollKeeps == StoreInv /\ PollInv /\ StoreInv' /\ [LoginNext]_loginVars => PollInv'
<1> SUFFICES ASSUME StoreInv, PollInv, StoreInv', [LoginNext]_loginVars PROVE PollInv'
  OBVIOUS
<1>1. TypeOK'
  BY DEF StoreInv
<1>2. CASE PollStep
  BY <1>1, <1>2, PollStepKeeps
<1>3. ASSUME IdlePoll' PROVE PollInv'
  <2>1. MaxErrors > 0
    BY LoginAssumption DEF Poll!PollBounds
  <2> QED BY <1>1, <1>3, <2>1 DEF PollInv, LoginTypeOK, IdlePoll, GivesUpForAReason,
            Poll!GivesUpForAReason
<1>4. ASSUME UNCHANGED pollVars,
             poll # "idle" => \E l \in Logins : pc[l] = "browser" /\ pc'[l] = pc[l]
      PROVE PollInv'
  BY <1>1, <1>4 DEF pollVars, PollInv, LoginTypeOK, IdlePoll, GivesUpForAReason,
     Poll!GivesUpForAReason, Poll!TypeOK
<1>5. CASE UNCHANGED loginVars
  <2>1. UNCHANGED pollVars /\ pc' = pc
    BY <1>5 DEF loginVars, vars
  <2> QED BY <1>4, <2>1 DEF PollInv, LoginTypeOK
<1>6. ASSUME NEW l \in Logins, StoreStep(l) PROVE PollInv'
  <2>1. pc[l] # "browser" /\ \A m \in Logins : pc[m] # "browser"
    BY <1>6, LoginAssumption DEF StoreStep, StoreInv, OneLogin, Active, Ended, Begin, Clear,
       ClearInterrupted, Open, OpenAt, Write, Replace, ReplaceBy, Finish, Goto
  <2> QED BY <1>4, <1>6, <2>1 DEF StoreStep, PollInv, LoginTypeOK
<1>7. ASSUME NEW l \in Logins, Handshake(l) PROVE PollInv'
  <2>1. MaxErrors \in Nat \ {0} /\ MaxAttempts \in Nat
    BY LoginAssumption DEF Poll!PollBounds
  <2>2. odd' \in BOOLEAN
    BY <1>7 DEF Handshake, PollInv, LoginTypeOK, IdlePoll
  <2> QED BY <1>1, <1>7, <2>1, <2>2 DEF Handshake, PollInv, LoginTypeOK, IdlePoll, vars,
            GivesUpForAReason, Poll!GivesUpForAReason, Poll!TypeOK, Poll!Methods
<1>8. ASSUME NEW l \in Logins, Mint(l) \/ Fail(l) \/ Die(l) PROVE PollInv'
  BY <1>3, <1>8 DEF Mint, Fail, Die, EndPoll, IdlePoll
<1> QED BY <1>2, <1>5, <1>6, <1>7, <1>8 DEF LoginNext

LEMMA PollHolds == LoginSpec => []PollInv
<1>1. LoginInit => PollInv
  <2>1. LoginInit => LoginTypeOK
    BY InitStores DEF LoginInit, StoreInv, LoginTypeOK, IdlePoll
  <2>2. MaxErrors > 0
    BY LoginAssumption DEF Poll!PollBounds
  <2> QED BY <2>1, <2>2 DEF LoginInit, IdlePoll, PollInv, GivesUpForAReason,
            Poll!GivesUpForAReason
<1> QED BY <1>1, StoreHolds, PollKeeps, PTL DEF LoginSpec

\* The variables of the store and of the poll keep their types, and the poll is at rest
\* unless a login waits for the browser.
THEOREM LoginTyped == LoginSpec => []LoginTypeOK
<1>1. PollInv => LoginTypeOK
  BY DEF PollInv
<1> QED BY <1>1, PollHolds, PTL

\* The poll of no login gives up while it still has attempts and an error budget,
\* unless the backend answered with something else.
THEOREM PollGivesUpForAReason == LoginSpec => []GivesUpForAReason
<1>1. PollInv => GivesUpForAReason
  BY DEF PollInv
<1> QED BY <1>1, PollHolds, PTL

-----------------------------------------------------------------------------
(* the refinement *)

\* a step of the poll is none of the store, every other step of a login is one or none
LEMMA LoginStepIsStoreStep == [LoginNext]_loginVars => [Next]_vars
<1> SUFFICES ASSUME [LoginNext]_loginVars PROVE Next \/ UNCHANGED vars
  OBVIOUS
<1>1. CASE PollStep
  BY <1>1 DEF PollStep
<1>2. ASSUME NEW l \in Logins, Handshake(l) \/ Mint(l) \/ Fail(l) \/ Die(l) \/ StoreStep(l)
      PROVE  Next \/ UNCHANGED vars
  <2>1. CASE Handshake(l)
    BY <2>1 DEF Handshake
  <2>2. CASE Mint(l) \/ Fail(l) \/ Die(l) \/ StoreStep(l)
    BY <2>2 DEF Mint, Fail, Die, StoreStep, Next, Login
  <2> QED
    BY <1>2, <2>1, <2>2
<1>3. CASE UNCHANGED loginVars
  BY <1>3 DEF loginVars
<1> QED
  BY <1>1, <1>2, <1>3 DEF LoginNext

\* login with the poll it waits in (cursor_sdk_auth.py 105-175, 326) is a login of
\* the credential store: what holds of the store whatever the browser does, as one step
\* that may fail, holds of it here.
THEOREM LoginIsStoreLogin == LoginSpec => Spec
<1>1. LoginInit => Init
  BY DEF LoginInit
<1> QED
  BY <1>1, LoginStepIsStoreStep, PTL DEF LoginSpec, Spec

=============================================================================
