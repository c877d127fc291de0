------------------------- MODULE InstallTransaction -------------------------
(***************************************************************************)
(* execute_install_plan (src/hermes_cursor_native/installer.py): the steps *)
(* of one installation that change the Hermes home, and the rollback when  *)
(* one of them raises.  A step that writes more than one file has two      *)
(* halves, so that a failure, an interruption or a kill can find it half   *)
(* done.                                                                   *)
(*                                                                         *)
(* A directory or file is known by whose content it has: None when it is   *)
(* absent, Torn when half written, Prior for what there was before, New    *)
(* for what the installation writes.                                       *)
(***************************************************************************)
CONSTANTS None, Torn, Prior, New

ASSUME InstallAssumption ==
    /\ None \notin {Torn, Prior, New}
    /\ Torn \notin {Prior, New}
    /\ Prior # New

VARIABLES
    had,            \* the parts the home had at first
    plugin, bridge, config,                   \* what is in their places
    pluginBackup, bridgeBackup, configBackup, \* what is in the backups
    pc,
    pluginMutated, bridgeMutated,  \* the flags of that name
    configPath,     \* "reported" if config_path is not None; if it is None, whether
                    \* `hermes config path` is still "unasked" or left it "unreported"
    configExisted,  \* config_existed
    raisedAt,       \* history: the pc at which the installation raised, or ""
    undoErrors      \* whether the rollback met an error

home == <<plugin, bridge, config>>
backups == <<pluginBackup, bridgeBackup, configBackup>>
flags == <<pluginMutated, bridgeMutated>>
configVars == <<configPath, configExisted>>
outcome == <<raisedAt, undoErrors>>
vars == <<had, home, backups, pc, flags, configVars, outcome>>

Parts == {"plugin", "bridge", "config"}
Contents == {None, Torn, Prior, New}

AtFirst(part) == IF part \in had THEN Prior ELSE None

Init ==
    /\ had \in SUBSET Parts
    /\ plugin = AtFirst("plugin") /\ bridge = AtFirst("bridge")
    /\ config = AtFirst("config")
    /\ pluginBackup = None /\ bridgeBackup = None /\ configBackup = None
    /\ pc = "check"
    /\ pluginMutated = FALSE /\ bridgeMutated = FALSE
    /\ configPath = "unasked" /\ configExisted = FALSE
    /\ raisedAt = "" /\ undoErrors = FALSE

Goto(from, to) == pc = from /\ pc' = to

-----------------------------------------------------------------------------
(* the steps of an installation *)

\* profile, approval, platform, executable, version and source are as approved,
\* or the plan is refused before anything is touched
Check ==
    /\ Goto("check", "save_plugin") \/ Goto("check", "refused")
    /\ UNCHANGED <<had, home, backups, flags, configVars, outcome>>

SavePlugin ==
    /\ Goto("save_plugin", "mark_plugin")
    /\ plugin' = None /\ pluginBackup' = plugin
    /\ UNCHANGED <<had, bridge, config, bridgeBackup, configBackup, flags, configVars,
                   outcome>>

MarkPlugin ==
    /\ Goto("mark_plugin", "deploy")
    /\ pluginMutated' = TRUE
    /\ UNCHANGED <<had, home, backups, bridgeMutated, configVars, outcome>>

\* deploy_plugin: copy the tree
DeployPlugin ==
    /\ \/ Goto("deploy", "deploying") /\ plugin' = Torn
       \/ Goto("deploying", "download") /\ plugin' = New
    /\ UNCHANGED <<had, bridge, config, backups, flags, configVars, outcome>>

\* fetch and verify_sha256
Download ==
    /\ Goto("download", "save_bridge")
    /\ UNCHANGED <<had, home, backups, flags, configVars, outcome>>

MoveBridge(saved) ==
    /\ Goto("save_bridge", "mark_bridge")
    /\ bridge' = None /\ bridgeBackup' = saved
    /\ UNCHANGED <<had, plugin, config, pluginBackup, configBackup, flags, configVars,
                   outcome>>

RemoveBridge == MoveBridge(None)  \* mutant: removed instead of renamed

SaveBridge == MoveBridge(bridge)

MarkBridge ==
    /\ Goto("mark_bridge", "extract")
    /\ bridgeMutated' = TRUE
    /\ UNCHANGED <<had, home, backups, pluginMutated, configVars, outcome>>

\* safe_extract_tar, straight into the bridge directory, and _find_bridge
ExtractThen(next) ==
    /\ \/ Goto("extract", "extracting") /\ bridge' = Torn
       \/ Goto("extracting", next) /\ bridge' = New
    /\ UNCHANGED <<had, plugin, config, backups, flags, configVars, outcome>>

\* mutant: unpacked before the archive is verified and the old bridge moved away
ExtractEarly == ExtractThen("download")

ExtractBridge == ExtractThen("config_path")

\* `hermes config path`; if it prints nothing, there is no backup, and the settings are
\* made all the same
FindConfig ==
    /\ \/ Goto("config_path", "config_existed") /\ configPath' = "reported"
       \/ Goto("config_path", "config_set") /\ configPath' = "unreported"
    /\ UNCHANGED <<had, home, backups, flags, configExisted, outcome>>

Look(existed) ==
    /\ Goto("config_existed", IF existed THEN "save_config" ELSE "config_set")
    /\ configExisted' = existed
    /\ UNCHANGED <<had, home, backups, flags, configPath, outcome>>

LookForDirectory == Look(FALSE)  \* mutant: is_dir() for is_file()

LookForConfig == Look(config # None)

\* config_backup is assigned, then copy2 fills it
SaveConfig ==
    /\ \/ Goto("save_config", "saving_config") /\ configBackup' = Torn
       \/ Goto("saving_config", "config_set") /\ configBackup' = config
    /\ UNCHANGED <<had, home, pluginBackup, bridgeBackup, flags, configVars, outcome>>

\* the `hermes config set`: after the first the settings are there in part, after the
\* last in whole
SetConfigTo(some, all) ==
    /\ \/ Goto("config_set", "config_set") /\ config' = some
       \/ Goto("config_set", "verify") /\ config' = all
    /\ UNCHANGED <<had, plugin, bridge, backups, flags, configVars, outcome>>

\* mutant: the settings go elsewhere, as without the -p of the profile
SetNothing == SetConfigTo(config, config)

SetConfig == SetConfigTo(Torn, New)

\* OAuth, `hermes auth status` and the receipt's contract checks
Verify ==
    /\ Goto("verify", "done")
    /\ UNCHANGED <<had, home, backups, flags, configVars, outcome>>

-----------------------------------------------------------------------------
(* failures and the rollback *)

Working == {"save_plugin", "mark_plugin", "deploy", "deploying", "download",
            "save_bridge", "mark_bridge", "extract", "extracting", "config_path",
            "config_existed", "save_config", "saving_config", "config_set", "verify"}

Undoing == {"undo_config", "undo_bridge", "undo_plugin"}

\* a step raises, before it does anything or half way through it, or KeyboardInterrupt
\* comes between two statements
Raise ==
    /\ pc \in Working
    /\ pc' = "undo_config" /\ raisedAt' = pc
    /\ UNCHANGED <<had, home, backups, flags, configVars, undoErrors>>

\* the configuration is copied back, removed or, if its path was not reported, left;
\* copying and removing may fail, and copying half way
UndoConfig ==
    LET known    == configPath = "reported"
        restored == known /\ configExisted /\ configBackup # None
        removed  == known /\ ~configExisted /\ config # None IN
    /\ Goto("undo_config", "undo_bridge")
    /\ \/ /\ config' = IF restored THEN configBackup ELSE IF removed THEN None ELSE config
          /\ UNCHANGED undoErrors
       \/ /\ restored \/ removed
          /\ config' \in IF restored THEN {config, Torn} ELSE {config}
          /\ undoErrors' = TRUE
    /\ UNCHANGED <<had, plugin, bridge, backups, flags, configVars, raisedAt>>

\* what a directory may be left as when it cannot be replaced by its backup: the
\* removal failed, at once or half way, or there is a backup that cannot be moved
LeftBy(dir, backup) ==
    (IF dir = None THEN {} ELSE {dir, Torn}) \union (IF backup = None THEN {} ELSE {None})

\* remove the new bridge, move the old one back
UndoBridge ==
    /\ Goto("undo_bridge", "undo_plugin")
    /\ \/ /\ ~bridgeMutated
          /\ UNCHANGED <<bridge, bridgeBackup, undoErrors>>
       \/ /\ bridgeMutated
          /\ bridge' = bridgeBackup /\ bridgeBackup' = None
          /\ UNCHANGED undoErrors
       \/ /\ bridgeMutated
          /\ bridge' \in LeftBy(bridge, bridgeBackup)
          /\ undoErrors' = TRUE
          /\ UNCHANGED bridgeBackup
    /\ UNCHANGED <<had, plugin, config, pluginBackup, configBackup, flags, configVars,
                   raisedAt>>

UndoPlugin ==
    /\ Goto("undo_plugin", "failed")
    /\ \/ /\ ~pluginMutated
          /\ UNCHANGED <<plugin, pluginBackup, undoErrors>>
       \/ /\ pluginMutated
          /\ plugin' = pluginBackup /\ pluginBackup' = None
          /\ UNCHANGED undoErrors
       \/ /\ pluginMutated
          /\ plugin' \in LeftBy(plugin, pluginBackup)
          /\ undoErrors' = TRUE
          /\ UNCHANGED pluginBackup
    /\ UNCHANGED <<had, bridge, config, bridgeBackup, configBackup, flags, configVars,
                   raisedAt>>

\* a kill, or a second interruption inside the rollback, which only OSError survives
Crash ==
    /\ pc \in Working \union Undoing
    /\ pc' = "crashed"
    /\ UNCHANGED <<had, home, backups, flags, configVars, outcome>>

-----------------------------------------------------------------------------
Install ==
    \/ Check \/ SavePlugin \/ MarkPlugin \/ DeployPlugin \/ Download
    \/ SaveBridge \/ MarkBridge \/ ExtractBridge
    \/ FindConfig \/ LookForConfig \/ SaveConfig \/ SetConfig \/ Verify

Undo == Raise \/ UndoConfig \/ UndoBridge \/ UndoPlugin

Next == Install \/ Undo \/ Crash

Spec == Init /\ [][Next]_vars

-----------------------------------------------------------------------------
(* Properties *)

TypeOK ==
    /\ had \subseteq Parts
    /\ plugin \in Contents /\ bridge \in Contents /\ config \in Contents
    /\ pluginBackup \in {None, Prior} /\ bridgeBackup \in {None, Prior}
    /\ configBackup \in {None, Torn, Prior}
    /\ pc \in Working \union Undoing \union
                {"check", "refused", "done", "failed", "crashed"}
    /\ pluginMutated \in BOOLEAN /\ bridgeMutated \in BOOLEAN
    /\ configPath \in {"unasked", "reported", "unreported"} /\ configExisted \in BOOLEAN
    /\ raisedAt \in Working \union {""} /\ undoErrors \in BOOLEAN

RestoredConfig == config = AtFirst("config")

CleanlyUndone == pc \in {"failed", "refused"} /\ ~undoErrors

\* what the rollback knows of the configuration is true: it raised neither before
\* config_existed was known nor in the copy to the backups, and the path was reported
ConfigIsKnown ==
    raisedAt \notin {"config_existed", "saving_config"} /\ configPath # "unreported"

\* An installation that failed, and whose rollback reported no error, leaves plugin,
\* bridge and configuration as they were, absent ones absent
\* (tests/test_installer.py:253-261 asserts this of the failures it injects): the plugin
\* and the bridge unless it raised between the rename of that directory and the flag that
\* says so, the configuration unless what the rollback knows of it is wrong.
RolledBack ==
    CleanlyUndone =>
        /\ raisedAt # "mark_plugin" => plugin = AtFirst("plugin")
        /\ raisedAt # "mark_bridge" => bridge = AtFirst("bridge")
        /\ ConfigIsKnown => RestoredConfig

\* An installation that is done left its plugin, its bridge and its settings whole.
InstalledIsWhole ==
    pc = "done" => plugin = New /\ bridge = New /\ config = New

\* Whatever raises, is interrupted, fails to be undone or is killed, what the home had
\* at first is whole somewhere, in its place or in the backups; the configuration unless
\* it was looking at it or copying it that raised, or its path was not reported, where
\* the code makes the settings without a backup, also when it succeeds.
PriorSurvives ==
    /\ "plugin" \in had => Prior \in {plugin, pluginBackup}
    /\ "bridge" \in had => Prior \in {bridge, bridgeBackup}
    /\ "config" \in had /\ ConfigIsKnown => Prior \in {config, configBackup}

\* tests/test_installer.py:257 asserts config.read_bytes() == b"previous config" of a
\* failed installation, whichever step it was that failed.
ConfigComesBack ==
    CleanlyUndone /\ raisedAt # "config_existed" /\ configPath = "reported" =>
        RestoredConfig

=============================================================================
