---------------------- MODULE InstallTransactionProofs ----------------------
(***************************************************************************)
(* Invariants of InstallTransaction.  Each of the three parts of the home  *)
(* has an invariant of its own that says, for every point at which the     *)
(* installation is or at which it raised, what is in the part's place and  *)
(* in its backup, and what the rollback will know of it.                   *)
(***************************************************************************)
EXTENDS InstallTransaction, TLAPS

\* the step the installation is at, or at which it raised
At == IF pc \in Working THEN pc ELSE raisedAt

Phase ==
    /\ pc \in Working \union {"check", "refused", "done"} => raisedAt = "" /\ ~undoErrors
    /\ pc \in Undoing \union {"failed"} => raisedAt \in Working

PluginUntouched == plugin = AtFirst("plugin") /\ pluginBackup = None /\ ~pluginMutated

PluginInv ==
    /\ plugin = AtFirst("plugin") \/ pluginBackup = AtFirst("plugin")
    /\ pc \in {"check", "refused"} => PluginUntouched
    /\ pc \in Working \union Undoing =>
        /\ At = "save_plugin" => PluginUntouched
        /\ At # "save_plugin" => pluginBackup = AtFirst("plugin")
        /\ At \notin {"save_plugin", "mark_plugin"} => pluginMutated
    /\ pc \in (Working \ {"save_plugin", "mark_plugin", "deploy", "deploying"})
              \union {"done"} => plugin = New
    /\ pc = "failed" /\ ~undoErrors /\ raisedAt # "mark_plugin" =>
        plugin = AtFirst("plugin")

BridgeUntouched == bridge = AtFirst("bridge") /\ bridgeBackup = None /\ ~bridgeMutated

BeforeBridge == {"save_plugin", "mark_plugin", "deploy", "deploying", "download",
                 "save_bridge"}

BridgeInv ==
    /\ bridge = AtFirst("bridge") \/ bridgeBackup = AtFirst("bridge")
    /\ pc \in {"check", "refused"} => BridgeUntouched
    /\ pc \in Working \union {"undo_config", "undo_bridge"} =>
        /\ At \in BeforeBridge => BridgeUntouched
        /\ At \notin BeforeBridge => bridgeBackup = AtFirst("bridge")
        /\ At \notin BeforeBridge \union {"mark_bridge"} => bridgeMutated
    /\ pc \in (Working \ (BeforeBridge \union {"mark_bridge", "extract", "extracting"}))
              \union {"done"} => bridge = New
    /\ pc \in {"undo_plugin", "failed"} /\ ~undoErrors /\ raisedAt # "mark_bridge" =>
        bridge = AtFirst("bridge")

ConfigUntouched == config = AtFirst("config") /\ configBackup = None

Reporting == {"config_existed", "save_config", "saving_config"}  \* after a path was printed

Setting == {"config_set", "verify"}

ConfigInv ==
    /\ "config" \in had /\ ConfigIsKnown => Prior \in {config, configBackup}
    /\ pc \in {"check", "refused"} => ConfigUntouched /\ configPath = "unasked"
    /\ pc \in Working \union {"undo_config"} =>
        /\ At \notin Setting \union {"saving_config"} => ConfigUntouched
        /\ At \notin Reporting \union Setting => configPath = "unasked"
        /\ At \in Reporting => configPath = "reported"
        /\ At = "save_config" => configExisted /\ config # None
        /\ At = "saving_config" => config = AtFirst("config") /\ configExisted
                                   /\ config # None
        /\ At \in Setting =>
            \/ configPath = "unreported"
            \/ /\ configPath = "reported" /\ configBackup = AtFirst("config")
               /\ configExisted <=> "config" \in had
    /\ pc \in {"verify", "done"} => config = New
    /\ pc \in {"undo_bridge", "undo_plugin", "failed"} /\ ~undoErrors /\ ConfigIsKnown
       => config = AtFirst("config")

IInv == TypeOK /\ Phase /\ PluginInv /\ BridgeInv /\ ConfigInv

-----------------------------------------------------------------------------
\* The initial states satisfy the invariant.
LEMMA InitInv == Init => IInv
BY InstallAssumption
   DEF Init, IInv, TypeOK, Phase, PluginInv, BridgeInv, ConfigInv, PluginUntouched,
       BridgeUntouched, ConfigUntouched, ConfigIsKnown, Reporting, Setting, At, AtFirst, Working, Undoing, Parts, Contents

\* The types survive every step; what is moved or copied to the backups is what there
\* was at first, by the invariants of the parts.
LEMMA TypeStep == IInv /\ [Next]_vars => TypeOK'
<1> SUFFICES ASSUME IInv, [Next]_vars PROVE TypeOK'
  OBVIOUS
<1>1. /\ pc = "save_plugin" => plugin \in {None, Prior}
      /\ pc = "save_bridge" => bridge \in {None, Prior}
      /\ pc = "saving_config" => config \in {None, Prior}
  BY DEF IInv, PluginInv, PluginUntouched, BridgeInv, BridgeUntouched, BeforeBridge,
         ConfigInv, At, AtFirst, Working
<1>2. TypeOK
  BY DEF IInv
<1> USE <1>2, InstallAssumption
    DEF TypeOK, Next, Install, Undo, Check, SavePlugin, MarkPlugin, DeployPlugin, Download,
        SaveBridge, MoveBridge, MarkBridge, ExtractBridge, ExtractThen, FindConfig,
        LookForConfig, Look, SaveConfig, SetConfig, SetConfigTo, Verify, Raise, UndoConfig,
        UndoBridge, UndoPlugin, LeftBy, Crash, Goto, vars, home, backups, flags, configVars, outcome
<1>3. had' \subseteq Parts
  OBVIOUS
<1>4. plugin' \in Contents
  BY DEF Contents
<1>5. bridge' \in Contents
  BY DEF Contents
<1>6. config' \in Contents
  BY DEF Contents
<1>7. pluginBackup' \in {None, Prior}
  BY <1>1
<1>8. bridgeBackup' \in {None, Prior}
  BY <1>1
<1>9. configBackup' \in {None, Torn, Prior}
  BY <1>1
<1>10. pc' \in Working \union Undoing \union {"check", "refused", "done", "failed", "crashed"}
  BY DEF Working, Undoing
<1>11. pluginMutated' \in BOOLEAN /\ bridgeMutated' \in BOOLEAN
  OBVIOUS
<1>12. configPath' \in {"unasked", "reported", "unreported"} /\ configExisted' \in BOOLEAN
  OBVIOUS
<1>13. raisedAt' \in Working \union {""} /\ undoErrors' \in BOOLEAN
  OBVIOUS
<1> QED
  BY <1>3, <1>4, <1>5, <1>6, <1>7, <1>8, <1>9, <1>10, <1>11, <1>12, <1>13

\* A rollback runs only after something raised, and no error precedes it.
LEMMA PhaseStep == IInv /\ [Next]_vars => Phase'
<1> SUFFICES ASSUME IInv, [Next]_vars PROVE Phase'
  OBVIOUS
<1>1. CASE UNCHANGED vars
  BY <1>1 DEF IInv, Phase, vars, home, backups, flags, configVars, outcome
<1> USE InstallAssumption DEF IInv, TypeOK, Phase, Goto, Working, Undoing, home,
        backups, flags, configVars, outcome
<1>2. CASE Check \/ SavePlugin \/ MarkPlugin \/ DeployPlugin \/ Download \/ SaveBridge
           \/ MarkBridge \/ ExtractBridge \/ FindConfig \/ LookForConfig \/ SaveConfig
           \/ SetConfig \/ Verify
  <2>1. CASE Check
    BY <2>1 DEF Check
  <2>2. CASE SavePlugin
    BY <2>2 DEF SavePlugin
  <2>3. CASE MarkPlugin
    BY <2>3 DEF MarkPlugin
  <2>4. CASE DeployPlugin
    BY <2>4 DEF DeployPlugin
  <2>5. CASE Download
    BY <2>5 DEF Download
  <2>6. CASE SaveBridge
    BY <2>6 DEF SaveBridge, MoveBridge
  <2>7. CASE MarkBridge
    BY <2>7 DEF MarkBridge
  <2>8. CASE ExtractBridge
    BY <2>8 DEF ExtractBridge, ExtractThen
  <2>9. CASE FindConfig
    BY <2>9 DEF FindConfig
  <2>10. CASE LookForConfig
    BY <2>10 DEF LookForConfig, Look
  <2>11. CASE SaveConfig
    BY <2>11 DEF SaveConfig
  <2>12. CASE SetConfig
    BY <2>12 DEF SetConfig, SetConfigTo
  <2>13. CASE Verify
    BY <2>13 DEF Verify
  <2> QED
    BY <1>2, <2>1, <2>2, <2>3, <2>4, <2>5, <2>6, <2>7, <2>8, <2>9, <2>10, <2>11, <2>12, <2>13
<1>3. CASE Raise
  BY <1>3 DEF Raise
<1>4. CASE UndoConfig
  BY <1>4 DEF UndoConfig
<1>5. CASE UndoBridge
  BY <1>5 DEF UndoBridge, LeftBy
<1>6. CASE UndoPlugin
  BY <1>6 DEF UndoPlugin, LeftBy
<1>7. CASE Crash
  BY <1>7 DEF Crash
<1> QED BY <1>1, <1>2, <1>3, <1>4, <1>5, <1>6, <1>7 DEF Next, Install, Undo

\* The plugin's invariant survives every step.
LEMMA PluginStep == IInv /\ [Next]_vars => PluginInv'
<1> SUFFICES ASSUME IInv, [Next]_vars PROVE PluginInv'
  OBVIOUS
<1>1. CASE UNCHANGED vars
  BY <1>1 DEF IInv, PluginInv, PluginUntouched, At, AtFirst, vars, home, backups, flags,
              configVars, outcome
<1> USE InstallAssumption DEF IInv, TypeOK, Phase, PluginInv, PluginUntouched, At,
        AtFirst, Goto, Working, Undoing, Parts, Contents, home, backups, flags,
        configVars, outcome
<1>2. CASE Check \/ Download \/ SaveBridge \/ MarkBridge \/ ExtractBridge \/ FindConfig
           \/ LookForConfig \/ SaveConfig \/ SetConfig \/ Verify \/ UndoConfig
           \/ UndoBridge
  <2>1. CASE Check
    BY <2>1 DEF Check
  <2>2. CASE Download
    BY <2>2 DEF Download
  <2>3. CASE SaveBridge
    BY <2>3 DEF SaveBridge, MoveBridge
  <2>4. CASE MarkBridge
    BY <2>4 DEF MarkBridge
  <2>5. CASE ExtractBridge
    BY <2>5 DEF ExtractBridge, ExtractThen
  <2>6. CASE FindConfig
    BY <2>6 DEF FindConfig
  <2>7. CASE LookForConfig
    BY <2>7 DEF LookForConfig, Look
  <2>8. CASE SaveConfig
    BY <2>8 DEF SaveConfig
  <2>9. CASE SetConfig
    BY <2>9 DEF SetConfig, SetConfigTo
  <2>10. CASE Verify
    BY <2>10 DEF Verify
  <2>11. CASE UndoConfig
    BY <2>11 DEF UndoConfig
  <2>12. CASE UndoBridge
    BY <2>12 DEF UndoBridge, LeftBy
  <2> QED
    BY <1>2, <2>1, <2>2, <2>3, <2>4, <2>5, <2>6, <2>7, <2>8, <2>9, <2>10, <2>11, <2>12
<1>3. CASE SavePlugin
  BY <1>3 DEF SavePlugin
<1>4. CASE MarkPlugin
  BY <1>4 DEF MarkPlugin
<1>5. CASE DeployPlugin
  BY <1>5 DEF DeployPlugin
<1>6. CASE Raise
  BY <1>6 DEF Raise
<1>7. CASE UndoPlugin
  BY <1>7 DEF UndoPlugin, LeftBy
<1>8. CASE Crash
  BY <1>8 DEF Crash
<1> QED BY <1>1, <1>2, <1>3, <1>4, <1>5, <1>6, <1>7, <1>8 DEF Next, Install, Undo

\* The bridge's invariant survives every step.
LEMMA BridgeStep == IInv /\ [Next]_vars => BridgeInv'
<1> SUFFICES ASSUME IInv, [Next]_vars PROVE BridgeInv'
  OBVIOUS
<1>1. CASE UNCHANGED vars
  BY <1>1 DEF IInv, BridgeInv, BridgeUntouched, At, AtFirst, vars, home, backups, flags,
              configVars, outcome
<1> USE InstallAssumption DEF IInv, TypeOK, Phase, BridgeInv, BridgeUntouched,
        BeforeBridge, At, AtFirst, Goto, Working, Undoing, Parts, Contents, home,
        backups, flags, configVars, outcome
<1>2. CASE Check \/ SavePlugin \/ MarkPlugin \/ DeployPlugin \/ Download \/ FindConfig
           \/ LookForConfig \/ SaveConfig \/ SetConfig \/ Verify \/ UndoConfig
           \/ UndoPlugin
  <2>1. CASE Check
    BY <2>1 DEF Check
  <2>2. CASE SavePlugin
    BY <2>2 DEF SavePlugin
  <2>3. CASE MarkPlugin
    BY <2>3 DEF MarkPlugin
  <2>4. CASE DeployPlugin
    BY <2>4 DEF DeployPlugin
  <2>5. CASE Download
    BY <2>5 DEF Download
  <2>6. CASE FindConfig
    BY <2>6 DEF FindConfig
  <2>7. CASE LookForConfig
    BY <2>7 DEF LookForConfig, Look
  <2>8. CASE SaveConfig
    BY <2>8 DEF SaveConfig
  <2>9. CASE SetConfig
    BY <2>9 DEF SetConfig, SetConfigTo
  <2>10. CASE Verify
    BY <2>10 DEF Verify
  <2>11. CASE UndoConfig
    BY <2>11 DEF UndoConfig
  <2>12. CASE UndoPlugin
    BY <2>12 DEF UndoPlugin, LeftBy
  <2> QED
    BY <1>2, <2>1, <2>2, <2>3, <2>4, <2>5, <2>6, <2>7, <2>8, <2>9, <2>10, <2>11, <2>12
<1>3. CASE SaveBridge
  BY <1>3 DEF SaveBridge, MoveBridge
<1>4. CASE MarkBridge
  BY <1>4 DEF MarkBridge
<1>5. CASE ExtractBridge
  BY <1>5 DEF ExtractBridge, ExtractThen
<1>6. CASE Raise
  BY <1>6 DEF Raise
<1>7. CASE UndoBridge
  BY <1>7 DEF UndoBridge, LeftBy
<1>8. CASE Crash
  BY <1>8 DEF Crash
<1> QED BY <1>1, <1>2, <1>3, <1>4, <1>5, <1>6, <1>7, <1>8 DEF Next, Install, Undo

\* The configuration's invariant survives every step.
LEMMA ConfigStep == IInv /\ [Next]_vars => ConfigInv'
<1> SUFFICES ASSUME IInv, [Next]_vars PROVE ConfigInv'
  OBVIOUS
<1>1. CASE UNCHANGED vars
  BY <1>1 DEF IInv, ConfigInv, ConfigUntouched, ConfigIsKnown, Reporting, Setting, At, AtFirst, vars, home, backups, flags,
              configVars, outcome
<1> USE InstallAssumption DEF IInv, TypeOK, Phase, ConfigInv, ConfigUntouched, ConfigIsKnown, Reporting, Setting, At,
        AtFirst, Goto, Working, Undoing, Parts, Contents, home, backups, flags,
        configVars, outcome
<1>2. CASE Check \/ SavePlugin \/ MarkPlugin \/ DeployPlugin \/ Download \/ SaveBridge
           \/ MarkBridge \/ ExtractBridge \/ Verify \/ UndoBridge \/ UndoPlugin
  <2>1. CASE Check
    BY <2>1 DEF Check
  <2>2. CASE SavePlugin
    BY <2>2 DEF SavePlugin
  <2>3. CASE MarkPlugin
    BY <2>3 DEF MarkPlugin
  <2>4. CASE DeployPlugin
    BY <2>4 DEF DeployPlugin
  <2>5. CASE Download
    BY <2>5 DEF Download
  <2>6. CASE SaveBridge
    BY <2>6 DEF SaveBridge, MoveBridge
  <2>7. CASE MarkBridge
    BY <2>7 DEF MarkBridge
  <2>8. CASE ExtractBridge
    BY <2>8 DEF ExtractBridge, ExtractThen
  <2>9. CASE Verify
    BY <2>9 DEF Verify
  <2>10. CASE UndoBridge
    BY <2>10 DEF UndoBridge, LeftBy
  <2>11. CASE UndoPlugin
    BY <2>11 DEF UndoPlugin, LeftBy
  <2> QED
    BY <1>2, <2>1, <2>2, <2>3, <2>4, <2>5, <2>6, <2>7, <2>8, <2>9, <2>10, <2>11
<1>3. CASE FindConfig
  BY <1>3 DEF FindConfig
<1>4. CASE LookForConfig
  BY <1>4 DEF LookForConfig, Look
<1>5. CASE SaveConfig
  BY <1>5 DEF SaveConfig
<1>6. CASE SetConfig
  BY <1>6 DEF SetConfig, SetConfigTo
<1>7. CASE Raise
  BY <1>7 DEF Raise
<1>8. CASE UndoConfig
  BY <1>8 DEF UndoConfig
<1>9. CASE Crash
  BY <1>9 DEF Crash
<1> QED BY <1>1, <1>2, <1>3, <1>4, <1>5, <1>6, <1>7, <1>8, <1>9 DEF Next, Install, Undo

\* The invariant holds always.
THEOREM Invariance == Spec => []IInv
<1>1. IInv /\ [Next]_vars => IInv'
  BY TypeStep, PhaseStep, PluginStep, BridgeStep, ConfigStep DEF IInv
<1> QED BY InitInv, <1>1, PTL DEF Spec

\* Every variable of the installation keeps its type.
THEOREM TypeCorrect == Spec => []TypeOK
<1>1. IInv => TypeOK
  BY DEF IInv
<1> QED BY Invariance, <1>1, PTL

\* Whatever the home had at first, and whichever step raises, a rollback that reports
\* no error restores plugin, bridge and configuration, each but for the points that
\* RolledBack excepts for that part.
THEOREM FailedInstallIsUndone == Spec => []RolledBack
<1>1. IInv => RolledBack
  BY DEF IInv, TypeOK, Phase, PluginInv, BridgeInv, ConfigInv, PluginUntouched,
         BridgeUntouched, ConfigUntouched, RolledBack, CleanlyUndone, ConfigIsKnown,
         RestoredConfig, Working, Undoing
<1> QED BY Invariance, <1>1, PTL

\* An installation that is done left everything it installs whole.
THEOREM DoneIsWhole == Spec => []InstalledIsWhole
<1>1. IInv => InstalledIsWhole
  BY DEF IInv, PluginInv, BridgeInv, ConfigInv, InstalledIsWhole
<1> QED BY Invariance, <1>1, PTL

\* No plugin and no bridge the home had is lost, whatever fails, is interrupted or killed,
\* and no configuration that the installer knew of.
THEOREM NothingPriorIsLost == Spec => []PriorSurvives
<1>1. IInv => PriorSurvives
  BY DEF IInv, PluginInv, BridgeInv, ConfigInv, ConfigIsKnown, PriorSurvives, AtFirst
<1> QED BY Invariance, <1>1, PTL

=============================================================================
