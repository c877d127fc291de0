------------------------ MODULE InstallCommandProofs ------------------------
(***************************************************************************)
(* The install command runs InstallTransaction, so what is proved of that  *)
(* holds of the command; it starts it for an approved plan only, with the  *)
(* launcher of the plan; and the runtime of the plan is no guess and, if   *)
(* HERMES_HOME names a home of it, has that home, whatever the machines.   *)
(***************************************************************************)
EXTENDS InstallCommand, InstallTransactionProofs, FiniteSetTheorems, SequenceTheorems

LEMMA InitMaps == CommandInit => Init
  BY DEF CommandInit

LEMMA NextMaps == [CommandNext]_allVars => [Next]_vars
<1> SUFFICES ASSUME [CommandNext]_allVars PROVE Next \/ UNCHANGED vars
  OBVIOUS
<1>1. CASE RefuseUnnamed BY <1>1 DEF RefuseUnnamed
<1>2. CASE Discover BY <1>2 DEF Discover
<1>3. CASE Requested
  BY <1>3 DEF Requested, Name, Choose, GiveUpChoice
<1>4. CASE Preselect
  BY <1>4 DEF Preselect, PreselectAmong, Choose, GiveUpChoice
<1>5. CASE Answer
  BY <1>5 DEF Answer, Name, Choose, GiveUpChoice
<1>6. CASE BuildPlan BY <1>6 DEF BuildPlan, Planned
<1>7. CASE Hash BY <1>7 DEF Hash
<1>8. CASE Show BY <1>8 DEF Show, ShowTo
<1>9. CASE Refuse BY <1>9 DEF Refuse, Next, Install
<1>10. CASE CompareDigest BY <1>10 DEF CompareDigest
<1>11. CASE Identify BY <1>11 DEF Identify, IdentifyIf, Next, Install
<1>12. CASE Transact BY <1>12 DEF Transact
<1>13. CASE Update BY <1>13 DEF Update
<1>14. CASE UNCHANGED allVars BY <1>14 DEF allVars
<1> QED
  BY <1>1, <1>2, <1>3, <1>4, <1>5, <1>6, <1>7, <1>8, <1>9, <1>10, <1>11, <1>12, <1>13,
     <1>14 DEF CommandNext

\* The command is the transaction with a beginning: what it does to the home is an
\* installation of InstallTransaction (cli.py main calls execute_install_plan once).
THEOREM CommandRunsTransaction == CommandSpec => Spec
  BY InitMaps, NextMaps, PTL DEF CommandSpec, Spec

\* Whatever runtime was chosen and however the launcher changed meanwhile, a failed
\* installation is undone (the rollback of execute_install_plan).
THEOREM CommandIsUndone == CommandSpec => []RolledBack
  BY CommandRunsTransaction, FailedInstallIsUndone, PTL

\* Whatever raises or is killed, what the home had is in its place or in a backup.
THEOREM CommandLosesNothing == CommandSpec => []PriorSurvives
  BY CommandRunsTransaction, NothingPriorIsLost, PTL

\* An install that reports success has put everything of the plan in place
\* (execute_install_plan's return is the only way to "done").
THEOREM CommandIsWhole == CommandSpec => []InstalledIsWhole
  BY CommandRunsTransaction, DoneIsWhole, PTL

-----------------------------------------------------------------------------
(* the start of the transaction *)

\* the transaction is under way just when the command is in its last step
InStep == cpc # "install" <=> pc \in {"check", "refused"}

\* --yes goes with --runtime once the refusal is behind, and an approved plan is not dry
Consented ==
    /\ cpc \notin {"discover", "blocked"} => (argv.yes => argv.runtime)
    /\ cpc \in {"apply", "identify", "install"} => approved /\ ~argv.dryRun

\* between the two comparisons the digest still agrees, unless the launcher changed
DigestAgrees ==
    cpc = "identify" /\ ~touched => live # NoPath /\ live.digest = plan.digest

StartInv == InStep /\ Consented /\ DigestAgrees /\ StartsAsPlanned

LEMMA StartInvInit == CommandInit => StartInv
  BY DEF CommandInit, Init, StartInv, InStep, Consented, DigestAgrees, StartsAsPlanned

\* the transaction leaves its beginning behind
LEMMA NeverBack ==
  ASSUME Next, pc \notin {"check", "refused"}
  PROVE  pc' \notin {"check", "refused", "save_plugin"}
<1>1. CASE Install
  BY <1>1 DEF Install, Check, SavePlugin, MarkPlugin, DeployPlugin, Download, SaveBridge,
      MoveBridge, MarkBridge, ExtractBridge, ExtractThen, FindConfig, LookForConfig, Look,
      SaveConfig, SetConfig, SetConfigTo, Verify, Goto
<1>2. CASE Undo
  BY <1>2 DEF Undo, Raise, UndoConfig, UndoBridge, UndoPlugin, Goto
<1>3. CASE Crash
  BY <1>3 DEF Crash
<1> QED
  BY <1>1, <1>2, <1>3 DEF Next

LEMMA StartInvNext == StartInv /\ [CommandNext]_allVars => StartInv'
<1> SUFFICES ASSUME StartInv, [CommandNext]_allVars PROVE StartInv'
  OBVIOUS
<1> USE DEF StartInv, InStep, Consented, DigestAgrees, StartsAsPlanned, SourceAgrees,
            LiveSource, CommandStep
<1>1. CASE RefuseUnnamed
  BY <1>1 DEF RefuseUnnamed, vars, choiceVars, planVars, liveVars
<1>2. CASE Discover
  BY <1>2 DEF Discover, vars, planVars, liveVars
<1>3. ASSUME NEW from \in {"select", "ask"}, NEW r, Choose(from, r) PROVE StartInv'
  BY <1>3 DEF Choose, vars, planVars
<1>4. ASSUME NEW from \in {"select", "ask"}, NEW reason \in {"not_found"},
             GiveUpChoice(from, reason)
      PROVE  StartInv'
  BY <1>4 DEF GiveUpChoice, vars, choiceVars, planVars, liveVars
<1>5. CASE Requested
  BY <1>3, <1>4, <1>5 DEF Requested, Name
<1>6. CASE Answer
  BY <1>3, <1>4, <1>6 DEF Answer, Name
<1>7. CASE Preselect
  BY <1>3, <1>4, <1>7 DEF Preselect, PreselectAmong, vars, planVars, liveVars
<1>8. CASE BuildPlan
  BY <1>8 DEF BuildPlan, Planned, vars, liveVars
<1>9. CASE Hash
  BY <1>9 DEF Hash, vars, choiceVars, liveVars
<1>10. CASE Show
  BY <1>10 DEF Show, ShowTo, vars, choiceVars, liveVars
<1>11. CASE Refuse
  BY <1>11 DEF Refuse, Check, Goto, choiceVars, planVars, liveVars
<1>12. CASE CompareDigest
  BY <1>12 DEF CompareDigest, vars, choiceVars, planVars, liveVars
<1>13. CASE Identify
  BY <1>13 DEF Identify, IdentifyIf, Check, Goto, choiceVars, planVars, liveVars
<1>14. CASE Transact
  BY <1>14, NeverBack DEF Transact, choiceVars
<1>15. CASE Update
  BY <1>15 DEF Update, vars, choiceVars, planVars
<1>16. CASE UNCHANGED allVars
  BY <1>16 DEF allVars, commandVars, vars, choiceVars, planVars, liveVars
<1> QED
  BY <1>1, <1>2, <1>5, <1>6, <1>7, <1>8, <1>9, <1>10, <1>11, <1>12, <1>13, <1>14, <1>15,
     <1>16 DEF CommandNext

THEOREM StartInvariant == CommandSpec => []StartInv
  BY StartInvInit, StartInvNext, PTL DEF CommandSpec

\* The home is not touched before an approval that named or showed the runtime
\* (cli.py 189-221, installer.py require_approval).
THEOREM NothingIsUnapproved == CommandSpec => []NothingUnapproved
<1>1. StartInv => NothingUnapproved
  BY DEF StartInv, InStep, Consented, NothingUnapproved
<1> QED
  BY <1>1, StartInvariant, PTL

\* The installation starts with the launcher and version of the plan, and with its
\* checkout or, where discovery knew none either, an unknown one, unless the launcher was
\* changed after the comparison had begun (installer.py 320-347).
THEOREM PlanIsStarted == CommandSpec => []StartsAsPlanned
<1>1. StartInv => StartsAsPlanned
  BY DEF StartInv
<1> QED
  BY <1>1, StartInvariant, PTL

-----------------------------------------------------------------------------
(* the runtimes of a machine, RuntimeChoice *)

\* a set of places has a first one
LEMMA LeastPlace ==
  ASSUME NEW S \in SUBSET Nat, S # {}
  PROVE  \E i \in S : \A j \in S : i <= j
<1>1. PICK i \in S : \A j \in S : ~ (<<j, i>> \in OpToRel(<, Nat))
  BY NatLessThanWellFounded, WFMin, Zenon
<1>2. \A j \in S : ~ (j < i)
  BY <1>1 DEF OpToRel
<1> QED
  BY <1>2

\* next() finds a member of the group, and one that passes if there is one
LEMMA FirstIsThere ==
  ASSUME NEW candidates, NEW group \in SUBSET Nat, group # {},
         NEW passing \in SUBSET group
  PROVE  \E i \in group : /\ FirstOf(candidates, group, passing) = candidates[i]
                          /\ passing # {} => i \in passing
<1> DEFINE places == IF passing # {} THEN passing ELSE group
           first == CHOOSE i \in places : \A j \in places : i <= j
<1>1. places \in SUBSET Nat /\ places # {}
  OBVIOUS
<1>2. first \in places
  BY <1>1, LeastPlace
<1>3. FirstOf(candidates, group, passing) = candidates[first]
  BY DEF FirstOf
<1> QED
  BY <1>2, <1>3

\* An entry of classify: id, estate and home are those of one candidate of the group,
\* the explicit home if that is one of them; launcher, checkout and what it printed those
\* of one that works, if one does.
LEMMA RuntimeIsOfItsGroup ==
  ASSUME NEW candidates, NEW group \in SUBSET Nat, group # {}
  PROVE  LET r == RuntimeOf(candidates, group) IN
         /\ \E i \in group :
             /\ r.id = candidates[i].id /\ r.estate = candidates[i].estate
             /\ r.home = candidates[i].home
             /\ (\E j \in group : candidates[j].id = "explicit-home") => r.id = "explicit-home"
         /\ \E i \in group :
             /\ r.root = candidates[i].root /\ r.exe = candidates[i].exe
             /\ r.printed = candidates[i].printed /\ r.linked = candidates[i].linked
             /\ r.usable = candidates[i].usable
             /\ (\E j \in group : candidates[j].usable) => r.usable
         /\ r.active <=> r.usable /\ \E i \in group : candidates[i].hint
<1> DEFINE explicit == {i \in group : candidates[i].id = "explicit-home"}
           working == {i \in group : candidates[i].usable}
<1>1. PICK p \in group : /\ FirstOf(candidates, group, explicit) = candidates[p]
                         /\ explicit # {} => p \in explicit
  BY FirstIsThere
<1>2. PICK s \in group : /\ FirstOf(candidates, group, working) = candidates[s]
                         /\ working # {} => s \in working
  BY FirstIsThere
<1> QED
  BY <1>1, <1>2 DEF RuntimeOf, Entry, Primary, Selected, Hinted

-----------------------------------------------------------------------------
(* the candidates of a machine *)

Ids == {"desktop-override", "explicit-home", "windows-current", "windows-legacy",
        "posix-current", "path-hermes"} \union Distros

Places == Checkouts \union {"linux", "user", "cwd"}

CandidateRecords ==
    [id : Ids, estate : {"host"} \union Distros, home : Places,
     root : Roots \union {NoPath}, exe : Launchers \union {NoPath}, hint : BOOLEAN]

\* what a candidate is like: what points to a Hermes knows its launcher, of the launchers
\* only the wrapper tells no checkout, and the explicit home has one
CandidatesOf(m) == {c \in CandidateRecords :
    /\ c.hint => c.exe # NoPath
    /\ c.root = NoPath /\ c.exe # NoPath => c.exe = "wrapper"
    /\ c.id = "explicit-home" => c.home = m.hermesHome /\ c.root # NoPath}

LEMMA SeqOfEight ==
  ASSUME NEW S, NEW s1 \in Seq(S), NEW s2 \in Seq(S), NEW s3 \in Seq(S), NEW s4 \in Seq(S),
         NEW s5 \in Seq(S), NEW s6 \in Seq(S), NEW s7 \in Seq(S), NEW s8 \in Seq(S)
  PROVE  s1 \o s2 \o s3 \o s4 \o s5 \o s6 \o s7 \o s8 \in Seq(S)
<1>1. \A s, t \in Seq(S) : s \o t \in Seq(S)
  BY ConcatProperties
<1>2. s1 \o s2 \o s3 \o s4 \in Seq(S)
  BY <1>1
<1>3. s1 \o s2 \o s3 \o s4 \o s5 \o s6 \in Seq(S)
  BY <1>1, <1>2
<1> QED
  BY <1>1, <1>3

LEMMA CandidatesHaveShape ==
  ASSUME NEW m \in Machine
  PROVE  Candidates(m) \in Seq(CandidatesOf(m))
<1> USE ChoiceAssumption
<1> DEFINE C == CandidatesOf(m)
<1>0. ASSUME NEW condition, NEW s, condition => s \in Seq(C)
      PROVE  When(condition, s) \in Seq(C)
  BY <1>0 DEF When
<1>1. m.desktop # NoPath =>
        Found("desktop-override", "host", DesktopHome(m), m.desktop, m.desktop, TRUE)
            \in Seq(C)
  BY DEF Found, Machine, DesktopHome, CandidatesOf, CandidateRecords, Ids, Places, Enclosing,
         Explicit, Checkouts, Launchers, Roots, Distros
<1>2. Explicit(m) =>
        Found("explicit-home", "host", m.hermesHome, m.hermesHome, m.hermesHome, TRUE)
            \in Seq(C)
  BY DEF Found, Machine, CandidatesOf, CandidateRecords, Ids, Places, Enclosing,
         Explicit, Checkouts, Launchers, Roots, Distros
<1>3. Found("windows-current", "host", "current", "current", "current", TRUE) \in Seq(C)
  BY DEF Found, Machine, CandidatesOf, CandidateRecords, Ids, Places, Enclosing,
         Explicit, Checkouts, Launchers, Roots, Distros
<1>4. ASSUME NEW root \in {"dot", NoPath}
      PROVE  Found("windows-legacy", "host", "dot", root, root, FALSE) \in Seq(C)
  BY DEF Found, Machine, CandidatesOf, CandidateRecords, Ids, Places, Enclosing,
         Explicit, Checkouts, Launchers, Roots, Distros
<1>5. ~Explicit(m) =>
        Found("posix-current", "host", "dot", "dot", "dot", TRUE) \in Seq(C)
  BY DEF Found, Machine, CandidatesOf, CandidateRecords, Ids, Places, Enclosing,
         Explicit, Checkouts, Launchers, Roots, Distros
<1>6. m.path # NoPath =>
        Found("path-hermes", "host", PathHome(m), Enclosing(m.path), m.path, TRUE)
            \in Seq(C)
  <2>1. PathHome(m) \in Places
    BY DEF PathHome, Machine, Enclosing, Explicit, Places, Checkouts
  <2> QED
    BY <2>1 DEF Found, Machine, CandidatesOf, CandidateRecords, Ids, Enclosing,
         Checkouts, Launchers, Roots, Distros
<1>7. ASSUME NEW distro \in Distros PROVE Distribution(m, distro) \in Seq(C)
  <2> DEFINE c == [id |-> distro, estate |-> distro, home |-> "linux", root |-> "linux",
                   exe |-> distro, hint |-> FALSE]
  <2>1. c \in CandidateRecords
    BY <1>7 DEF CandidateRecords, Ids, Places, Launchers, Roots
  <2>2. distro # "explicit-home" /\ NoPath \notin {"linux", distro}
    BY <1>7 DEF Distros, Launchers, Roots
  <2>3. c \in C
    BY <1>7, <2>1, <2>2 DEF CandidatesOf
  <2> HIDE DEF c, C
  <2>4. <<c>> \in Seq(C)
    BY <2>3
  <2>5. When(distro \in m.distros, <<c>>) \in Seq(C)
    BY <2>4, <1>0
  <2> QED
    BY <2>5, Zenon DEF Distribution, Found, c
<1> DEFINE
      desktop == When(m.desktop # NoPath,
          Found("desktop-override", "host", DesktopHome(m), m.desktop, m.desktop, TRUE))
      explicit == When(Explicit(m),
          Found("explicit-home", "host", m.hermesHome, m.hermesHome, m.hermesHome, TRUE))
      current == When(m.windows /\ "current" \in m.homes,
          Found("windows-current", "host", "current", "current", "current", TRUE))
      legacy == When(m.windows /\ "dot" \in m.homes,
          LET root == IF m.dotSource THEN "dot" ELSE NoPath IN
          Found("windows-legacy", "host", "dot", root, root, FALSE))
      posix == When(~m.windows /\ ~Explicit(m) /\ "dot" \in m.homes,
          Found("posix-current", "host", "dot", "dot", "dot", TRUE))
      path == When(m.path # NoPath,
          Found("path-hermes", "host", PathHome(m), Enclosing(m.path), m.path, TRUE))
      a == Distribution(m, "wsl:a")
      b == Distribution(m, "wsl:b")
<1>8. /\ desktop \in Seq(C) /\ explicit \in Seq(C) /\ current \in Seq(C)
      /\ posix \in Seq(C) /\ path \in Seq(C)
  BY <1>0, <1>1, <1>2, <1>3, <1>5, <1>6
<1>9. legacy \in Seq(C)
  BY <1>0, <1>4
<1>10. a \in Seq(C) /\ b \in Seq(C)
  BY <1>7 DEF Distros
<1>11. Candidates(m) = desktop \o explicit \o current \o legacy \o posix \o path \o a \o b
  BY DEF Candidates
<1> HIDE DEF C, desktop, explicit, current, legacy, posix, path, a, b
<1>12. desktop \o explicit \o current \o legacy \o posix \o path \o a \o b \in Seq(C)
  BY <1>8, <1>9, <1>10, SeqOfEight
<1> QED
  BY <1>11, <1>12 DEF C

-----------------------------------------------------------------------------
(* the probed candidates and their groups *)

\* what a probed candidate is like on the machine m
ProbedOn(m, p) ==
    /\ p.id \in Ids /\ p.estate \in {"host"} \union Distros
    /\ p.exe \in Launchers \union {NoPath}
    /\ p.hint \in BOOLEAN /\ p.usable \in BOOLEAN
    /\ p.root \in Roots \union {NoPath} /\ p.printed \in Roots \union {NoPath}
    /\ p.linked \in Checkouts \union {NoPath}
    /\ p.hint \/ p.usable => p.exe # NoPath
    /\ p.root = NoPath /\ p.exe # NoPath => p.exe = "wrapper"
    /\ p.id = "explicit-home" => p.home = m.hermesHome /\ p.root # NoPath

LEMMA ProbeHasShape ==
  ASSUME NEW m \in Machine, NEW c \in CandidatesOf(m)
  PROVE  ProbedOn(m, Probe(m, c))
<1> DEFINE printed == Printed(m, c.exe)
           linked == Linked(m, c.exe)
<1>1. c \in CandidateRecords
  BY DEF CandidatesOf
<1>2. printed \in Roots \union {NoPath}
  BY <1>1 DEF Printed, Machine, CandidateRecords
<1>3. linked \in Checkouts \union {NoPath}
  BY DEF Linked, Enclosing, Machine
<1> HIDE DEF printed, linked
<1>4. Probe(m, c) =
        [id |-> c.id, estate |-> c.estate, home |-> c.home, exe |-> c.exe, hint |-> c.hint,
         usable |-> c.exe # NoPath /\ c.exe \in m.works,
         printed |-> printed, linked |-> linked,
         root |-> IF printed # NoPath THEN printed ELSE c.root]
  BY DEF Probe, printed, linked
<1> QED
  BY <1>1, <1>2, <1>3, <1>4 DEF ProbedOn, CandidatesOf, CandidateRecords

LEMMA ProbedHasShape ==
  ASSUME NEW m \in Machine
  PROVE  /\ DOMAIN Probed(m) \in SUBSET Nat
         /\ IsFiniteSet(DOMAIN Probed(m))
         /\ \A i \in DOMAIN Probed(m) : ProbedOn(m, Probed(m)[i])
<1> DEFINE candidates == Candidates(m)
<1>1. candidates \in Seq(CandidatesOf(m))
  BY CandidatesHaveShape
<1>2. DOMAIN Probed(m) = 1..Len(candidates) /\ Len(candidates) \in Nat
  BY <1>1 DEF Probed
<1>3. \A i \in DOMAIN Probed(m) :
        candidates[i] \in CandidatesOf(m) /\ Probed(m)[i] = Probe(m, candidates[i])
  BY <1>1, <1>2 DEF Probed
<1> HIDE DEF candidates
<1>4. IsFiniteSet(1..Len(candidates))
  BY <1>2, FS_Interval
<1> QED
  BY <1>2, <1>3, <1>4, ProbeHasShape

\* One identity is one Hermes: estate and checkout (_identity, discovery.py).
LEMMA OneIdentityOneBackend ==
  ASSUME NEW m \in Machine, NEW p, NEW q, ProbedOn(m, p), ProbedOn(m, q),
         Identity(p) = Identity(q)
  PROVE  SameBackend(p, q)
<1>1. "checkout" \notin Ids /\ "launcher" \notin Ids
  BY DEF Ids, Distros
<1>2. p.id \in Ids /\ q.id \in Ids
  BY DEF ProbedOn
<1> QED
  BY <1>1, <1>2 DEF Identity, IdentityIn, SameBackend

\* One Hermes is one identity, if its checkout is known or it has a launcher: without a
\* checkout there is but one launcher, the wrapper.
LEMMA OneBackendOneIdentity ==
  ASSUME NEW m \in Machine, NEW p, NEW q, ProbedOn(m, p), ProbedOn(m, q),
         SameBackend(p, q), p.root # NoPath \/ (p.exe # NoPath /\ q.exe # NoPath)
  PROVE  Identity(p) = Identity(q)
  BY DEF Identity, IdentityIn, SameBackend, ProbedOn

\* What classify says of the group of one candidate, in terms of the candidates.
LEMMA RuntimeOfCandidate ==
  ASSUME NEW m \in Machine, NEW i \in DOMAIN Probed(m)
  PROVE  LET all == Probed(m)
             r == RuntimeOf(all, Group(all, Identity(all[i]))) IN
         /\ r \in Classify(all)
         /\ SameBackend(all[i], r)
         /\ all[i].usable => r.usable
         /\ r.active <=> r.usable /\ \E j \in DOMAIN all :
                            Identity(all[j]) = Identity(all[i]) /\ all[j].hint
         /\ \E j \in DOMAIN all : r.id = all[j].id /\ r.home = all[j].home
         /\ (\E j \in DOMAIN all :
                Identity(all[j]) = Identity(all[i]) /\ all[j].id = "explicit-home")
              => r.id = "explicit-home"
         /\ \E j \in DOMAIN all :
              /\ r.exe = all[j].exe /\ r.root = all[j].root /\ r.printed = all[j].printed
              /\ r.linked = all[j].linked /\ r.usable = all[j].usable
              /\ r.estate = all[j].estate
<1> DEFINE f == Probed(m)
           group == Group(f, Identity(f[i]))
           r == RuntimeOf(f, group)
<1>1. /\ group \in SUBSET DOMAIN f /\ i \in group
      /\ \A j \in DOMAIN f : j \in group <=> Identity(f[j]) = Identity(f[i])
  BY DEF Group
<1>2. DOMAIN f \in SUBSET Nat /\ \A j \in DOMAIN f : ProbedOn(m, f[j])
  BY ProbedHasShape
<1>3. r \in Classify(f)
  BY DEF Classify
<1> HIDE DEF f, group
<1>4. group \in SUBSET Nat /\ group # {}
  BY <1>1, <1>2
<1>5. \A j \in group : SameBackend(f[i], f[j])
  BY <1>1, <1>2, OneIdentityOneBackend
<1>6. PICK a \in group :
        /\ r.id = f[a].id /\ r.estate = f[a].estate /\ r.home = f[a].home
        /\ (\E j \in group : f[j].id = "explicit-home") => r.id = "explicit-home"
  BY <1>4, RuntimeIsOfItsGroup
<1>7. PICK b \in group : /\ r.root = f[b].root /\ r.exe = f[b].exe
                         /\ r.printed = f[b].printed /\ r.linked = f[b].linked
                         /\ r.usable = f[b].usable
                         /\ (\E j \in group : f[j].usable) => r.usable
  BY <1>4, RuntimeIsOfItsGroup
<1>8. r.active <=> r.usable /\ \E j \in group : f[j].hint
  BY <1>4, RuntimeIsOfItsGroup
<1> HIDE DEF r
<1>9. SameBackend(f[i], r) /\ r.estate = f[b].estate
  BY <1>5, <1>6, <1>7 DEF SameBackend
<1>10. f[i].usable => r.usable
  BY <1>1, <1>7
<1> QED
  BY <1>1, <1>3, <1>6, <1>7, <1>8, <1>9, <1>10 DEF f, r, group

-----------------------------------------------------------------------------
(* the choice among the runtimes *)

LEMMA ClassifyIsFinite ==
  ASSUME NEW m \in Machine
  PROVE  IsFiniteSet(Classify(Probed(m)))
<1> DEFINE f == Probed(m)
           g == [i \in DOMAIN f |-> RuntimeOf(f, Group(f, Identity(f[i])))]
<1>1. IsFiniteSet(DOMAIN f)
  BY ProbedHasShape
<1>2. Classify(f) = {g[i] : i \in DOMAIN f}
  BY DEF Classify
<1>3. g \in Surjection(DOMAIN f, Classify(f))
  <2>1. g \in [DOMAIN f -> Classify(f)]
    BY <1>2
  <2> QED
    BY <1>2, <2>1 DEF Surjection
<1> QED
  BY <1>1, <1>3, FS_Surjection

\* no runtime is preselected that does not work
LEMMA PreselectedAreUsable ==
  ASSUME NEW candidates
  PROVE  Preselected(Classify(candidates)) \in SUBSET Usable(Classify(candidates))
<1>1. ASSUME NEW group PROVE LET r == RuntimeOf(candidates, group) IN r.active => r.usable
  BY DEF RuntimeOf, Entry
<1>2. \A r \in Classify(candidates) : r.active => r.usable
  BY <1>1 DEF Classify
<1> QED
  BY <1>2 DEF Preselected, Usable

\* Every runtime is that of a candidate: the one it runs, and the one it is called after.
LEMMA RuntimeHasCandidates ==
  ASSUME NEW m \in Machine, NEW r \in Classify(Probed(m))
  PROVE  /\ \E p \in Range(Probed(m)) :
                ProbedOn(m, p) /\ r.id = p.id /\ r.home = p.home
         /\ \E p \in Range(Probed(m)) :
                /\ ProbedOn(m, p) /\ r.exe = p.exe /\ r.root = p.root
                /\ r.printed = p.printed /\ r.linked = p.linked
                /\ r.usable = p.usable /\ r.estate = p.estate
<1> DEFINE f == Probed(m)
<1>1. PICK i \in DOMAIN f : r = RuntimeOf(f, Group(f, Identity(f[i])))
  BY DEF Classify
<1>2. \A j \in DOMAIN f : f[j] \in Range(f) /\ ProbedOn(m, f[j])
  BY ProbedHasShape DEF Range
<1>3. /\ \E j \in DOMAIN f : r.id = f[j].id /\ r.home = f[j].home
      /\ \E j \in DOMAIN f : /\ r.exe = f[j].exe /\ r.root = f[j].root
                             /\ r.printed = f[j].printed /\ r.linked = f[j].linked
                             /\ r.usable = f[j].usable /\ r.estate = f[j].estate
  BY <1>1, RuntimeOfCandidate
<1> QED
  BY <1>2, <1>3

\* What a plan is made of: a usable runtime has a launcher, and what is known of its
\* checkout comes from a candidate.
LEMMA UsableIsRunnable ==
  ASSUME NEW m \in Machine, NEW r \in Usable(Classify(Probed(m)))
  PROVE  /\ r.usable /\ r.exe \in Launchers
         /\ r.root \in Roots \union {NoPath} /\ r.printed \in Roots \union {NoPath}
         /\ r.linked \in Checkouts \union {NoPath}
<1>1. r \in Classify(Probed(m)) /\ r.usable
  BY DEF Usable
<1>2. PICK p : /\ ProbedOn(m, p) /\ r.exe = p.exe /\ r.root = p.root
               /\ r.printed = p.printed /\ r.linked = p.linked
               /\ r.usable = p.usable
  BY <1>1, RuntimeHasCandidates
<1> QED
  BY <1>1, <1>2 DEF ProbedOn

\* Where there is one runtime to preselect, every candidate that works is that Hermes, or
\* something points to that Hermes and nothing to the candidate's.
LEMMA OneToPreselect ==
  ASSUME NEW m \in Machine, NEW r, Preselected(Classify(Probed(m))) = {r},
         NEW p \in Range(Probed(m)), p.usable
  PROVE  \/ SameBackend(p, r)
         \/ /\ \E q \in Range(Probed(m)) : q.hint /\ SameBackend(q, r)
            /\ \A q \in Range(Probed(m)) : q.hint => ~SameBackend(q, p)
<1> DEFINE f == Probed(m)
           active == {s \in Classify(f) : s.active}
<1>0. \A j \in DOMAIN f : ProbedOn(m, f[j])
  BY ProbedHasShape
<1>1. PICK i \in DOMAIN f : p = f[i]
  BY DEF Range
<1> DEFINE t == RuntimeOf(f, Group(f, Identity(f[i])))
<1>2. /\ t \in Classify(f) /\ SameBackend(p, t) /\ t.usable
      /\ t.active <=> \E j \in DOMAIN f : Identity(f[j]) = Identity(f[i]) /\ f[j].hint
  BY <1>1, RuntimeOfCandidate
<1>3. Preselected(Classify(f)) = IF active # {} THEN active ELSE Usable(Classify(f))
  BY DEF Preselected
<1> HIDE DEF t
<1>4. CASE active = {}
  BY <1>2, <1>3, <1>4 DEF Usable
<1>5. CASE active # {}
  <2>1. r \in Classify(f) /\ r.active
    BY <1>3, <1>5
  <2>2. PICK k \in DOMAIN f : r = RuntimeOf(f, Group(f, Identity(f[k])))
    BY <2>1 DEF Classify
  <2>3. /\ SameBackend(f[k], r)
        /\ \E j \in DOMAIN f : Identity(f[j]) = Identity(f[k]) /\ f[j].hint
    BY <2>1, <2>2, RuntimeOfCandidate
  <2>4. PICK j \in DOMAIN f : Identity(f[j]) = Identity(f[k]) /\ f[j].hint
    BY <2>3
  <2>5. SameBackend(f[j], r)
    BY <1>0, <2>3, <2>4, OneIdentityOneBackend DEF SameBackend
  <2>6. \E q \in Range(f) : q.hint /\ SameBackend(q, r)
    BY <2>4, <2>5 DEF Range
  <2>7. ASSUME NEW q \in Range(f), q.hint, SameBackend(q, p) PROVE SameBackend(p, r)
    <3>1. PICK l \in DOMAIN f : q = f[l]
      BY DEF Range
    <3>2. ProbedOn(m, p) /\ ProbedOn(m, q)
      BY <1>0, <1>1, <3>1
    <3>3. p.exe # NoPath /\ q.exe # NoPath
      BY <2>7, <3>2 DEF ProbedOn
    <3>4. Identity(q) = Identity(p)
      BY <2>7, <3>2, <3>3, OneBackendOneIdentity
    <3>5. t.active
      BY <1>1, <1>2, <2>7, <3>1, <3>4
    <3>6. t = r
      BY <1>2, <1>3, <1>5, <3>5
    <3> QED
      BY <1>2, <3>6
  <2> QED
    BY <2>6, <2>7
<1> QED
  BY <1>4, <1>5

\* A runtime that is the Hermes of HERMES_HOME is called after it and has its home.
LEMMA ExplicitNamesRuntime ==
  ASSUME NEW m \in Machine, NEW r \in Classify(Probed(m)), NEW p \in Range(Probed(m)),
         p.id = "explicit-home", SameBackend(p, r)
  PROVE  r.id = p.id /\ r.home = p.home
<1> DEFINE f == Probed(m)
<1>0. \A j \in DOMAIN f : ProbedOn(m, f[j])
  BY ProbedHasShape
<1>1. PICK k \in DOMAIN f : r = RuntimeOf(f, Group(f, Identity(f[k])))
  BY DEF Classify
<1>2. PICK i \in DOMAIN f : p = f[i]
  BY DEF Range
<1>3. SameBackend(f[k], r)
  BY <1>1, RuntimeOfCandidate
<1>4. Identity(p) = Identity(f[k])
  <2>1. SameBackend(p, f[k])
    BY <1>3 DEF SameBackend
  <2>2. p.root # NoPath
    BY <1>0, <1>2 DEF ProbedOn
  <2> QED
    BY <1>0, <1>2, <2>1, <2>2, OneBackendOneIdentity
<1>5. r.id = "explicit-home"
  BY <1>1, <1>2, <1>4, RuntimeOfCandidate
<1>6. PICK j \in DOMAIN f : r.id = f[j].id /\ r.home = f[j].home
  BY <1>1, RuntimeOfCandidate
<1> QED
  BY <1>0, <1>2, <1>5, <1>6 DEF ProbedOn

-----------------------------------------------------------------------------
(* the command until the plan is made *)

\* What was selected is a usable runtime of the probed machine, but for the home of
\* --hermes-home; if neither an option nor the user named it, it was the only one.
ChosenFrom(r) ==
    /\ \E target \in {r.home, "given"} : chosen = [r EXCEPT !.home = target]
    /\ ~argv.runtime /\ ~asked => Preselected(Classify(found)) = {r}

Discovered ==
    cpc \in {"select", "ask", "plan"} => \E m \in Machines : found = Probed(m)

ChoiceInv ==
    /\ Discovered
    /\ cpc = "ask" => asked
    /\ cpc = "plan" => \E r \in Usable(Classify(found)) : ChosenFrom(r)

LEMMA ChoiceInvInit == CommandInit => ChoiceInv
  BY DEF CommandInit, ChoiceInv, Discovered

\* a choice among the usable keeps the invariant if it was named or the only one
LEMMA ChoosePreserves ==
  ASSUME ChoiceInv, NEW from \in {"select", "ask"}, NEW r \in Usable(Classify(found)),
         Choose(from, r),
         argv.runtime \/ asked \/ Preselected(Classify(found)) = {r}
  PROVE  ChoiceInv'
<1>1. /\ cpc = from /\ cpc' = "plan" /\ argv' = argv /\ found' = found /\ asked' = asked
      /\ \E target \in {r.home, "given"} : chosen' = [r EXCEPT !.home = target]
  BY DEF Choose, CommandStep
<1>2. Discovered'
  BY <1>1 DEF ChoiceInv, Discovered
<1>3. ChosenFrom(r)'
  BY <1>1 DEF ChosenFrom
<1> QED
  BY <1>1, <1>2, <1>3 DEF ChoiceInv

LEMMA ChoiceInvNext == ChoiceInv /\ [CommandNext]_allVars => ChoiceInv'
<1> SUFFICES ASSUME ChoiceInv, [CommandNext]_allVars PROVE ChoiceInv'
  OBVIOUS
\* a step that leaves select, ask and plan alone, or ends the choice
<1>1. ASSUME cpc' \notin {"select", "ask", "plan"} PROVE ChoiceInv'
  BY <1>1 DEF ChoiceInv, Discovered
<1>2. ASSUME UNCHANGED <<argv, cpc, choiceVars>> PROVE ChoiceInv'
  BY <1>2 DEF ChoiceInv, Discovered, ChosenFrom, choiceVars
<1>3. CASE Discover
  BY <1>3 DEF Discover, Discoveries, CommandStep, ChoiceInv, Discovered
<1>4. ASSUME NEW from \in {"select", "ask"}, Name(from), argv.runtime \/ asked
      PROVE  ChoiceInv'
  BY <1>1, <1>4, ChoosePreserves DEF Name, GiveUpChoice, CommandStep
<1>5. CASE Requested
  BY <1>4, <1>5 DEF Requested
<1>6. CASE Answer
  <2>1. cpc = "ask"
    BY <1>6 DEF Answer, Name, Choose, GiveUpChoice, CommandStep
  <2> QED
    BY <1>4, <1>6, <2>1 DEF Answer, ChoiceInv
<1>7. CASE Preselect
  <2> DEFINE runtimes == Preselected(Classify(found))
  <2>1. CASE Cardinality(runtimes) = 1 /\ \E r \in runtimes : Choose("select", r)
    <3>1. PICK r \in runtimes : Choose("select", r)
      BY <2>1
    <3>2. cpc = "select"
      BY <3>1 DEF Choose, CommandStep
    <3>3. PICK m \in Machines : found = Probed(m)
      BY <3>2 DEF ChoiceInv, Discovered
    <3>4. IsFiniteSet(Classify(found))
      BY <3>3, ClassifyIsFinite, ChoiceAssumption
    <3>5. runtimes \in SUBSET Usable(Classify(found))
      BY PreselectedAreUsable
    <3>6. IsFiniteSet(runtimes)
      BY <3>4, <3>5, FS_Subset DEF Usable
    <3>7. runtimes = {r}
      BY <2>1, <3>6, FS_Singleton
    <3> QED
      BY <3>1, <3>5, <3>7, ChoosePreserves
  <2>2. CASE GiveUpChoice("select", "not_found")
    BY <1>1, <2>2 DEF GiveUpChoice, CommandStep
  <2>3. CASE CommandStep("select", "ask") /\ asked' = TRUE /\ UNCHANGED found
    BY <2>3 DEF CommandStep, ChoiceInv, Discovered
  <2> QED
    BY <1>7, <2>1, <2>2, <2>3 DEF Preselect, PreselectAmong
<1>8. CASE RefuseUnnamed
  BY <1>1, <1>8 DEF RefuseUnnamed, CommandStep
<1>9. CASE BuildPlan
  BY <1>1, <1>9 DEF BuildPlan, Planned, CommandStep
<1>10. CASE Hash
  BY <1>1, <1>10 DEF Hash, CommandStep
<1>11. CASE Show
  BY <1>1, <1>11 DEF Show, ShowTo, CommandStep
<1>12. CASE Refuse
  BY <1>1, <1>12 DEF Refuse, CommandStep
<1>13. CASE CompareDigest
  BY <1>1, <1>13 DEF CompareDigest, CommandStep
<1>14. CASE Identify
  BY <1>1, <1>14 DEF Identify, IdentifyIf, CommandStep
<1>15. CASE Transact
  BY <1>1, <1>15 DEF Transact, CommandStep
<1>16. CASE Update
  BY <1>2, <1>16 DEF Update
<1>17. CASE UNCHANGED allVars
  BY <1>2, <1>17 DEF allVars, commandVars
<1> QED
  BY <1>3, <1>5, <1>6, <1>7, <1>8, <1>9, <1>10, <1>11, <1>12, <1>13, <1>14, <1>15,
     <1>16, <1>17 DEF CommandNext

THEOREM ChoiceInvariant == CommandSpec => []ChoiceInv
  BY ChoiceInvInit, ChoiceInvNext, PTL DEF CommandSpec

\* On every machine, a runtime that nobody named is the only Hermes that could have been
\* meant (select_runtime, discovery.py 145-171).
THEOREM NothingIsGuessed == CommandSpec => []NoGuessing
<1>1. ChoiceInv => NoGuessing
  <2> SUFFICES ASSUME ChoiceInv, Unnamed, NEW p \in Range(found), p.usable
               PROVE  SameBackend(p, chosen) \/ (PointedTo(chosen) /\ ~PointedTo(p))
    BY DEF NoGuessing
  <2>1. PICK r \in Usable(Classify(found)) : ChosenFrom(r)
    BY DEF ChoiceInv, Unnamed
  <2>2. Preselected(Classify(found)) = {r}
    BY <2>1 DEF ChosenFrom, Unnamed
  <2>3. PICK m \in Machines : found = Probed(m)
    BY DEF ChoiceInv, Discovered, Unnamed, Discoveries
  <2>4. \/ SameBackend(p, r)
        \/ /\ \E q \in Range(found) : q.hint /\ SameBackend(q, r)
           /\ \A q \in Range(found) : q.hint => ~SameBackend(q, p)
    BY <2>2, <2>3, OneToPreselect, ChoiceAssumption
  <2>5. chosen.estate = r.estate /\ chosen.root = r.root
    BY <2>1 DEF ChosenFrom, Usable, Classify, RuntimeOf, Entry
  <2> QED
    BY <2>4, <2>5 DEF SameBackend, PointedTo
<1> QED
  BY <1>1, ChoiceInvariant, PTL

\* On every machine, a HERMES_HOME that has the selected Hermes is where the installation
\* goes, whichever candidate of the same checkout works (the explicit-home entry of a
\* group in classify).
THEOREM ExplicitHomeIsHonoured == CommandSpec => []HomeIsHonoured
<1>1. ChoiceInv => HomeIsHonoured
  <2> SUFFICES ASSUME ChoiceInv, cpc = "plan", chosen.home # "given",
                      NEW p \in Range(found), p.id = "explicit-home",
                      SameBackend(p, chosen)
               PROVE  chosen.id = p.id /\ chosen.home = p.home
    BY DEF HomeIsHonoured
  <2>1. PICK r \in Usable(Classify(found)) : ChosenFrom(r)
    BY DEF ChoiceInv
  <2>2. PICK m \in Machines : found = Probed(m)
    BY DEF ChoiceInv, Discovered
  <2>3. /\ chosen.id = r.id /\ chosen.home = r.home
        /\ chosen.estate = r.estate /\ chosen.root = r.root
    BY <2>1 DEF ChosenFrom, Usable, Classify, RuntimeOf, Entry
  <2>4. SameBackend(p, r)
    BY <2>3 DEF SameBackend
  <2> QED
    BY <2>2, <2>3, <2>4, ExplicitNamesRuntime, ChoiceAssumption DEF Usable
<1> QED
  BY <1>1, ChoiceInvariant, PTL

-----------------------------------------------------------------------------
(* the types of the command's own variables *)

Typing ==
    /\ argv \in [runtime : BOOLEAN, yes : BOOLEAN, dryRun : BOOLEAN]
    /\ cpc \in Over \union {"discover", "select", "ask", "plan", "hash", "show", "apply",
                            "identify", "install"}
    /\ asked \in BOOLEAN /\ touched \in BOOLEAN /\ approved \in BOOLEAN
    /\ live \in LiveLaunchers \union {NoPath}
    /\ plan \in Plans \union {NoPath}
    /\ cpc \in {"hash", "show", "apply", "identify"} => plan \in Plans

\* what ChoiceInv says of the runtime that is planned for
LEMMA ChosenIsRunnable ==
  ASSUME ChoiceInv, cpc = "plan"
  PROVE  /\ chosen.usable /\ chosen.exe \in Launchers
         /\ chosen.root \in Roots \union {NoPath}
         /\ chosen.linked \in Checkouts \union {NoPath}
<1>1. PICK r \in Usable(Classify(found)) : ChosenFrom(r)
  BY DEF ChoiceInv
<1>2. PICK m \in Machines : found = Probed(m)
  BY DEF ChoiceInv, Discovered
<1>3. /\ chosen.usable = r.usable /\ chosen.exe = r.exe
      /\ chosen.root = r.root /\ chosen.linked = r.linked
  BY <1>1 DEF ChosenFrom, Usable, Classify, RuntimeOf, Entry
<1> QED
  BY <1>1, <1>2, <1>3, UsableIsRunnable, ChoiceAssumption

LEMMA TypingInit == CommandInit => Typing
  BY DEF CommandInit, Typing, Over

\* a step of the choice, which reaches no launcher but that of Choose
LEMMA ChooseTypes ==
  ASSUME Typing, ChoiceInv, NEW from \in {"select", "ask"},
         NEW r \in Usable(Classify(found)), Choose(from, r)
  PROVE  Typing'
<1>1. cpc \in {"select", "ask"}
  BY DEF Choose, CommandStep
<1>2. PICK m \in Machines : found = Probed(m)
  BY <1>1 DEF ChoiceInv, Discovered
<1>3. r.printed \in {NoPath} \union Roots /\ r.linked \in {NoPath} \union Checkouts
  BY <1>2, UsableIsRunnable, ChoiceAssumption
<1>4. live' \in LiveLaunchers
  BY <1>3 DEF Choose, LiveLaunchers, Variants
<1> QED
  BY <1>4 DEF Typing, Choose, CommandStep, planVars, Over

LEMMA TypingNext == Typing /\ ChoiceInv /\ [CommandNext]_allVars => Typing'
<1> SUFFICES ASSUME Typing, ChoiceInv, [CommandNext]_allVars PROVE Typing'
  OBVIOUS
<1> USE DEF CommandStep, Over
<1>1. ASSUME NEW from \in {"select", "ask"}, Name(from) PROVE Typing'
  BY <1>1, ChooseTypes
     DEF Name, GiveUpChoice, Typing, choiceVars, planVars, liveVars
<1>2. CASE Requested \/ Answer
  BY <1>1, <1>2 DEF Requested, Answer
<1>3. CASE Preselect
  <2>1. Preselected(Classify(found)) \in SUBSET Usable(Classify(found))
    BY PreselectedAreUsable
  <2>2. ASSUME NEW r \in Preselected(Classify(found)), Choose("select", r) PROVE Typing'
    BY <2>1, <2>2, ChooseTypes
  <2> QED
    BY <1>3, <2>2
       DEF Preselect, PreselectAmong, GiveUpChoice, Typing, choiceVars, planVars, liveVars
<1>4. CASE RefuseUnnamed
  BY <1>4 DEF RefuseUnnamed, Typing, choiceVars, planVars, liveVars
<1>5. CASE Discover
  BY <1>5 DEF Discover, Typing, planVars, liveVars
<1>6. CASE BuildPlan
  <2>1. /\ UNCHANGED <<argv, asked, approved, liveVars>>
        /\ \/ cpc' = "blocked" /\ UNCHANGED plan
           \/ /\ cpc' = "hash"
              /\ SourceOf(chosen) # NoPath
              /\ plan' = [exe |-> chosen.exe, root |-> chosen.root,
                          source |-> SourceOf(chosen), version |-> 1, digest |-> NoPath]
    BY <1>6 DEF BuildPlan, Planned, Reports, PluginReady
  <2>2. cpc' = "hash" => plan' \in Plans
    BY <1>6, <2>1, ChosenIsRunnable DEF Plans, Variants, BuildPlan, SourceOf, Roots
  <2> QED
    BY <2>1, <2>2 DEF Typing, liveVars
<1>7. CASE Hash
  <2>1. plan' \in Plans
    BY <1>7 DEF Hash, Typing, Plans, LiveLaunchers
  <2> QED
    BY <1>7, <2>1 DEF Hash, Typing, choiceVars, liveVars
<1>8. CASE Show
  BY <1>8 DEF Show, ShowTo, Typing, choiceVars, liveVars
<1>9. CASE Refuse
  BY <1>9 DEF Refuse, Typing, choiceVars, planVars, liveVars
<1>10. CASE CompareDigest
  BY <1>10 DEF CompareDigest, Typing, choiceVars, planVars, liveVars
<1>11. CASE Identify
  BY <1>11 DEF Identify, IdentifyIf, Typing, choiceVars, planVars, liveVars
<1>12. CASE Transact
  BY <1>12 DEF Transact, Typing, choiceVars
<1>13. CASE Update
  <2>1. live' \in LiveLaunchers \union {NoPath}
    BY <1>13, UpdateAssumption DEF Update, UpdatedLaunchers, LiveLaunchers, Roots
  <2> QED
    BY <1>13, <2>1 DEF Update, Typing, choiceVars, planVars
<1>14. CASE UNCHANGED allVars
  BY <1>14 DEF allVars, commandVars, Typing, choiceVars, planVars, liveVars
<1> QED
  BY <1>2, <1>3, <1>4, <1>5, <1>6, <1>7, <1>8, <1>9, <1>10, <1>11, <1>12, <1>13, <1>14
     DEF CommandNext

\* Types of the whole state; a plan has the launcher and the checkout of a runtime that
\* worked (build_install_plan), and the transaction is under way in the last step only.
THEOREM CommandIsTyped == CommandSpec => []CommandTypeOK
<1>1. CommandSpec => []Typing
  BY TypingInit, TypingNext, ChoiceInvariant, PTL DEF CommandSpec
<1>2. TypeOK /\ Typing /\ InStep /\ (cpc = "plan" => chosen.usable) => CommandTypeOK
  BY DEF Typing, InStep, CommandTypeOK
<1>3. ChoiceInv => (cpc = "plan" => chosen.usable)
  BY ChosenIsRunnable
<1>4. StartInv => InStep
  BY DEF StartInv
<1> QED
  BY <1>1, <1>2, <1>3, <1>4, ChoiceInvariant, StartInvariant, CommandRunsTransaction,
     TypeCorrect, PTL

=============================================================================
