--------------------------- MODULE InstallCommand ---------------------------
(***************************************************************************)
(* `hermes-cursor-native install` from its arguments to its end: main and  *)
(* _select_runtime (src/hermes_cursor_native/cli.py) choose a runtime as   *)
(* RuntimeChoice has it, build_install_plan (install_plan.py) and          *)
(* probe_runtime (capabilities.py) make the plan, the user approves it,    *)
(* execute_install_plan (installer.py) compares the launcher with the      *)
(* plan, and InstallTransaction is the rest.                               *)
(*                                                                         *)
(* Meanwhile the user reads, and Hermes may be updated, moved or removed.  *)
(* What the code does not look at again is forgotten: the candidates once  *)
(* the plan is made, plan and launcher once the installation is under way. *)
(***************************************************************************)
EXTENDS InstallTransaction, RuntimeChoice

CONSTANT UpdatedRoots  \* the checkouts a launcher may belong to once Hermes was updated
ASSUME UpdateAssumption == UpdatedRoots \subseteq Checkouts

VARIABLES
    argv,      \* the options --runtime, --yes and --dry-run
    cpc,       \* where the command is
    found,     \* the candidates, probed
    asked,     \* whether the user was asked for a runtime id
    chosen,    \* the selected runtime, or NoPath
    live,      \* the launcher of that runtime as it is now, or NoPath if there is none
    plan,      \* what the plan says of it, or NoPath
    touched,   \* whether the launcher changed after its digest was compared
    approved   \* whether the plan was approved

choiceVars == <<found, asked, chosen>>
planVars == <<plan, approved>>
liveVars == <<live, touched>>
commandVars == <<argv, cpc, choiceVars, planVars, liveVars>>
allVars == <<vars, commandVars>>

Over == {"blocked", "ambiguous", "not_found", "shown", "declined", "refused"}

\* two launchers, two versions of Hermes
Variants == {1, 2}
LiveLaunchers ==
    [digest : Variants, version : Variants, printed : {NoPath} \union Roots,
     linked : {NoPath} \union Checkouts]
UpdatedLaunchers ==
    [digest : Variants, version : Variants, printed : {NoPath} \union UpdatedRoots,
     linked : {NoPath} \union UpdatedRoots]

\* root is runtime.source_root; source that, or the checkout probe_runtime found without it
Plans == [exe : Launchers, root : {NoPath} \union Roots, source : Roots,
          version : Variants, digest : Variants \union {NoPath}]

\* every discovery that some machine gives
Discoveries == {Probed(m) : m \in Machines}

CommandInit ==
    /\ Init
    /\ argv \in [runtime : BOOLEAN, yes : BOOLEAN, dryRun : BOOLEAN]
    /\ cpc = "discover"
    /\ found = <<>> /\ asked = FALSE /\ chosen = NoPath
    /\ live = NoPath /\ plan = NoPath
    /\ touched = FALSE /\ approved = FALSE

CommandStep(from, to) == cpc = from /\ cpc' = to /\ UNCHANGED argv

-----------------------------------------------------------------------------
(* the choice of a runtime *)

\* "Non-interactive installation requires an explicit --runtime"
RefuseUnnamed ==
    /\ argv.yes /\ ~argv.runtime
    /\ CommandStep("discover", "blocked")
    /\ UNCHANGED <<vars, choiceVars, planVars, liveVars>>

Discover ==
    /\ argv.yes => argv.runtime
    /\ CommandStep("discover", "select")
    /\ found' \in Discoveries
    /\ UNCHANGED <<vars, asked, chosen, planVars, liveVars>>

\* a runtime, as it was probed, with the home of --hermes-home if that is given
Choose(from, r) ==
    /\ CommandStep(from, "plan")
    /\ \E target \in {r.home, "given"} : chosen' = [r EXCEPT !.home = target]
    /\ live' = [digest |-> 1, version |-> 1, printed |-> r.printed, linked |-> r.linked]
    /\ UNCHANGED <<vars, found, asked, planVars, touched>>

GiveUpChoice(from, reason) ==
    /\ CommandStep(from, reason)
    /\ UNCHANGED <<vars, choiceVars, planVars, liveVars>>

\* the id of --runtime, or the one the user typed
Name(from) ==
    \/ \E r \in Usable(Classify(found)) : Choose(from, r)
    \/ GiveUpChoice(from, "not_found")

Requested == argv.runtime /\ Name("select")

\* nobody named a runtime: there is one to preselect, none, or the user is asked
PreselectAmong(runtimes) ==
    /\ ~argv.runtime
    /\ \/ /\ Cardinality(runtimes) = 1
          /\ \E r \in runtimes : Choose("select", r)
       \/ /\ runtimes = {}
          /\ GiveUpChoice("select", "not_found")
       \/ /\ Cardinality(runtimes) > 1
          /\ CommandStep("select", "ask")
          /\ asked' = TRUE
          /\ UNCHANGED <<vars, found, chosen, planVars, liveVars>>

Preselect == PreselectAmong(Preselected(Classify(found)))

Answer == Name("ask")

-----------------------------------------------------------------------------
(* the plan and its approval *)

\* _hermes_source, and the checkout execute_install_plan takes: the one of the runtime,
\* or the one its launcher, found on PATH, is a link into
SourceOf(r) == IF r.root # NoPath THEN r.root ELSE r.linked

\* probe_runtime: what the seams, the registration and the client turn out to be; all
\* false without a checkout and an interpreter, which a WSL runtime has only inside WSL
Reports(r) ==
    LET located == r.estate = "host" /\ SourceOf(r) # NoPath IN
    {report \in [seam : BOOLEAN, routed : BOOLEAN, registered : BOOLEAN, client : BOOLEAN] :
        /\ report.seam \/ report.routed => located
        /\ report.registered \/ report.client => report.seam /\ report.routed}

PluginReady(report) ==
    report.seam /\ report.routed /\ report.registered /\ report.client

\* build_install_plan up to the digest: refused for the profile, the capabilities or
\* the artifact
Planned(ready) ==
    /\ \/ CommandStep("plan", "blocked") /\ UNCHANGED plan
       \/ /\ ready
          /\ CommandStep("plan", "hash")
          /\ plan' = [exe |-> chosen.exe, root |-> chosen.root, source |-> SourceOf(chosen),
                      version |-> 1, digest |-> NoPath]
    /\ found' = <<>> /\ chosen' = NoPath
    /\ UNCHANGED <<vars, asked, approved, liveVars>>

BuildPlan ==
    /\ cpc = "plan"
    /\ \E report \in Reports(chosen) : Planned(PluginReady(report))

\* executable_sha256, "" when there is no such file
Hash ==
    /\ CommandStep("hash", "show")
    /\ plan' = [plan EXCEPT !.digest = IF live = NoPath THEN NoPath ELSE live.digest]
    /\ UNCHANGED <<vars, choiceVars, approved, liveVars>>

\* the plan is printed; --dry-run ends there, --yes approves it, or the user does
ShowTo(dryRun) ==
    /\ \/ /\ dryRun
          /\ CommandStep("show", "shown") /\ UNCHANGED approved
       \/ /\ ~dryRun
          /\ CommandStep("show", "apply") /\ approved' = TRUE
       \/ /\ ~dryRun /\ ~argv.yes
          /\ CommandStep("show", "declined") /\ UNCHANGED approved
    /\ UNCHANGED <<vars, choiceVars, plan, liveVars>>

ShowOnly == ShowTo(FALSE)  \* mutant: --dry-run is not looked at

Show == ShowTo(argv.dryRun)

-----------------------------------------------------------------------------
(* execute_install_plan: the comparison, then the transaction *)

Refuse ==
    /\ cpc \in {"apply", "identify"}
    /\ CommandStep(cpc, "refused")
    /\ Check /\ pc' = "refused"
    /\ UNCHANGED <<choiceVars, planVars, liveVars>>

\* the launcher is a file and has the digest of the plan
CompareDigest ==
    /\ CommandStep("apply", "identify")
    /\ live # NoPath /\ plan.digest = live.digest
    /\ UNCHANGED <<vars, choiceVars, planVars, liveVars>>

\* the checkout the launcher prints now, or the one it is a link into
LiveSource == IF live.printed # NoPath THEN live.printed ELSE live.linked

\* a checkout that cannot be told is accepted if the runtime had none when it was found
SourceAgrees ==
    IF LiveSource = NoPath THEN plan.root = NoPath ELSE LiveSource = plan.source

\* the launcher is run: it has the version of the plan, and its checkout
IdentifyIf(same) ==
    /\ CommandStep("identify", "install")
    /\ live # NoPath /\ same
    /\ Check /\ pc' = "save_plugin"
    /\ UNCHANGED <<choiceVars, planVars, liveVars>>

\* mutant: the digest is taken for the whole identity
IdentifyByDigest == IdentifyIf(TRUE)

Identify == IdentifyIf(live.version = plan.version /\ SourceAgrees)

Transact ==
    /\ CommandStep("install", "install")
    /\ Next
    /\ live' = NoPath /\ plan' = NoPath
    /\ UNCHANGED <<choiceVars, approved, touched>>

\* Hermes is updated, moved or removed, also between two steps of the command (before
\* the digest is taken nothing tells when)
Update ==
    /\ cpc \in {"hash", "show", "apply", "identify", "install"}
    /\ pc \in {"check", "save_plugin"}
    /\ live' \in UpdatedLaunchers \union {NoPath} /\ live' # live
    /\ touched' = (touched \/ cpc \in {"identify", "install"})
    /\ UNCHANGED <<vars, argv, cpc, choiceVars, planVars>>

-----------------------------------------------------------------------------
CommandNext ==
    \/ RefuseUnnamed \/ Discover \/ Requested \/ Preselect \/ Answer
    \/ BuildPlan \/ Hash \/ Show
    \/ Refuse \/ CompareDigest \/ Identify \/ Transact
    \/ Update

CommandSpec == CommandInit /\ [][CommandNext]_allVars

-----------------------------------------------------------------------------
(* Properties *)

CommandTypeOK ==
    /\ TypeOK
    /\ argv \in [runtime : BOOLEAN, yes : BOOLEAN, dryRun : BOOLEAN]
    /\ cpc \in Over \union {"discover", "select", "ask", "plan", "hash", "show", "apply",
                            "identify", "install"}
    /\ asked \in BOOLEAN /\ touched \in BOOLEAN /\ approved \in BOOLEAN
    /\ live \in LiveLaunchers \union {NoPath}
    /\ plan \in Plans \union {NoPath}
    /\ cpc = "plan" => chosen.usable
    /\ cpc \in {"hash", "show", "apply", "identify"} => plan \in Plans
    /\ cpc # "install" <=> pc \in {"check", "refused"}

\* two candidates run the same Hermes
SameBackend(p, r) == p.estate = r.estate /\ p.root = r.root

\* something points to the Hermes of r: a candidate for it, working or not
PointedTo(r) == \E p \in Range(found) : p.hint /\ SameBackend(p, r)

Unnamed == cpc = "plan" /\ ~argv.runtime /\ ~asked

\* "Select one runtime without guessing across multiple usable estates"
\* (discovery.py:147): when nobody named a runtime, every candidate that works is the
\* Hermes that was selected, whatever names it was found under, unless something points
\* to the selected Hermes and nothing to that of the candidate.
NoGuessing ==
    Unnamed =>
        \A p \in Range(found) :
            p.usable => SameBackend(p, chosen) \/ (PointedTo(chosen) /\ ~PointedTo(p))

\* Where HERMES_HOME names a home and the Hermes that was selected was found there too,
\* the installation goes to that home, under its id: it does not land in the home in
\* which another candidate for the same checkout was found, though the launcher be that
\* of the other, which alone works.
HomeIsHonoured ==
    cpc = "plan" /\ chosen.home # "given" =>
        \A p \in Range(found) :
            p.id = "explicit-home" /\ SameBackend(p, chosen) =>
                chosen.id = p.id /\ chosen.home = p.home

\* Nothing of the home changes before the plan was approved, by the user or by --yes for
\* a runtime that was named, and nothing at all with --dry-run.
NothingUnapproved ==
    pc \notin {"check", "refused"} =>
        approved /\ ~argv.dryRun /\ (argv.yes => argv.runtime)

\* The installation starts with the Hermes that was planned: launcher and version are
\* those of the plan however Hermes was updated since it was discovered, unless that was
\* after the launcher had been read for the comparison; and so is the checkout, which can
\* remain unknown only for a launcher of which no discovery knew it either.
StartsAsPlanned ==
    pc = "save_plugin" /\ ~touched =>
        /\ live # NoPath
        /\ live.digest = plan.digest /\ live.version = plan.version
        /\ LiveSource \in {plan.source, NoPath}
        /\ LiveSource = NoPath => plan.root = NoPath

=============================================================================
