--------------------------- MODULE RuntimeChoice ---------------------------
(***************************************************************************)
(* How the installer finds the Hermes runtimes of a machine:               *)
(* collect_candidates and probe_candidate (src/hermes_cursor_native/       *)
(* system_discovery.py), RuntimeDiscovery.classify and select_runtime      *)
(* (discovery.py), as functions of the machine.                            *)
(*                                                                         *)
(* A checkout, hermes-agent inside a home, is known by that home, and so   *)
(* is the launcher in its venv.  The homes are                             *)
(*   "own"      a HERMES_HOME of the user's choice                         *)
(*   "current"  %LOCALAPPDATA%\hermes                                      *)
(*   "dot"      ~/.hermes, which on Windows is %USERPROFILE%\.hermes       *)
(*   "desk"     the parent of a HERMES_DESKTOP_HERMES_ROOT of its own      *)
(*   "linux"    /home/<user>/.hermes of a WSL distribution, which may be   *)
(*              the same path in two of them                               *)
(*   "user"     Path.home();  "cwd"  the working directory.                *)
(***************************************************************************)
EXTENDS Naturals, FiniteSets, Sequences, Functions

CONSTANTS NoPath,   \* None, for a path
          Machines  \* the machines; see Machine

Checkouts == {"own", "current", "dot", "desk"}
Distros == {"wsl:a", "wsl:b"}
Launchers == Checkouts \union Distros \union {"wrapper"}  \* ~/.local/bin/hermes
Roots == Checkouts \union {"linux"}

Machine == [windows    : BOOLEAN,
            hermesHome : {NoPath, "blank", "own", "current", "dot"},
            desktop    : {NoPath, "desk", "dot"},   \* HERMES_DESKTOP_HERMES_ROOT
            homes      : SUBSET {"current", "dot"}, \* those that exist
            dotSource  : BOOLEAN,     \* ~/.hermes has a checkout
            path       : {NoPath, "wrapper"} \union Checkouts,  \* the hermes on PATH
            distros    : SUBSET Distros,
            works      : SUBSET Launchers, \* --version exits with 0 and prints a version
            prints     : [Launchers -> Roots \union {NoPath}],
                                      \* the checkout --version prints, however it exits
            linked     : {NoPath} \union Checkouts]
                                      \* the checkout the wrapper is a symbolic link into

ASSUME ChoiceAssumption ==
    /\ NoPath \notin Launchers \union Roots
    /\ Machines \subseteq Machine

-----------------------------------------------------------------------------
\* infer_source_root, and the nearest parent of a launcher that is a checkout
Enclosing(exe) == IF exe \in Checkouts THEN exe ELSE NoPath

Found(id, estate, home, root, exe, hint) ==
    <<[id |-> id, estate |-> estate, home |-> home, root |-> root, exe |-> exe,
       hint |-> hint]>>

When(condition, found) == IF condition THEN found ELSE <<>>

\* "" and blanks are no home for any candidate but the desktop's, whose Path("") is
\* the working directory
DesktopHome(m) ==
    CASE m.hermesHome = NoPath -> m.desktop
      [] m.hermesHome = "blank" -> "cwd"
      [] OTHER -> m.hermesHome

Explicit(m) == m.hermesHome \notin {NoPath, "blank"}

\* the home of the hermes on PATH
PathHome(m) ==
    CASE Explicit(m) -> m.hermesHome
      [] ~Explicit(m) /\ "dot" \in m.homes -> "dot"
      [] ~Explicit(m) /\ "dot" \notin m.homes /\ Enclosing(m.path) # NoPath ->
            Enclosing(m.path)
      [] OTHER -> "user"

Distribution(m, distro) ==
    When(distro \in m.distros, Found(distro, distro, "linux", "linux", distro, FALSE))

Candidates(m) ==
       When(m.desktop # NoPath,
            Found("desktop-override", "host", DesktopHome(m), m.desktop, m.desktop, TRUE))
    \o When(Explicit(m),
            Found("explicit-home", "host", m.hermesHome, m.hermesHome, m.hermesHome, TRUE))
    \o When(m.windows /\ "current" \in m.homes,
            Found("windows-current", "host", "current", "current", "current", TRUE))
    \o When(m.windows /\ "dot" \in m.homes,
            LET root == IF m.dotSource THEN "dot" ELSE NoPath IN
            Found("windows-legacy", "host", "dot", root, root, FALSE))
    \o When(~m.windows /\ ~Explicit(m) /\ "dot" \in m.homes,
            Found("posix-current", "host", "dot", "dot", "dot", TRUE))
    \o When(m.path # NoPath,
            Found("path-hermes", "host", PathHome(m), Enclosing(m.path), m.path, TRUE))
    \o Distribution(m, "wsl:a") \o Distribution(m, "wsl:b")

\* the nearest parent of the launcher, links resolved, that is a checkout
Linked(m, exe) == IF exe = "wrapper" THEN m.linked ELSE Enclosing(exe)

\* the checkout a probe reads from the output, of a launcher that fails too
Printed(m, exe) == IF exe = NoPath THEN NoPath ELSE m.prints[exe]

\* probe_candidate: the candidate with what its launcher said
Probe(m, c) ==
    LET printed == Printed(m, c.exe) IN
    [id |-> c.id, estate |-> c.estate, home |-> c.home, exe |-> c.exe, hint |-> c.hint,
     usable |-> c.exe # NoPath /\ c.exe \in m.works,
     printed |-> printed, linked |-> Linked(m, c.exe),
     root |-> IF printed # NoPath THEN printed ELSE c.root]

Probed(m) == [i \in DOMAIN Candidates(m) |-> Probe(m, Candidates(m)[i])]

-----------------------------------------------------------------------------
\* _identity: platform and checkout, or launcher, or data directory; a WSL
\* distribution is a platform of its own
IdentityIn(estate, p) ==
    CASE p.root # NoPath -> <<estate, "checkout", p.root>>
      [] p.root = NoPath /\ p.exe # NoPath -> <<estate, "launcher", p.exe>>
      [] OTHER -> <<estate, p.id, p.home>>

\* mutant: all distributions are the platform wsl
IdentityByPlatform(p) == IdentityIn(IF p.estate = "host" THEN "host" ELSE "wsl", p)

Identity(p) == IdentityIn(p.estate, p)

\* a group is the places in found of the candidates with one identity
Group(found, key) == {i \in DOMAIN found : Identity(found[i]) = key}

\* next((... for ... in group if ...), group[0]): the first that passes, or the first
FirstOf(found, group, passing) ==
    LET places == IF passing # {} THEN passing ELSE group IN
    found[CHOOSE i \in places : \A j \in places : i <= j]

\* one entry of classify: named after the explicit home if that is one of the group,
\* else after the first, with the launcher and the checkout of the first that works
Entry(primary, selected, hinted, home) ==
    [id |-> primary.id, estate |-> primary.estate, home |-> home,
     root |-> selected.root, exe |-> selected.exe, printed |-> selected.printed,
     linked |-> selected.linked, usable |-> selected.usable,
     active |-> selected.usable /\ hinted]

Primary(found, group) ==
    FirstOf(found, group, {i \in group : found[i].id = "explicit-home"})
Selected(found, group) == FirstOf(found, group, {i \in group : found[i].usable})
Hinted(found, group) == \E i \in group : found[i].hint

RuntimeAtSelected(found, group) ==  \* mutant: the home, too, is that of the one that works
    Entry(Primary(found, group), Selected(found, group), Hinted(found, group),
          Selected(found, group).home)

RuntimeOf(found, group) ==
    Entry(Primary(found, group), Selected(found, group), Hinted(found, group),
          Primary(found, group).home)

\* RuntimeDiscovery.classify
Classify(found) ==
    {RuntimeOf(found, Group(found, Identity(found[i]))) : i \in DOMAIN found}

Usable(runtimes) == {r \in runtimes : r.usable}

\* select_runtime without a request: one of these, and only if there is one
Preselected(runtimes) ==
    LET active == {r \in runtimes : r.active} IN
    IF active # {} THEN active ELSE Usable(runtimes)

=============================================================================
