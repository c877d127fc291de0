-------------------------- MODULE MCInstallCommand --------------------------
(* InstallCommand on small sets of machines. *)
EXTENDS InstallCommand

NoHome == {NoPath, "blank", "own"}

\* what the launchers print: those named in printed one of the roots given there, another
\* the checkout it is in
PrintsOf(printed) ==
    {[l \in Launchers |->
        IF l \in DOMAIN given THEN given[l]
        ELSE IF l \in Distros THEN "linux" ELSE Enclosing(l)] : given \in printed}

\* Linux and macOS: a HERMES_HOME, ~/.hermes, a Desktop checkout and a PATH launcher
PosixMachines ==
    [windows : {FALSE}, hermesHome : NoHome \union {"dot"}, desktop : {NoPath, "desk", "dot"},
     homes : SUBSET {"dot"}, dotSource : {TRUE}, path : {NoPath, "wrapper", "dot"},
     distros : {{}}, works : SUBSET {"own", "dot", "desk", "wrapper"},
     prints : PrintsOf([{"own", "wrapper"} -> {NoPath, "dot", "own"}]),
     linked : {NoPath, "dot"}]

\* Windows: a HERMES_HOME, the current and the legacy home, PATH and two distributions
WindowsMachines ==
    [windows : {TRUE}, hermesHome : NoHome \union {"current"}, desktop : {NoPath},
     homes : SUBSET {"current", "dot"}, dotSource : BOOLEAN,
     path : {NoPath, "current", "wrapper"}, distros : SUBSET Distros,
     works : {h \union Distros : h \in SUBSET {"own", "current", "dot"}},
     prints : PrintsOf([{"current", "wrapper"} -> {"own", "dot", "current"}]),
     linked : {NoPath}]

AllMachines == PosixMachines \union WindowsMachines
Updated == {"own", "dot"}
=============================================================================
