----------------------------- MODULE MCBuildCache -----------------------------
(* Projects of every graph of imports, cycles too, without self-imports.       *)
EXTENDS BuildCache

SmallProjects ==
    \E g \in [Modules -> SUBSET Modules] :
        /\ \A m \in Modules : m \notin g[m]
        /\ BuildBegins(g, [m \in Modules |-> 1])
==============================================================================
