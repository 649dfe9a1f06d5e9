------------------------------- MODULE MCPlugins -------------------------------
(* Small instances of Plugins. *)
EXTENDS Plugins, TLC

\* Larger groups cost more than the states they save.
Symmetry == Permutations(Bases) \cup Permutations(Owners)
            \cup Permutations(Libs \ Refused)
==============================================================================
