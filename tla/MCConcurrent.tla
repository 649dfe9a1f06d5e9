----------------------------- MODULE MCConcurrent -----------------------------
(* The two collections of concurrent.anti, one of them in each behaviour.       *)
EXTENDS ConcurrentMap, SpscRing, TLC

VARIABLE subject    \* the collection the behaviour is of

vars == <<subject, mapVars, ringVars>>

Init == subject \in {"map", "ring"} /\ MapInit /\ RingInit

Next == /\ \/ subject = "map" /\ MapNext /\ UNCHANGED ringVars
           \/ subject = "ring" /\ RingNext /\ UNCHANGED mapVars
        /\ UNCHANGED subject

Spec == Init /\ [][Next]_vars

Symmetry == Permutations(Callers) \cup Permutations(Values) \cup Permutations(Keys)
==============================================================================
