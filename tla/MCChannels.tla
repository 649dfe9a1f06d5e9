------------------------------ MODULE MCChannels ------------------------------
(* Three threads and two channels, one of capacity 1 (full and empty are one *)
(* step apart) and one of capacity 2 (the ring wraps), with selects that name *)
(* both, in either order.                                                    *)
EXTENDS Channels, TLC

CONSTANTS a, b

MCCapacity == (a :> 1) @@ (b :> 2)
MCSelects == {<<a, b>>}

\* The threads differ in nothing but their names.
ThreadSymmetry == Permutations(Threads)
==============================================================================
