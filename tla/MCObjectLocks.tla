---------------------------- MODULE MCObjectLocks ----------------------------
(* Programs of two shapes.  In a deep one two threads at a time nest blocks on   *)
(* two objects and a Mutex above them: HELD_MAX is 2, so three blocks cross it.  *)
(* In a wide one three threads take one block at a time, on one of three objects *)
(* or on two, and objects are freed and made again.                              *)
EXTENDS ObjectLocks, TLC

CONSTANTS DeepCount, DeepLocks

VARIABLE shape

FramesOn(locks) == {f \in Frames : ToSet(f) \subseteq locks}

\* A pair named with the higher object first is given back in the order it is
\* taken in, which is what the stack past HELD_MAX has to stand.
DeepFrames == {f \in FramesOn(DeepLocks) : Len(f) = 2 => f[1] > f[2]}

Busy(t) == frames[t] # <<>> \/ pc[t] # "run"

Deep ==
    \E t \in Threads :
        \/ Inside(t)
        \/ /\ Cardinality({u \in Threads \ {t} : Busy(u)}) < DeepCount
           /\ \E frame \in DeepFrames : Sync(t, frame)

Wide ==
    \E t \in Threads :
        \/ Inside(t)
        \/ frames[t] = <<>> /\ \E frame \in FramesOn(Objs) : Sync(t, frame)
        \/ \E l \in Objs : Remake(t, l)

ShapesInit == Init /\ shape \in {"deep", "wide"}

ShapesNext ==
    /\ ~aborted
    /\ \/ shape = "deep" /\ Deep
       \/ shape = "wide" /\ Wide
    /\ UNCHANGED shape

ShapesSpec == ShapesInit /\ [][ShapesNext]_<<vars, shape>>

AnyShape == Init /\ shape = "wide" /\ [][Next /\ UNCHANGED shape]_<<vars, shape>>

Symmetry == Permutations(Threads)
==============================================================================
