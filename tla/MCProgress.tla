------------------------------ MODULE MCProgress ------------------------------
(* What must come to its end: selects that are served beside a feeder, and      *)
(* calls of a pool of one worker whose bodies call the pool again.  Fairness is *)
(* that of the two programs, each where its program runs.                       *)
EXTENDS MCSelectProgram, WorkerPool

VARIABLE subject    \* the program that runs

ProgressInit == subject \in {"select", "pool"} /\ PInit /\ PoolInit

ProgressNext ==
    /\ \/ subject = "select" /\ PNext /\ UNCHANGED poolVars
       \/ subject = "pool" /\ PoolNext /\ UNCHANGED pvars
    /\ UNCHANGED subject

ProgressSpec ==
    /\ ProgressInit /\ [][ProgressNext]_<<subject, pvars, poolVars>>
    /\ \A t \in Selectors : WF_pvars(subject = "select" /\ ~aborted /\ Selector(t))
    /\ \A t \in Threads \ Selectors :
          WF_pvars(subject = "select" /\ ~aborted /\ FeedStep(t))
    /\ \A t \in PoolThreads : WF_poolVars(subject = "pool" /\ PoolStep(t))
==============================================================================
