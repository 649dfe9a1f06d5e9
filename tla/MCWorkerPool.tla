----------------------------- MODULE MCWorkerPool -----------------------------
(* Two callers that meet in a pool of two workers.                              *)
EXTENDS WorkerPool, TLC

Symmetry == Permutations(Callers) \cup Permutations(Workers)
               \cup Permutations(Jobs) \cup Permutations(Objects)
==============================================================================
