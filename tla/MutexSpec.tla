------------------------------ MODULE MutexSpec ------------------------------
(***************************************************************************)
(* What the word of src/src/rt/platform.h promises to its users: a thread  *)
(* takes it only while nobody holds it, and only its holder gives it back. *)
(* The comments on anti_rt_word_lock and anti_rt_word_unlock are this      *)
(* contract; WordLock shows that the futex code of Linux keeps it, and     *)
(* ObjectLocks takes it as given for the words it is built on.             *)
(***************************************************************************)
CONSTANTS
    Threads,    \* the threads of the program
    NoThread    \* the holder of a free word

VARIABLE holder \* the thread that holds the word, or NoThread

Init == holder = NoThread

\* anti_rt_word_lock returns to t.
Take(t) == holder = NoThread /\ holder' = t

\* anti_rt_word_unlock by t.
Give(t) == holder = t /\ holder' = NoThread

Next == \E t \in Threads : Take(t) \/ Give(t)

Spec == Init /\ [][Next]_holder
==============================================================================
