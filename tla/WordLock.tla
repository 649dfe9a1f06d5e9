------------------------------- MODULE WordLock -------------------------------
(***************************************************************************)
(* The word of a Mutex and of the hidden lock of an object on Linux,       *)
(* anti_rt_word_lock and anti_rt_word_unlock of src/src/rt/platform_posix.c*)
(* One word, three values, and the futex of the kernel behind it.  Every   *)
(* atomic operation of the C code and every system call is one action, so  *)
(* all interleavings of the threads between them are explored.             *)
(*                                                                         *)
(* The local c of anti_rt_word_lock is only ever compared with 0 and 2, at *)
(* once after it is written, so where the thread goes next carries all     *)
(* that the code knows of it.                                              *)
(***************************************************************************)
EXTENDS Integers, FiniteSets

CONSTANTS
    Threads,    \* the threads that share the word
    NoThread    \* no thread, the holder of a free word

ASSUME ThreadsAssumption == NoThread \notin Threads

VARIABLES
    word,       \* w->opaque: 0 free, 1 held, 2 held with a thread waiting
    pc          \* where each thread is

vars == <<word, pc>>

Free == 0
Held == 1
Contended == 2

\* "idle"    outside both functions, not holding the word
\* "swap"    about to exchange 2 into the word
\* "wait"    about to enter FUTEX_WAIT
\* "asleep"  in the kernel's queue of the word
\* "held"    returned from anti_rt_word_lock
\* "wake"    gave the word back and is about to call FUTEX_WAKE
Places == {"idle", "swap", "wait", "asleep", "held", "wake"}

At(place) == {t \in Threads : pc[t] = place}

GoTo(t, place) == pc' = [pc EXCEPT ![t] = place]

Init ==
    /\ word = Free
    /\ pc = [t \in Threads |-> "idle"]

-----------------------------------------------------------------------------
(* anti_rt_word_lock *)

\* The compare-and-swap of a free word, and the early return.
LockFree(t) ==
    /\ pc[t] = "idle"
    /\ word = Free
    /\ word' = Held
    /\ GoTo(t, "held")

\* The compare-and-swap failed and loaded the word into c: a word that is
\* marked already is not marked again.
LockContended(t) ==
    /\ pc[t] = "idle"
    /\ word # Free
    /\ GoTo(t, IF word = Contended THEN "wait" ELSE "swap")
    /\ UNCHANGED word

\* Mutant: a woken thread takes every word that is not marked for free.
SwapTakesUnmarked(t) ==
    /\ pc[t] = "swap"
    /\ word' = Contended
    /\ GoTo(t, IF word # Contended THEN "held" ELSE "wait")

\* Mutant: a thread that takes the word after a wait leaves no mark, as the
\* first compare-and-swap does.
SwapForgetsWaiters(t) ==
    /\ pc[t] = "swap"
    /\ word' = IF word = Free THEN Held ELSE Contended
    /\ GoTo(t, IF word = Free THEN "held" ELSE "wait")

\* The exchange, before and inside the loop: the word is now marked, and a
\* word that was free is the thread's.
Swap(t) ==
    /\ pc[t] = "swap"
    /\ word' = Contended
    /\ GoTo(t, IF word = Free THEN "held" ELSE "wait")

\* FUTEX_WAIT with 2: the kernel compares and queues in one step, and
\* returns at once from a word that is no longer 2.
FutexWait(t) ==
    /\ pc[t] = "wait"
    /\ GoTo(t, IF word = Contended THEN "asleep" ELSE "swap")
    /\ UNCHANGED word

\* FUTEX_WAIT may return without a wake: a signal, or a wake meant for an
\* earlier lock at the same address.
FutexReturns(t) ==
    /\ pc[t] = "asleep"
    /\ GoTo(t, "swap")
    /\ UNCHANGED word

-----------------------------------------------------------------------------
(* anti_rt_word_unlock *)

\* Mutant: an unlock that takes one off the word.
UnlockByOne(t) ==
    /\ pc[t] = "held"
    /\ word' = word - 1
    /\ GoTo(t, IF word = Contended THEN "wake" ELSE "idle")

\* The exchange of 0 into the word, which finds out whether to wake.
Unlock(t) ==
    /\ pc[t] = "held"
    /\ word' = Free
    /\ GoTo(t, IF word = Contended THEN "wake" ELSE "idle")

\* Mutant: the wake reaches nobody.
WakeNobody(t) ==
    /\ pc[t] = "wake"
    /\ GoTo(t, "idle")
    /\ UNCHANGED word

\* FUTEX_WAKE of one: some sleeper leaves the queue, if there is one.
FutexWake(t) ==
    /\ pc[t] = "wake"
    /\ \/ /\ At("asleep") = {}
          /\ GoTo(t, "idle")
       \/ \E s \in At("asleep") :
             pc' = [pc EXCEPT ![t] = "idle", ![s] = "swap"]
    /\ UNCHANGED word

-----------------------------------------------------------------------------
Step(t) ==
    \/ LockFree(t)
    \/ LockContended(t)
    \/ Swap(t)
    \/ FutexWait(t)
    \/ FutexReturns(t)
    \/ Unlock(t)
    \/ FutexWake(t)

Next == \E t \in Threads : Step(t)

Spec == Init /\ [][Next]_vars

\* A thread inside one of the two functions keeps running.  Nothing is
\* assumed of a thread outside them, of how long a holder keeps the word, or
\* of returns from the kernel that nobody asked for.
Fairness ==
    \A t \in Threads :
        /\ WF_vars(Swap(t))
        /\ WF_vars(FutexWait(t))
        /\ WF_vars(FutexWake(t))

FairSpec == Spec /\ Fairness

-----------------------------------------------------------------------------
(* Properties *)

\* The word has one of its three values and each thread is at a place.
TypeOK ==
    /\ word \in {Free, Held, Contended}
    /\ pc \in [Threads -> Places]

\* At most one thread has returned from anti_rt_word_lock and not yet called
\* anti_rt_word_unlock, whatever barging, marking and waking happened.
MutualExclusion ==
    \A t, u \in At("held") : t = u

\* The word tells whether a thread holds it: an unlock never frees the word of
\* another thread, and no take leaves a held word at 0.
WordTells == word = Free <=> At("held") = {}

\* What anti_rt_word_unlock can rely on when it reads the word: it is one of the
\* three values, and free exactly while nobody holds it.
WordSound == TypeOK /\ WordTells

\* No lost wake-up: while a thread sleeps in the kernel, either the word is
\* marked, so the unlock to come will wake, or a thread is on its way to wake
\* or to mark the word again.
NoLostWakeup ==
    At("asleep") # {} => \/ word = Contended
                         \/ At("wake") # {}
                         \/ At("swap") # {}

\* A sleeper is never stranded on a free word: some thread takes it.
SleepersProgress == At("asleep") # {} ~> At("held") # {}

\* What the word promises its users (MutexSpec), with the holder read off pc.
Holder == IF At("held") = {} THEN NoThread ELSE CHOOSE t \in At("held") : TRUE

Mutex == INSTANCE MutexSpec WITH holder <- Holder

ImplementsMutex == Mutex!Spec
==============================================================================
