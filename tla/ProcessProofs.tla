---------------------------- MODULE ProcessProofs ----------------------------
(***************************************************************************)
(* Proofs about the ground a program stands on: the futex word under every *)
(* lock of the runtime, for any threads; the start of a program, for any   *)
(* files, includes, keys and threads; and the route of signals, for any    *)
(* signals, threads and bounds.                                            *)
(*                                                                         *)
(* Word: it is a lock, no wake-up is lost, and it keeps the contract of    *)
(* MutexSpec.  Mutual exclusion is not inductive alone: nothing in it      *)
(* stops a thread from taking a word that reads 0 while another holds it.  *)
(* WordTells, which ties the value of the word to the holder, closes the   *)
(* induction.                                                              *)
(*                                                                         *)
(* Start: what was handed out stays good, a file is never read below       *)
(* itself, and each name has the value of its strongest layer.  The        *)
(* properties say what a reader of the settings sees; the induction needs  *)
(* what the order of the start guarantees before that: that nothing is set *)
(* while the seed is drawn, that no two names share their bytes, so that   *)
(* the free of an injection line frees no key, and that no thread has      *)
(* bytes before main.  The layers speak of a file as a whole, while        *)
(* read_file may be in the middle of several: Told says what the open      *)
(* files have given at any moment, in terms of the files that were read to *)
(* their end, which have no cycle.                                         *)
(*                                                                         *)
(* Signals: the reader calls a function, and one at least as new as the    *)
(* last that was registered when the signal was raised.  HandlerFresh says *)
(* what holds at the call alone; what is inductive follows a raise on its  *)
(* whole way, from the table to the system, the pipe and the reader: at    *)
(* every place the registration it carries is not newer than the one in    *)
(* the table, which only ever moves on.                                    *)
(***************************************************************************)
EXTENDS WordLock, Signals, Startup, SequenceTheorems, TLAPS

-----------------------------------------------------------------------------
(* The futex word. *)

\* The inductive invariant: the type, one holder, and a word that tells.
Inv == TypeOK /\ MutualExclusion /\ WordTells

LEMMA InvInit == Init => Inv
  BY DEF Init, Inv, TypeOK, MutualExclusion, WordTells, At, Places,
         Free, Held, Contended

\* One step per action; a thread that takes the word finds it free, and the
\* one thread that frees it is the only holder.
LEMMA InvStep == Inv /\ [Next]_vars => Inv'
<1> SUFFICES ASSUME Inv, [Next]_vars
             PROVE  Inv'
  OBVIOUS
<1> USE DEF Inv, TypeOK, MutualExclusion, WordTells, At, Places, GoTo,
            Free, Held, Contended
<1>1. ASSUME NEW t \in Threads, LockFree(t) PROVE Inv'
  BY <1>1 DEF LockFree
<1>2. ASSUME NEW t \in Threads, LockContended(t) PROVE Inv'
  BY <1>2 DEF LockContended
<1>3. ASSUME NEW t \in Threads, Swap(t) PROVE Inv'
  BY <1>3 DEF Swap
<1>4. ASSUME NEW t \in Threads, FutexWait(t) PROVE Inv'
  BY <1>4 DEF FutexWait
<1>5. ASSUME NEW t \in Threads, FutexReturns(t) PROVE Inv'
  BY <1>5 DEF FutexReturns
<1>6. ASSUME NEW t \in Threads, Unlock(t) PROVE Inv'
  BY <1>6 DEF Unlock
<1>7. ASSUME NEW t \in Threads, FutexWake(t) PROVE Inv'
  BY <1>7 DEF FutexWake
<1>8. CASE UNCHANGED vars
  BY <1>8 DEF vars
<1> QED
  BY <1>1, <1>2, <1>3, <1>4, <1>5, <1>6, <1>7, <1>8 DEF Next, Step

LEMMA InvHolds == Spec => []Inv
  BY InvInit, InvStep, PTL DEF Spec

\* The word and the places of the threads keep their types.
THEOREM TypeCorrect == Spec => []TypeOK
<1>1. Inv => TypeOK
  BY DEF Inv
<1> QED
  BY <1>1, InvHolds, PTL

\* anti_rt_word_lock and anti_rt_word_unlock exclude, for any threads.
THEOREM Exclusive == Spec => []MutualExclusion
<1>1. Inv => MutualExclusion
  BY DEF Inv
<1> QED
  BY <1>1, InvHolds, PTL

\* The word is 0 exactly while nobody holds it.
THEOREM WordTellsHolder == Spec => []WordTells
<1>1. Inv => WordTells
  BY DEF Inv
<1> QED
  BY <1>1, InvHolds, PTL

\* What anti_rt_word_unlock relies on when it reads the word.
THEOREM AlwaysSound == Spec => []WordSound
<1>1. TypeOK /\ WordTells => WordSound
  BY DEF WordSound
<1> QED
  BY <1>1, TypeCorrect, WordTellsHolder, PTL

-----------------------------------------------------------------------------
(* No lost wake-up *)

LEMMA WakeupStep == TypeOK /\ NoLostWakeup /\ [Next]_vars => NoLostWakeup'
<1> SUFFICES ASSUME TypeOK, NoLostWakeup, [Next]_vars
             PROVE  NoLostWakeup'
  OBVIOUS
<1> USE DEF TypeOK, NoLostWakeup, At, Places, GoTo, Free, Held, Contended
<1>1. ASSUME NEW t \in Threads, LockFree(t) PROVE NoLostWakeup'
  BY <1>1 DEF LockFree
<1>2. ASSUME NEW t \in Threads, LockContended(t) PROVE NoLostWakeup'
  BY <1>2 DEF LockContended
<1>3. ASSUME NEW t \in Threads, Swap(t) PROVE NoLostWakeup'
  BY <1>3 DEF Swap
<1>4. ASSUME NEW t \in Threads, FutexWait(t) PROVE NoLostWakeup'
  BY <1>4 DEF FutexWait
<1>5. ASSUME NEW t \in Threads, FutexReturns(t) PROVE NoLostWakeup'
  <2>1. pc'[t] = "swap"
    BY <1>5 DEF FutexReturns
  <2> QED
    BY <2>1
<1>6. ASSUME NEW t \in Threads, Unlock(t) PROVE NoLostWakeup'
  BY <1>6 DEF Unlock
<1>7. ASSUME NEW t \in Threads, FutexWake(t) PROVE NoLostWakeup'
  <2>1. CASE At("asleep") = {}
    BY <1>7, <2>1 DEF FutexWake
  <2>2. ASSUME NEW s \in At("asleep"),
               pc' = [pc EXCEPT ![t] = "idle", ![s] = "swap"]
        PROVE  NoLostWakeup'
    <3>1. pc'[s] = "swap"
      BY <2>2
    <3> QED
      BY <3>1
  <2> QED
    BY <1>7, <2>1, <2>2 DEF FutexWake
<1>8. CASE UNCHANGED vars
  BY <1>8 DEF vars
<1> QED
  BY <1>1, <1>2, <1>3, <1>4, <1>5, <1>6, <1>7, <1>8 DEF Next, Step

\* While a thread sleeps on the word, somebody is due to wake it: the unlock
\* of anti_rt_word_unlock finds the mark, or a thread is about to set it.
THEOREM WakeupNotLost == Spec => []NoLostWakeup
<1>1. Init => NoLostWakeup
  BY DEF Init, NoLostWakeup, At
<1>2. Inv => TypeOK
  BY DEF Inv
<1> QED
  BY <1>1, <1>2, WakeupStep, InvHolds, PTL DEF Spec

-----------------------------------------------------------------------------
(* The contract of the word *)

LEMMA HolderIs ==
  ASSUME Inv, NEW t \in Threads, pc[t] = "held"
  PROVE  Holder = t
  BY DEF Inv, MutualExclusion, Holder, At

LEMMA HolderIsNext ==
  ASSUME Inv', NEW t \in Threads, pc'[t] = "held"
  PROVE  Holder' = t
  BY DEF Inv, MutualExclusion, Holder, At

\* A step that leaves the set of holders alone is a stutter of the contract.
LEMMA HolderSame ==
  ASSUME Inv, Inv', At("held")' = At("held")
  PROVE  Holder' = Holder
<1>1. CASE At("held") = {}
  BY <1>1 DEF Holder
<1>2. ASSUME NEW t \in At("held") PROVE Holder' = Holder
  BY <1>2, HolderIs, HolderIsNext DEF At
<1> QED
  BY <1>1, <1>2

LEMMA MutexStep == Inv /\ Inv' /\ [Next]_vars => [Mutex!Next]_Holder
<1> SUFFICES ASSUME Inv, Inv', [Next]_vars
             PROVE  [Mutex!Next]_Holder
  OBVIOUS
<1> USE DEF Inv, TypeOK
<1>1. ASSUME NEW t \in Threads, pc'[t] = "held", At("held") = {}
      PROVE  Mutex!Next
  <2>1. Holder' = t
    BY <1>1, HolderIsNext
  <2>2. Holder = NoThread
    BY <1>1 DEF Holder
  <2> QED
    BY <2>1, <2>2 DEF Mutex!Next, Mutex!Take
<1>2. ASSUME NEW t \in Threads, pc[t] = "held", word' = Free
      PROVE  Mutex!Next
  <2>1. Holder = t
    BY <1>2, HolderIs
  <2>2. Holder' = NoThread
    BY <1>2 DEF Holder, WordTells
  <2> QED
    BY <2>1, <2>2 DEF Mutex!Next, Mutex!Give
<1>3. ASSUME NEW t \in Threads, LockFree(t) PROVE Mutex!Next
  BY <1>1, <1>3 DEF LockFree, GoTo, WordTells
<1>4. ASSUME NEW t \in Threads, Unlock(t) PROVE Mutex!Next
  BY <1>2, <1>4 DEF Unlock
<1>5. ASSUME NEW t \in Threads, Swap(t) PROVE [Mutex!Next]_Holder
  <2>1. CASE word = Free
    BY <1>1, <1>5, <2>1 DEF Swap, GoTo, WordTells
  <2>2. CASE word # Free
    <3>1. At("held")' = At("held")
      BY <1>5, <2>2 DEF Swap, GoTo, At
    <3> QED
      BY <3>1, HolderSame
  <2> QED
    BY <2>1, <2>2
<1>6. ASSUME NEW t \in Threads,
             \/ LockContended(t) \/ FutexWait(t)
             \/ FutexReturns(t) \/ FutexWake(t)
      PROVE  Holder' = Holder
  <2>1. At("held")' = At("held")
    BY <1>6 DEF LockContended, FutexWait, FutexReturns, FutexWake, GoTo, At
  <2> QED
    BY <2>1, HolderSame
<1>7. CASE UNCHANGED vars
  <2>1. At("held")' = At("held")
    BY <1>7 DEF vars, At
  <2> QED
    BY <2>1, HolderSame
<1> QED
  BY <1>3, <1>4, <1>5, <1>6, <1>7 DEF Next, Step

\* The futex code implements the contract of the word that platform.h states:
\* every take finds the word given back, and only the holder gives it back.
THEOREM KeepsContract == Spec => ImplementsMutex
<1>1. Init => Mutex!Init
  BY DEF Init, Mutex!Init, Holder, At
<1> QED
  BY <1>1, MutexStep, InvHolds, PTL
     DEF Spec, ImplementsMutex, Mutex!Spec

-----------------------------------------------------------------------------
(* The start of a program. *)

Values == [layer : {BUILD, FILE, COMMAND}, from : Files \cup {NoFile}, cell : Nat]
OpenFiles == [file : Files, next : Nat \ {0}, todo : SUBSET Names]

StoreOK ==
    /\ graph \in [Files -> Seq(Files)] /\ sets \in [Files -> SUBSET Names]
    /\ command \in SUBSET Names
    /\ value \in [Names -> Values]
    /\ cells \in Nat /\ live \in SUBSET (1 .. cells)
    /\ held \in [Mains -> Nat]

ReadingOK ==
    /\ stack \in Seq(OpenFiles)
    /\ Len(stack) <= IncludeDepth + 1
    /\ files \in 0 .. IncludeFiles

\* The order of the start: the seed is drawn once, before anything is set.
OrderOK ==
    /\ stage \in {"init", "options", "read", "inject", "main", "exit"}
    /\ initing \in {"no", "seed", "ready"}
    /\ stage # "init" => started /\ initing = "no" /\ seed # CONSTANT_SEED
    /\ stage = "init" => \A n \in Names : value[n] = Unset
    /\ initing # "no" => started
    /\ started /\ initing = "no" => seed # CONSTANT_SEED
    /\ ready => seed # CONSTANT_SEED
    /\ initing = "ready" => seed # CONSTANT_SEED

\* Each name has bytes of its own, which are not freed.
CellsOK ==
    \A m \in Names :
        /\ value[m].cell <= cells
        /\ value[m].cell # 0 => value[m].cell \in live
        /\ \A n \in Names : value[m].cell = value[n].cell /\ value[m].cell # 0
                                => m = n

\* No thread has bytes before main.
HeldLate == \A t \in Mains : held[t] # 0 => stage \in {"main", "exit"}

\* The options stand, with no file, once they are all read.
OptionsStand ==
    /\ \A n \in Names : value[n].layer = COMMAND => value[n].from = NoFile
    /\ stage = "options" =>
          \A n \in Names : value[n] = Unset \/ value[n].layer = COMMAND
    /\ stage \in {"read", "inject", "main"} =>
          \A n \in command : value[n].layer = COMMAND

StartInv ==
    /\ StoreOK /\ ReadingOK /\ OrderOK /\ CellsOK /\ HeldLate /\ OptionsStand
    /\ SeedFollowsKey /\ ProviderFixed /\ BytesStay /\ NeverBelowItself

USE StartupAssumption DEF BUILD, FILE, COMMAND, CONSTANT_SEED, DRAWN

LEMMA StartInvInit == StartInit => StartInv
<1> SUFFICES ASSUME StartInit PROVE StartInv
  OBVIOUS
<1> USE DEF StartInit
<1>1. Unset \in Values
  BY DEF Unset, Values
<1>2. StoreOK
  BY <1>1 DEF StoreOK
<1>3. ReadingOK
  <2>1. stack \in Seq(OpenFiles) /\ Len(stack) = 0
    OBVIOUS
  <2> QED
    BY <2>1 DEF ReadingOK
<1>4. OrderOK /\ HeldLate /\ BytesStay /\ ProviderFixed /\ NeverBelowItself
  BY DEF OrderOK, HeldLate, BytesStay, ProviderFixed, NeverBelowItself
<1>5. CellsOK /\ OptionsStand /\ SeedFollowsKey
  BY DEF CellsOK, OptionsStand, SeedFollowsKey, Unset
<1> QED
  BY <1>2, <1>3, <1>4, <1>5 DEF StartInv

-----------------------------------------------------------------------------
(* What the operators do. *)

\* A name that is taken gets bytes of its own.
LEMMA TakenKeeps ==
  ASSUME StoreOK, CellsOK, NEW n \in Names, NEW layer \in {BUILD, FILE, COMMAND},
         NEW from \in Files \cup {NoFile}, Taken(n, layer, from),
         cells' = cells + 1,
         \/ live' = live \cup {cells + 1}
         \/ live' = (live \ {value[n].cell}) \cup {cells + 1}
  PROVE  /\ value' \in [Names -> Values] /\ cells' \in Nat
         /\ live' \in SUBSET (1 .. cells')
         /\ CellsOK'
<1> DEFINE v == [layer |-> layer, from |-> from, cell |-> cells + 1]
<1>1. v \in Values /\ v.cell = cells + 1
  BY DEF StoreOK, Values
<1>2. value' = [value EXCEPT ![n] = v]
  BY DEF Taken
<1> HIDE DEF v
<1>3. value' \in [Names -> Values] /\ cells' \in Nat
  BY <1>1, <1>2 DEF StoreOK
<1>4. ASSUME NEW x \in live' PROVE x \in 1 .. cells'
  <2>1. cells \in Nat /\ \A y \in live : y \in 1 .. cells
    BY DEF StoreOK
  <2>2. x \in live \/ x = cells + 1
    BY <1>4
  <2> QED
    BY <2>1, <2>2
<1>5. \A m \in Names : value[m].cell \in Nat
  BY DEF StoreOK, Values
<1>6. CellsOK'
  BY <1>1, <1>2, <1>5 DEF StoreOK, CellsOK
<1> QED
  BY <1>3, <1>4, <1>6

\* What a step that sets a name may change, and what it never does.
LEMMA SetNameKeeps ==
  ASSUME StoreOK, CellsOK, SeedFollowsKey,
         NEW n \in Names, NEW layer \in {FILE, COMMAND},
         NEW from \in Files \cup {NoFile}, SetName(n, layer, from)
  PROVE  /\ value' \in [Names -> Values] /\ cells' \in Nat
         /\ live' \in SUBSET (1 .. cells')
         /\ CellsOK' /\ SeedFollowsKey'
         /\ seed # CONSTANT_SEED => seed' # CONSTANT_SEED
         /\ n # Interface => live \subseteq live'
         /\ \A m \in Names \ {n} : value'[m] = value[m]
         /\ \/ value[n].layer > layer /\ value' = value
            \/ /\ value[n].layer <= layer
               /\ value'[n].layer = layer /\ value'[n].from = from
<1>1. CASE value[n].layer > layer /\ UNCHANGED keyVars
  BY <1>1 DEF keyVars, StoreOK, CellsOK, SeedFollowsKey
<1>2. CASE value[n].layer > layer /\ cells' = cells + 1
           /\ UNCHANGED <<value, live, seed>>
  BY <1>2 DEF StoreOK, CellsOK, SeedFollowsKey, Values
<1>3. CASE /\ value[n].layer <= layer /\ cells' = cells + 1
           /\ Taken(n, layer, from)
           /\ \/ live' = live \cup {cells + 1}
              \/ n = Interface /\ live' = (live \ {value[n].cell}) \cup {cells + 1}
  <2>1. /\ value' \in [Names -> Values] /\ cells' \in Nat
        /\ live' \in SUBSET (1 .. cells')
        /\ CellsOK'
    BY <1>3, TakenKeeps
  <2>2. /\ seed # CONSTANT_SEED => seed' # CONSTANT_SEED
        /\ \A m \in Names \ {n} : value'[m] = value[m]
        /\ value'[n].layer = layer /\ value'[n].from = from
        /\ value'[n].cell = cells + 1
    BY <1>3 DEF Taken, StoreOK
  <2>3. SeedFollowsKey'
    BY <1>3, <2>2 DEF Taken, SeedFollowsKey
  <2> QED
    BY <1>3, <2>1, <2>2, <2>3
<1>4. value[n].layer \in {BUILD, FILE, COMMAND}
  BY DEF StoreOK, Values
<1>5. CASE n = Interface
  BY <1>1, <1>3, <1>4, <1>5 DEF SetName, InjectLine
<1>6. CASE n # Interface
  BY <1>2, <1>3, <1>4, <1>6 DEF SetName, SetKey
<1> QED
  BY <1>5, <1>6

\* read_file keeps the stack of open files apart, and within its bounds.
LEMMA ReadFileKeeps ==
  ASSUME StoreOK, ReadingOK, NeverBelowItself, NEW f \in Files,
         NEW below \in Seq(OpenFiles), Len(below) <= IncludeDepth + 1,
         \A i, j \in DOMAIN below : below[i].file = below[j].file => i = j,
         ReadFile(f, below)
  PROVE  /\ ReadingOK' /\ NeverBelowItself'
         /\ \/ UNCHANGED <<stage, why>>
            \/ stage' = "exit"
<1> DEFINE frame == FileFrame(f)
<1>1. frame \in OpenFiles /\ frame.file = f
  BY DEF FileFrame, OpenFiles, StoreOK
<1>2. CASE stack' = Append(below, frame) /\ files' = files + 1
           /\ files # IncludeFiles
           /\ ~(\E i \in DOMAIN below : below[i].file = f)
           /\ Len(below) <= IncludeDepth /\ UNCHANGED <<stage, why>>
  <2> HIDE DEF frame
  <2>1. stack' \in Seq(OpenFiles) /\ Len(stack') = Len(below) + 1
    BY <1>1, <1>2
  <2>2. ReadingOK'
    BY <1>2, <2>1 DEF ReadingOK
  <2>3. \A i \in 1 .. Len(stack') :
           stack'[i] = IF i = Len(below) + 1 THEN frame ELSE below[i]
    BY <1>1, <1>2, <2>1
  <2>4. NeverBelowItself'
    BY <1>1, <1>2, <2>1, <2>3 DEF NeverBelowItself
  <2> QED
    BY <1>2, <2>2, <2>4
<1>3. CASE UNCHANGED <<stack, files>> /\ stage' = "exit"
  BY <1>3 DEF ReadingOK, NeverBelowItself
<1> QED
  BY <1>2, <1>3 DEF ReadFile, Exit, ReadingOK

-----------------------------------------------------------------------------
(* Every step keeps the invariant. *)

LEMMA StartInvStep == StartInv /\ [StartNext]_startVars => StartInv'
<1> SUFFICES ASSUME StartInv, [StartNext]_startVars
             PROVE  StartInv'
  OBVIOUS
<1> USE DEF StartInv
<1> DEFINE Store == StoreOK /\ ReadingOK /\ CellsOK /\ NeverBelowItself
           Shown == SeedFollowsKey /\ ProviderFixed /\ BytesStay
           Order == OrderOK /\ HeldLate /\ OptionsStand
\* A step that only moves the stage.
<1>1. ASSUME UNCHANGED <<input, initVars, keyVars, stack, files, held>>
      PROVE  Store' /\ SeedFollowsKey' /\ BytesStay'
  BY <1>1 DEF input, initVars, keyVars, StoreOK, ReadingOK, CellsOK,
              NeverBelowItself, SeedFollowsKey, BytesStay
<1>2. CASE InitMain
  BY <1>2 DEF InitMain, InitBegin, input, keyVars, StoreOK, ReadingOK, CellsOK,
              NeverBelowItself, SeedFollowsKey, BytesStay, OrderOK, HeldLate,
              OptionsStand, ProviderFixed
<1>3. CASE SeedStart
  BY <1>3 DEF SeedStart, input, StoreOK, ReadingOK, CellsOK, Unset,
              NeverBelowItself, SeedFollowsKey, BytesStay, OrderOK, HeldLate,
              OptionsStand, ProviderFixed
<1>4. CASE InitReady
  BY <1>4 DEF InitReady, input, keyVars, StoreOK, ReadingOK, CellsOK,
              NeverBelowItself, SeedFollowsKey, BytesStay, OrderOK, HeldLate,
              OptionsStand, ProviderFixed
<1>5. CASE InitLate
  BY <1>5 DEF InitLate, InitBegin, input, keyVars, StoreOK, ReadingOK, CellsOK,
              NeverBelowItself, SeedFollowsKey, BytesStay, OrderOK, HeldLate,
              OptionsStand, ProviderFixed
<1>6. ASSUME NEW n \in Names, Option(n) PROVE StartInv'
  <2> USE <1>6 DEF Option
  <2>1. /\ value' \in [Names -> Values] /\ cells' \in Nat
        /\ live' \in SUBSET (1 .. cells') /\ CellsOK' /\ SeedFollowsKey'
        /\ seed # CONSTANT_SEED => seed' # CONSTANT_SEED
        /\ \A m \in Names \ {n} : value'[m] = value[m]
        /\ \/ value' = value
           \/ value'[n].layer = COMMAND /\ value'[n].from = NoFile
    BY SetNameKeeps
  <2>2. Store'
    BY <2>1 DEF input, StoreOK, ReadingOK, NeverBelowItself
  <2>3. Order'
    BY <2>1 DEF input, initVars, OrderOK, HeldLate, OptionsStand
  <2>4. ProviderFixed' /\ BytesStay'
    BY DEF ProviderFixed, BytesStay, HeldLate
  <2> QED
    BY <2>1, <2>2, <2>3, <2>4
<1>7. CASE OptionRefused \/ ConfStart \/ ReadRefused \/ InjectRefused
  <2>1. /\ UNCHANGED <<input, initVars, keyVars, stack, files, fileRead, provider, held>>
        /\ \/ stage' = "exit" /\ stage # "init"
           \/ /\ stage = "options" /\ stage' \in {"read", "inject"}
              /\ \A n \in command : value[n] # Unset
    BY <1>7 DEF OptionRefused, ConfStart, ReadRefused, InjectRefused, Exit
  <2>2. Order' /\ ProviderFixed'
    BY <2>1 DEF input, initVars, keyVars, OrderOK, HeldLate, OptionsStand,
                ProviderFixed, StoreOK
  <2> QED
    BY <1>1, <2>1, <2>2
<1>8. CASE InjectStart
  <2> USE <1>8 DEF InjectStart, Exit
  <2>1. Order' /\ ProviderFixed'
    BY DEF input, initVars, keyVars, OrderOK, HeldLate, OptionsStand,
           ProviderFixed
  <2> QED
    BY <1>1, <2>1
\* A file that is opened.
<1>9. ASSUME stage # "init",
             ReadingOK' /\ NeverBelowItself',
             UNCHANGED <<stage, why>> \/ stage' = "exit",
             UNCHANGED <<input, initVars, keyVars, provider, held>>
      PROVE  StartInv'
  BY <1>9 DEF input, initVars, keyVars, StoreOK, CellsOK, SeedFollowsKey,
              BytesStay, OrderOK, HeldLate, OptionsStand, ProviderFixed
<1>10. CASE ReadRoot \/ \E t \in Mains : Configure(t)
  <2>1. /\ ReadFile(Root, <<>>) /\ stage # "init"
        /\ UNCHANGED <<input, initVars, keyVars, provider, held>>
    BY <1>10 DEF ReadRoot, Configure
  <2> DEFINE below == <<>>
  <2>2. /\ below \in Seq(OpenFiles) /\ Len(below) <= IncludeDepth + 1
        /\ \A i, j \in DOMAIN below : below[i].file = below[j].file => i = j
    OBVIOUS
  <2> HIDE DEF below
  <2>4. ReadFile(Root, below)
    BY <2>1 DEF below
  <2>3. ReadingOK' /\ NeverBelowItself' /\ (UNCHANGED <<stage, why>> \/ stage' = "exit")
    BY <2>2, <2>4, ReadFileKeeps
  <2> QED
    BY <1>9, <2>1, <2>3
<1>11. CASE ReadInclude
  <2> USE <1>11 DEF ReadInclude
  <2> DEFINE top == Len(stack)
             frame == [stack[top] EXCEPT !.next = @ + 1]
             below == [stack EXCEPT ![top] = frame]
             f == graph[Reading.file][Reading.next]
  <2>1. top \in 1 .. Len(stack) /\ Reading = stack[top] /\ Reading \in OpenFiles
    BY DEF ReadingOK, Reading
  <2>a. frame \in OpenFiles /\ frame.file = stack[top].file
    BY <2>1 DEF OpenFiles
  <2>2. /\ below \in Seq(OpenFiles) /\ Len(below) = Len(stack)
        /\ \A i \in 1 .. Len(stack) : below[i] = IF i = top THEN frame ELSE stack[i]
    <3> HIDE DEF frame
    <3> QED
      BY <2>1, <2>a, ExceptSeq DEF ReadingOK
  <2>3. \A i \in 1 .. Len(stack) : below[i].file = stack[i].file
    BY <2>a, <2>2
  <2>4. f \in Files
    <3>1. graph[Reading.file] \in Seq(Files)
      BY <2>1 DEF StoreOK, OpenFiles
    <3>2. Reading.next \in 1 .. Len(graph[Reading.file])
      BY <2>1, <3>1 DEF OpenFiles
    <3> QED
      BY <3>1, <3>2
  <2>5. \A i, j \in DOMAIN below : below[i].file = below[j].file => i = j
    BY <2>2, <2>3 DEF NeverBelowItself, ReadingOK
  <2>6. ReadFile(f, below) /\ Len(below) <= IncludeDepth + 1
    BY <2>2 DEF ReadingOK
  <2> HIDE DEF below, f
  <2>7. ReadingOK' /\ NeverBelowItself' /\ (UNCHANGED <<stage, why>> \/ stage' = "exit")
    BY <2>2, <2>4, <2>5, <2>6, ReadFileKeeps
  <2> QED
    BY <1>9, <2>7
<1>12. ASSUME NEW n \in Names, ReadKey(n) PROVE StartInv'
  <2> USE <1>12 DEF ReadKey
  <2>1. CASE Exit("injection") /\ UNCHANGED <<stack, keyVars>>
    <3>1. Order' /\ ProviderFixed'
      BY <2>1 DEF Exit, input, initVars, keyVars, OrderOK, HeldLate, OptionsStand,
                  ProviderFixed
    <3> QED
      BY <1>1, <2>1, <3>1
  <2>2. CASE /\ ~(stage = "main" /\ n = Interface)
             /\ SetName(n, FILE, Reading.file)
             /\ stack' = [stack EXCEPT ![Len(stack)].todo = @ \ {n}]
             /\ UNCHANGED <<stage, why>>
    <3> DEFINE top == Len(stack)
               frame == [stack[top] EXCEPT !.todo = @ \ {n}]
    <3>1. top \in 1 .. Len(stack) /\ Reading = stack[top] /\ Reading \in OpenFiles
      BY DEF ReadingOK, Reading
    <3>2. frame \in OpenFiles /\ frame.file = stack[top].file
      BY <3>1 DEF OpenFiles
    <3>3. stack' = [stack EXCEPT ![top] = frame]
      BY <2>2
    <3> HIDE DEF frame
    <3>4. /\ stack' \in Seq(OpenFiles) /\ Len(stack') = Len(stack)
          /\ \A i \in 1 .. Len(stack) : stack'[i] = IF i = top THEN frame ELSE stack[i]
      BY <3>1, <3>2, <3>3, ExceptSeq DEF ReadingOK
    <3>5. \A i \in 1 .. Len(stack) : stack'[i].file = stack[i].file
      BY <3>2, <3>4
    <3>6. ReadingOK' /\ NeverBelowItself'
      <4>1. ReadingOK'
        BY <3>4 DEF ReadingOK
      <4>2. DOMAIN stack = 1 .. Len(stack) /\ DOMAIN stack' = 1 .. Len(stack)
        BY <3>4 DEF ReadingOK
      <4>3. NeverBelowItself'
        BY <3>5, <4>2, Zenon DEF NeverBelowItself
      <4> QED
        BY <4>1, <4>3
    <3>7. Reading.file \in Files
      BY <3>1 DEF OpenFiles
    <3>8. /\ value' \in [Names -> Values] /\ cells' \in Nat
          /\ live' \in SUBSET (1 .. cells') /\ CellsOK' /\ SeedFollowsKey'
          /\ seed # CONSTANT_SEED => seed' # CONSTANT_SEED
          /\ n # Interface => live \subseteq live'
          /\ \A m \in Names \ {n} : value'[m] = value[m]
          /\ \/ value' = value
             \/ value[n].layer <= FILE /\ value'[n].layer = FILE
      BY <2>2, <3>7, SetNameKeeps
    <3>9. StoreOK'
      BY <3>8 DEF input, StoreOK
    <3>10. Order'
      <4>1. OrderOK' /\ HeldLate'
        BY <2>2, <3>8 DEF initVars, OrderOK, HeldLate
      <4>2. OptionsStand'
        <5>1. ASSUME NEW m \in Names, value[m].layer = COMMAND
              PROVE  value'[m] = value[m]
          BY <5>1, <3>8
        <5>2. ASSUME NEW m \in Names, value'[m].layer = COMMAND
              PROVE  value'[m] = value[m]
          BY <5>2, <3>8
        <5>3. stage' \in {"read", "main"}
          BY <2>2
        <5> QED
          BY <2>2, <5>1, <5>2, <5>3 DEF input, OptionsStand, StoreOK
      <4> QED
        BY <4>1, <4>2
    <3>11. ProviderFixed' /\ BytesStay'
      BY <2>2, <3>8 DEF ProviderFixed, BytesStay, HeldLate
    <3> QED
      BY <3>6, <3>8, <3>9, <3>10, <3>11
  <2> QED
    BY <2>1, <2>2
<1>13. CASE ReadEnd
  <2> USE <1>13 DEF ReadEnd
  <2>1. /\ stack' \in Seq(OpenFiles) /\ Len(stack') = Len(stack) - 1
        /\ \A i \in 1 .. Len(stack') : stack'[i] = stack[i]
    <3> DEFINE n == Len(stack) - 1
    <3>1. n \in Nat /\ \A i \in 1 .. n : stack[i] \in OpenFiles
      BY DEF ReadingOK
    <3> HIDE DEF n
    <3>2. /\ SubSeq(stack, 1, n) \in Seq(OpenFiles) /\ Len(SubSeq(stack, 1, n)) = n
          /\ \A i \in 1 .. n : SubSeq(stack, 1, n)[i] = stack[i]
      BY <3>1, SubSeqProperties
    <3> QED
      BY <3>2 DEF n
  <2>2. ReadingOK' /\ NeverBelowItself'
    BY <2>1 DEF ReadingOK, NeverBelowItself
  <2>3. StoreOK' /\ CellsOK' /\ Shown'
    BY DEF input, keyVars, StoreOK, CellsOK, SeedFollowsKey, ProviderFixed,
           BytesStay
  <2>4. Order'
    BY DEF input, initVars, keyVars, OrderOK, HeldLate, OptionsStand
  <2> QED
    BY <2>2, <2>3, <2>4
<1>14. ASSUME NEW t \in Mains, NEW n \in Names, Get(t, n) PROVE StartInv'
  <2> USE <1>14 DEF Get
  <2>1. value[n].cell \in Nat
    BY DEF StoreOK, Values
  <2>2. Store' /\ SeedFollowsKey' /\ ProviderFixed'
    BY <2>1 DEF input, keyVars, StoreOK, ReadingOK, CellsOK, NeverBelowItself,
                SeedFollowsKey, ProviderFixed
  <2>3. Order' /\ BytesStay'
    BY DEF input, initVars, keyVars, OrderOK, HeldLate, OptionsStand, BytesStay,
           StoreOK, CellsOK
  <2> QED
    BY <2>2, <2>3
<1>15. CASE UNCHANGED startVars
  BY <1>15 DEF startVars, input, initVars, keyVars, StoreOK, ReadingOK, CellsOK,
               NeverBelowItself, SeedFollowsKey, BytesStay, OrderOK, HeldLate,
               OptionsStand, ProviderFixed
<1> QED
  BY <1>2, <1>3, <1>4, <1>5, <1>6, <1>7, <1>8, <1>10, <1>11, <1>12, <1>13,
     <1>14, <1>15 DEF StartNext, Read

LEMMA StartInvHolds == StartSpec => []StartInv
  BY StartInvInit, StartInvStep, PTL DEF StartSpec

-----------------------------------------------------------------------------

\* Whatever a program, a library for C or a configuration does later, what the
\* start gave out stays good: the seed a reader of ready finds, the bytes of
\* anti_rt_conf_get, and the provider of an interface.
THEOREM HandedOutAlwaysStays == StartSpec => []HandedOutStays
<1>1. StartInv => StartTypeOK
  <2> SUFFICES ASSUME StartInv PROVE StartTypeOK
    OBVIOUS
  <2>1. \A n \in Names : value[n] \in Values
    BY DEF StartInv, StoreOK
  <2> QED
    BY <2>1 DEF StartInv, StartTypeOK, StoreOK, ReadingOK, OrderOK, Values
<1>2. StartInv => ReadyMeansSeeded
  BY DEF StartInv, ReadyMeansSeeded, OrderOK
<1>3. StartInv => HandedOutStays
  BY <1>1, <1>2 DEF StartInv, HandedOutStays
<1> QED
  BY <1>3, StartInvHolds, PTL

\* read_file never reads a file below itself, over any includes, so the walk of
\* the including files is what stops a cycle and not the bound on the depth.
THEOREM CycleNeverEntered == StartSpec => []NeverBelowItself
<1>1. StartInv => NeverBelowItself
  BY DEF StartInv
<1> QED
  BY <1>1, StartInvHolds, PTL

\* Once the program runs, no file has replaced what an option set.
OptionsWin ==
    stage = "main" => \A n \in command : value[n].layer = COMMAND /\ value[n].from = NoFile

\* The option is the strongest layer of set_key and anti_rt_inject_line, whatever
\* files are read at the start and by rt.configure.
THEOREM OptionsAlwaysWin == StartSpec => []OptionsWin
<1>1. StartInv => OptionsWin
  BY DEF StartInv, OptionsWin, OptionsStand, StoreOK
<1> QED
  BY <1>1, StartInvHolds, PTL

-----------------------------------------------------------------------------
(* The settings that the files give. *)

\* The stack of files: each was reached over the include its file below is at, and a
\* file sets its keys after its includes.
ChainOK ==
    /\ stack # <<>> => stack[1].file = Root
    /\ \A k \in 1 .. Len(stack) :
          /\ stack[k].next <= Len(graph[stack[k].file]) + 1
          /\ stack[k].todo \subseteq sets[stack[k].file]
          /\ stack[k].next <= Len(graph[stack[k].file]) =>
                stack[k].todo = sets[stack[k].file]
    /\ \A k \in 1 .. Len(stack) - 1 :
          /\ stack[k].next >= 2 /\ stack[k].todo = sets[stack[k].file]
          /\ stack[k + 1].file = graph[stack[k].file][stack[k].next - 1]
    /\ \A i, j \in 1 .. Len(stack) : i < j => stack[j].file \in Below(stack[i].file)

\* The root reaches a cycle of includes.
Looped == \E f \in Reached(Root) : f \in Below(f)

\* When files are read.
FlowOK ==
    /\ stage \in {"init", "options"} => files = 0 /\ ~fileRead
    /\ stage = "read" /\ stack = <<>> => files = 0
    /\ stage = "inject" => stack = <<>>
    /\ stage \in {"inject", "main"} /\ ~fileRead => files = 0
    /\ files = 0 => stack = <<>>
    /\ why = "cycle" => stage = "exit" /\ (Looped \/ Len(stack) > IncludeDepth)
    /\ \A n \in Names \ command : value[n].layer # COMMAND

\* The files D were read to their end: with a file its includes, and there is an end to
\* the includes.
Ended(D) ==
    /\ D \subseteq Files
    /\ \A g \in D : Includes(g) \subseteq D
    /\ \A S \in SUBSET D : S # {} => \E g \in S : Includes(g) \cap S = {}

\* LastGiven of the first c includes.
LastTo(F, g, c, x) ==
    \/ x = NoFile /\ \A i \in 1 .. c : F[graph[g][i]] = NoFile
    \/ \E i \in 1 .. c : /\ x = F[graph[g][i]] /\ x # NoFile
                         /\ \A j \in 1 .. c : j > i => F[graph[g][j]] = NoFile

\* F says for each of the files D what it gives name n.
Solves(F, D, n) ==
    /\ F \in [D -> Files \cup {NoFile}]
    /\ \A g \in D : IF n \in sets[g] THEN F[g] = g ELSE LastTo(F, g, Len(graph[g]), F[g])

\* The includes that frame k of st has behind it, and what the frame has given so far.
Behind(st, k) == st[k].next - (IF k = Len(st) THEN 1 ELSE 2)
PartIs(F, st, k, n, x) ==
    IF n \in sets[st[k].file] \ st[k].todo THEN x = st[k].file
    ELSE LastTo(F, st[k].file, Behind(st, k), x)

\* What the open files have given: what the innermost did that gave something.
GivenIs(F, st, n, x) ==
    \/ x = NoFile /\ \A k \in 1 .. Len(st) : PartIs(F, st, k, n, NoFile)
    \/ \E k \in 1 .. Len(st) :
          /\ x # NoFile /\ PartIs(F, st, k, n, x)
          /\ \A j \in 1 .. Len(st) : j > k => PartIs(F, st, j, n, NoFile)

\* The includes behind a frame were read to their end.
ReadIn(D, st) ==
    \A k \in 1 .. Len(st) : \A i \in 1 .. Behind(st, k) : graph[st[k].file][i] \in D

\* What the files have given name n so far: x.
NameTold(D, st, fs, n, x) ==
    \E F \in [D -> Files \cup {NoFile}] :
        /\ Solves(F, D, n)
        /\ IF st = <<>> /\ fs > 0 THEN x = F[Root] ELSE GivenIs(F, st, n, x)

\* The names that no option sets have what the files gave.
ToldBy(D, st, fs, val) ==
    /\ Ended(D) /\ ReadIn(D, st)
    /\ st = <<>> /\ fs > 0 => Root \in D
    /\ \A n \in Names \ command : NameTold(D, st, fs, n, val[n].from)

Told == \E D \in SUBSET Files : ToldBy(D, stack, files, value)

LayerInv == ChainOK /\ FlowOK /\ Told

-----------------------------------------------------------------------------
(* The files below a file. *)

\* A set that has the includes of f and is closed under includes.
Shut(S, f) == Includes(f) \subseteq S /\ \A h \in S : Includes(h) \subseteq S

\* A file is below f when it is in every such set.
LEMMA BelowIs ==
    ASSUME NEW f, NEW g
    PROVE  g \in Below(f) <=> g \in Files /\ \A S \in SUBSET Files : Shut(S, f) => g \in S
<1>1. ASSUME NEW S
      PROVE  (Includes(f) \cup UNION {Includes(h) : h \in S} \subseteq S) <=> Shut(S, f)
  BY DEF Shut
<1> QED
  BY <1>1 DEF Below

\* The includes of a file are files.
LEMMA IncludesIn ==
    ASSUME StoreOK, NEW f \in Files
    PROVE  Includes(f) \subseteq Files
<1>1. graph[f] \in Seq(Files)
  BY DEF StoreOK
<1> QED
  BY <1>1 DEF Includes

\* The includes of f are below it, and so are those of a file below it.
LEMMA BelowHas ==
    ASSUME StoreOK, NEW f \in Files
    PROVE  Shut(Below(f), f)
<1>1. Includes(f) \subseteq Below(f)
  BY IncludesIn, BelowIs DEF Shut
<1>2. ASSUME NEW h \in Below(f)
      PROVE  Includes(h) \subseteq Below(f)
  <2>1. h \in Files /\ \A S \in SUBSET Files : Shut(S, f) => h \in S
    BY BelowIs
  <2>2. \A S \in SUBSET Files : Shut(S, f) => Includes(h) \subseteq S
    BY <2>1 DEF Shut
  <2>3. Includes(h) \subseteq Files
    BY <2>1, IncludesIn
  <2> QED
    BY <2>2, <2>3, BelowIs
<1> QED
  BY <1>1, <1>2 DEF Shut

\* Every such set has all that is below f.
LEMMA BelowWithin ==
    ASSUME NEW f, NEW S \in SUBSET Files, Shut(S, f)
    PROVE  Below(f) \subseteq S
BY BelowIs

\* The way to a file below f begins with an include of f.
LEMMA BelowFirst ==
    ASSUME StoreOK, NEW f \in Files, NEW x \in Below(f)
    PROVE  \E h \in Includes(f) : x = h \/ x \in Below(h)
<1> DEFINE S == Includes(f) \cup UNION {Below(h) : h \in Includes(f)}
<1>1. Includes(f) \subseteq Files
  BY IncludesIn
<1>2. S \in SUBSET Files
  BY <1>1, BelowIs
<1>3. ASSUME NEW h \in S
      PROVE  Includes(h) \subseteq S
  <2>1. CASE h \in Includes(f)
    <3>1. Includes(h) \subseteq Below(h)
      BY <1>1, <2>1, BelowHas DEF Shut
    <3> QED
      BY <2>1, <3>1
  <2>2. ASSUME NEW g \in Includes(f), h \in Below(g)
        PROVE  Includes(h) \subseteq S
    <3>1. Includes(h) \subseteq Below(g)
      BY <1>1, <2>2, BelowHas DEF Shut
    <3> QED
      BY <2>2, <3>1
  <2> QED
    BY <2>1, <2>2
<1>4. Shut(S, f)
  BY <1>3 DEF Shut
<1>5. x \in S
  <2> HIDE DEF S
  <2> QED
    BY <1>2, <1>4, BelowWithin
<1> QED
  BY <1>5

\* Files that were read to their end reach no cycle.
LEMMA NoLoop ==
    ASSUME StoreOK, NEW D, Ended(D), Root \in D
    PROVE  ~Looped
<1> SUFFICES ASSUME NEW f \in Reached(Root), f \in Below(f)
             PROVE  FALSE
  BY DEF Looped
<1>1. D \in SUBSET Files /\ Shut(D, Root)
  BY DEF Ended, Shut
<1>2. f \in D
  BY <1>1, BelowWithin DEF Reached
<1> DEFINE S == {g \in D : f \in Below(g)}
<1>3. S \in SUBSET D /\ S # {}
  BY <1>2
<1>4. PICK g \in S : Includes(g) \cap S = {}
  <2> HIDE DEF S
  <2> QED
    BY <1>3 DEF Ended
<1>5. g \in Files /\ f \in Below(g) /\ Includes(g) \subseteq D
  BY <1>1, <1>4 DEF Ended
<1>6. PICK h \in Includes(g) : f = h \/ f \in Below(h)
  BY <1>5, BelowFirst
<1>7. h \in S
  BY <1>5, <1>6
<1> QED
  BY <1>4, <1>6, <1>7

-----------------------------------------------------------------------------
(* What the layers give is one, and the files that were read have it. *)

\* The last that is given is one.
LEMMA LastOne ==
    ASSUME NEW F, NEW G, NEW g, NEW c \in Int, NEW x, NEW y, LastTo(F, g, c, x),
           LastTo(G, g, c, y), \A i \in 1 .. c : F[graph[g][i]] = G[graph[g][i]]
    PROVE  x = y
<1>1. CASE \A i \in 1 .. c : F[graph[g][i]] = NoFile
  BY <1>1 DEF LastTo
<1>2. ASSUME NEW i \in 1 .. c, F[graph[g][i]] # NoFile
      PROVE  x = y
  <2>1. PICK k \in 1 .. c : /\ x = F[graph[g][k]] /\ x # NoFile
                            /\ \A j \in 1 .. c : j > k => F[graph[g][j]] = NoFile
    BY <1>2 DEF LastTo
  <2>2. PICK l \in 1 .. c : /\ y = G[graph[g][l]] /\ y # NoFile
                            /\ \A j \in 1 .. c : j > l => G[graph[g][j]] = NoFile
    BY <1>2 DEF LastTo
  <2>3. ~(k > l) /\ ~(l > k)
    BY <2>1, <2>2
  <2>4. k = l
    BY <2>3
  <2> QED
    BY <2>1, <2>2, <2>4
<1> QED
  BY <1>1, <1>2

\* A file names its includes.
LEMMA IncludeAt ==
    ASSUME StoreOK, NEW g \in Files
    PROVE  /\ Len(graph[g]) \in Nat /\ DOMAIN graph[g] = 1 .. Len(graph[g])
           /\ \A i \in 1 .. Len(graph[g]) : graph[g][i] \in Includes(g)
<1>1. graph[g] \in Seq(Files)
  BY DEF StoreOK
<1> QED
  BY <1>1 DEF Includes

\* Two that follow the layers agree where both are told.
LEMMA SolveOne ==
    ASSUME StoreOK, NEW D, Ended(D), NEW n, NEW F, Solves(F, D, n),
           NEW E \in SUBSET D, \A g \in E : Includes(g) \subseteq E,
           NEW G, Solves(G, E, n)
    PROVE  \A g \in E : F[g] = G[g]
<1> DEFINE S == {g \in E : F[g] # G[g]}
<1> SUFFICES ASSUME S # {}
             PROVE  FALSE
  OBVIOUS
<1>1. S \in SUBSET D
  OBVIOUS
<1>2. PICK g \in S : Includes(g) \cap S = {}
  <2> HIDE DEF S
  <2> QED
    BY <1>1 DEF Ended
<1>3. g \in E /\ g \in D /\ g \in Files /\ F[g] # G[g] /\ Includes(g) \subseteq E
  BY <1>2 DEF Ended
<1>4. \A h \in Includes(g) : F[h] = G[h]
  BY <1>2, <1>3
<1>5. CASE n \in sets[g]
  BY <1>3, <1>5 DEF Solves
<1>6. CASE n \notin sets[g]
  <2>1. LastTo(F, g, Len(graph[g]), F[g]) /\ LastTo(G, g, Len(graph[g]), G[g])
    BY <1>3, <1>6 DEF Solves
  <2>2. /\ \A i \in 1 .. Len(graph[g]) : F[graph[g][i]] = G[graph[g][i]]
        /\ Len(graph[g]) \in Int
    BY <1>3, <1>4, IncludeAt
  <2>3. F[g] = G[g]
    BY <2>1, <2>2, LastOne
  <2> QED
    BY <1>3, <2>3
<1> QED
  BY <1>5, <1>6

\* A file gives what a file that sets the name does, or nothing.
LEMMA SolveFrom ==
    ASSUME StoreOK, NEW D, Ended(D), NEW n, NEW F, Solves(F, D, n),
           NEW E \in SUBSET D, \A g \in E : Includes(g) \subseteq E
    PROVE  \A g \in E : F[g] \in {h \in E : n \in sets[h]} \cup {NoFile}
<1> DEFINE From == {h \in E : n \in sets[h]} \cup {NoFile}
           S == {g \in E : F[g] \notin From}
<1> SUFFICES ASSUME S # {}
             PROVE  FALSE
  OBVIOUS
<1>1. S \in SUBSET D
  OBVIOUS
<1>2. PICK g \in S : Includes(g) \cap S = {}
  <2> HIDE DEF S
  <2> QED
    BY <1>1 DEF Ended
<1>3. g \in E /\ g \in D /\ g \in Files /\ F[g] \notin From /\ Includes(g) \subseteq E
  BY <1>2 DEF Ended
<1>4. \A h \in Includes(g) : F[h] \in From
  BY <1>2, <1>3
<1>5. n \notin sets[g]
  BY <1>3 DEF Solves
<1>6. LastTo(F, g, Len(graph[g]), F[g]) /\ F[g] # NoFile
  BY <1>3, <1>5 DEF Solves
<1>7. PICK i \in 1 .. Len(graph[g]) : F[g] = F[graph[g][i]]
  BY <1>6 DEF LastTo
<1>8. graph[g][i] \in Includes(g)
  BY <1>3, IncludeAt
<1> QED
  BY <1>3, <1>4, <1>7, <1>8

\* The layers look at all the includes.
LEMMA GivenLast ==
    ASSUME StoreOK, NEW g \in Files, NEW F, NEW x
    PROVE  LastGiven(F, g, x) <=> LastTo(F, g, Len(graph[g]), x)
BY IncludeAt DEF LastGiven, LastTo

\* Giver is what the files that were read have.
LEMMA GiverIs ==
    ASSUME StoreOK, NEW D, Ended(D), Root \in D, NEW n, NEW F, Solves(F, D, n)
    PROVE  Giver(Root, n) = F[Root]
<1> DEFINE R == Reached(Root)
           From == {h \in R : n \in sets[h]} \cup {NoFile}
           H == [g \in R |-> F[g]]
<1>1. D \in SUBSET Files /\ Shut(D, Root)
  BY DEF Ended, Shut
<1>2. R \in SUBSET D /\ Root \in R
  BY <1>1, BelowWithin DEF Reached
<1>3. \A g \in R : Includes(g) \subseteq R
  BY BelowHas DEF Shut, Reached
<1>4. R \subseteq Files
  BY <1>1, <1>2
<1>5. \A g \in R : F[g] \in From
  <2> HIDE DEF R
  <2> QED
    BY <1>2, <1>3, SolveFrom
<1>6. ASSUME NEW g \in R
      PROVE  IF n \in sets[g] THEN H[g] = g ELSE LastGiven(H, g, H[g])
  <2>1. CASE n \in sets[g]
    BY <1>2, <2>1 DEF Solves
  <2>2. CASE n \notin sets[g]
    <3>1. LastTo(F, g, Len(graph[g]), F[g])
      BY <1>2, <2>2 DEF Solves
    <3>2. \A i \in 1 .. Len(graph[g]) : graph[g][i] \in R
      BY <1>3, <1>4, IncludeAt
    <3>3. \A i \in 1 .. Len(graph[g]) : H[graph[g][i]] = F[graph[g][i]]
      BY <3>2
    <3>4. H[g] = F[g]
      OBVIOUS
    <3> HIDE DEF H
    <3>5. LastTo(H, g, Len(graph[g]), H[g])
      BY <3>1, <3>3, <3>4 DEF LastTo
    <3> QED
      BY <1>4, <2>2, <3>5, GivenLast
  <2> QED
    BY <2>1, <2>2
<1>7. H \in Gives(Root, n)
  <2>1. H \in [R -> From]
    BY <1>5
  <2> HIDE DEF H
  <2> QED
    BY <1>6, <2>1 DEF Gives
<1> DEFINE G == CHOOSE K \in Gives(Root, n) : TRUE
<1>8. G \in Gives(Root, n)
  BY <1>7
<1> HIDE DEF G
<1>9. Solves(G, R, n)
  <2>1. G \in [R -> From] /\ \A g \in R : IF n \in sets[g] THEN G[g] = g
                                          ELSE LastGiven(G, g, G[g])
    BY <1>8 DEF Gives
  <2>2. G \in [R -> Files \cup {NoFile}]
    BY <1>4, <2>1
  <2>3. \A g \in R : LastGiven(G, g, G[g]) <=> LastTo(G, g, Len(graph[g]), G[g])
    BY <1>4, GivenLast
  <2> HIDE DEF R
  <2> QED
    BY <2>1, <2>2, <2>3 DEF Solves
<1>10. F[Root] = G[Root]
  <2> HIDE DEF R
  <2> QED
    BY <1>2, <1>3, <1>9, SolveOne
<1> QED
  BY <1>10 DEF Giver, G

-----------------------------------------------------------------------------
(* What the steps of read_file do to what is given. *)

\* The files stay as they are while they are read.
LEMMA ToldNext ==
    ASSUME graph' = graph, sets' = sets, command' = command,
           NEW D \in SUBSET Files, ToldBy(D, stack', files', value')
    PROVE  Told'
<1>1. Ended(D)'
  <2>1. \A g : Includes(g)' = Includes(g)
    BY DEF Includes
  <2> QED
    BY <2>1 DEF ToldBy, Ended
<1>2. ReadIn(D, stack)'
  BY DEF ToldBy, ReadIn, Behind
<1>3. ASSUME NEW n \in Names \ command
      PROVE  NameTold(D, stack, files, n, value[n].from)'
  <2>1. NameTold(D, stack', files', n, value'[n].from)
    BY DEF ToldBy
  <2>2. PICK F \in [D -> Files \cup {NoFile}] :
           /\ Solves(F, D, n)
           /\ IF stack' = <<>> /\ files' > 0 THEN value'[n].from = F[Root]
              ELSE GivenIs(F, stack', n, value'[n].from)
    BY <2>1 DEF NameTold
  <2>3. Solves(F, D, n)'
    BY <2>2 DEF Solves, LastTo
  <2>4. GivenIs(F, stack', n, value'[n].from) => GivenIs(F, stack, n, value[n].from)'
    <3>1. \A g, c, y : LastTo(F, g, c, y)' <=> LastTo(F, g, c, y)
      BY DEF LastTo
    <3>2. \A k : Behind(stack, k)' = Behind(stack', k)
      BY DEF Behind
    <3>3. \A k, y : PartIs(F, stack', k, n, y) <=> PartIs(F, stack, k, n, y)'
      BY <3>1, <3>2 DEF PartIs
    <3> QED
      BY <3>3 DEF GivenIs
  <2> QED
    BY <2>2, <2>3, <2>4 DEF NameTold
<1>4. ToldBy(D, stack, files, value)'
  BY <1>1, <1>2, <1>3 DEF ToldBy
<1> QED
  BY <1>4 DEF Told

\* Nothing is read.
LEMMA ToldSame ==
    ASSUME Told, UNCHANGED <<graph, sets, command, stack, files>>,
           \A n \in Names \ command : value'[n].from = value[n].from
    PROVE  Told'
<1>1. PICK D \in SUBSET Files : ToldBy(D, stack, files, value)
  BY DEF Told
<1>2. ToldBy(D, stack', files', value')
  BY <1>1 DEF ToldBy
<1> QED
  BY <1>2, ToldNext

\* Two frames that have given the same.
Alike(st, k, su, l) ==
    /\ su[l].file = st[k].file /\ su[l].todo = st[k].todo
    /\ Behind(su, l) = Behind(st, k)

\* Frames that are alike have given the same.
LEMMA PartSame ==
    ASSUME NEW F, NEW st, NEW su, NEW k, NEW l, Alike(st, k, su, l), NEW n, NEW x
    PROVE  PartIs(F, su, l, n, x) <=> PartIs(F, st, k, n, x)
BY DEF PartIs, Alike

\* A file that was opened has given nothing.
LEMMA OpenNothing ==
    ASSUME NEW F, NEW su, NEW k, su[k].todo = sets[su[k].file], Behind(su, k) = 0, NEW n
    PROVE  PartIs(F, su, k, n, NoFile)
BY DEF PartIs, LastTo

\* A file is opened.
LEMMA ToldOpen ==
    ASSUME NEW D, NEW st, NEW fs, NEW val, ToldBy(D, st, fs, val), st = <<>> => ~(fs > 0),
           Len(st) \in Nat, NEW su, NEW top, top = Len(st) + 1, Len(su) = top,
           \A k \in 1 .. Len(st) : Alike(st, k, su, k),
           su[top].todo = sets[su[top].file], Behind(su, top) = 0, su # <<>>, NEW fu
    PROVE  ToldBy(D, su, fu, val)
<1>1. \A k \in 1 .. Len(su) : k = top \/ k \in 1 .. Len(st)
  OBVIOUS
<1>2. ReadIn(D, su)
  <2> SUFFICES ASSUME NEW k \in 1 .. Len(su), NEW i \in 1 .. Behind(su, k)
               PROVE  graph[su[k].file][i] \in D
    BY DEF ReadIn
  <2>1. CASE k = top
    BY <2>1
  <2>2. CASE k \in 1 .. Len(st)
    BY <2>2 DEF ToldBy, ReadIn, Alike
  <2> QED
    BY <1>1, <2>1, <2>2
<1>3. ASSUME NEW n \in Names \ command
      PROVE  NameTold(D, su, fu, n, val[n].from)
  <2> DEFINE x == val[n].from
  <2>1. PICK F \in [D -> Files \cup {NoFile}] : Solves(F, D, n) /\ GivenIs(F, st, n, x)
    <3>1. NameTold(D, st, fs, n, x)
      BY DEF ToldBy
    <3> QED
      BY <3>1 DEF NameTold
  <2>2. \A k \in 1 .. Len(st), y \in {x, NoFile} :
           PartIs(F, st, k, n, y) => PartIs(F, su, k, n, y)
    BY PartSame
  <2>3. PartIs(F, su, top, n, NoFile)
    BY OpenNothing
  <2>4. CASE x = NoFile /\ \A k \in 1 .. Len(st) : PartIs(F, st, k, n, NoFile)
    <3>1. \A k \in 1 .. Len(su) : PartIs(F, su, k, n, NoFile)
      BY <1>1, <2>2, <2>3, <2>4
    <3> QED
      BY <2>1, <2>4, <3>1 DEF NameTold, GivenIs
  <2>5. ASSUME NEW k \in 1 .. Len(st), x # NoFile, PartIs(F, st, k, n, x),
               \A j \in 1 .. Len(st) : j > k => PartIs(F, st, j, n, NoFile)
        PROVE  NameTold(D, su, fu, n, x)
    <3>1. k \in 1 .. Len(su) /\ PartIs(F, su, k, n, x)
      BY <2>2, <2>5
    <3>2. \A j \in 1 .. Len(su) : j > k => PartIs(F, su, j, n, NoFile)
      BY <1>1, <2>2, <2>3, <2>5
    <3>3. GivenIs(F, su, n, x)
      BY <2>5, <3>1, <3>2 DEF GivenIs
    <3> QED
      BY <2>1, <3>3 DEF NameTold
  <2> QED
    BY <2>1, <2>4, <2>5 DEF GivenIs
<1> QED
  BY <1>2, <1>3 DEF ToldBy

\* A file strikes key m from those that it has to set, and gives it its value.
Struck(st, su, top, m) ==
    /\ top = Len(st) /\ top \in Nat /\ top > 0 /\ Len(su) = top
    /\ st # <<>> /\ su # <<>> /\ st[top].file \in Files
    /\ \A k \in 1 .. top : su[k].file = st[k].file /\ Behind(su, k) = Behind(st, k)
    /\ \A k \in 1 .. top : k # top => su[k].todo = st[k].todo
    /\ m \in sets[st[top].file] /\ su[top].todo = st[top].todo \ {m}
Valued(val, vu, m, g) ==
    /\ m \notin command => vu[m].from = g
    /\ \A n \in Names \ command : n # m => vu[n].from = val[n].from

\* A file sets a key.
LEMMA ToldKey ==
    ASSUME NEW D, NEW st, NEW fs, NEW val, ToldBy(D, st, fs, val), NEW su, NEW top, NEW m,
           Struck(st, su, top, m), NEW vu, Valued(val, vu, m, st[top].file)
    PROVE  ToldBy(D, su, fs, vu)
<1> USE DEF Struck, Valued
<1>1. ReadIn(D, su)
  BY DEF ToldBy, ReadIn
<1>2. ASSUME NEW n \in Names \ command
      PROVE  NameTold(D, su, fs, n, vu[n].from)
  <2> DEFINE x == val[n].from
  <2>1. PICK F \in [D -> Files \cup {NoFile}] : Solves(F, D, n) /\ GivenIs(F, st, n, x)
    <3>1. NameTold(D, st, fs, n, x)
      BY DEF ToldBy
    <3> QED
      BY <3>1 DEF NameTold
  <2>2. CASE n = m
    <3>1. vu[n].from = su[top].file /\ su[top].file # NoFile /\ top \in 1 .. Len(su)
      BY <2>2
    <3>2. PartIs(F, su, top, n, su[top].file)
      <4>1. n \in sets[su[top].file] \ su[top].todo
        BY <2>2
      <4> QED
        BY <4>1 DEF PartIs
    <3>3. \A j \in 1 .. Len(su) : ~(j > top)
      OBVIOUS
    <3>4. GivenIs(F, su, n, vu[n].from)
      BY <3>1, <3>2, <3>3 DEF GivenIs
    <3> QED
      BY <2>1, <3>4 DEF NameTold
  <2>3. CASE n # m
    <3>1. \A k \in 1 .. top, y \in {x, NoFile} :
             PartIs(F, st, k, n, y) <=> PartIs(F, su, k, n, y)
      <4> SUFFICES ASSUME NEW k \in 1 .. top, NEW y \in {x, NoFile}
                   PROVE  PartIs(F, st, k, n, y) <=> PartIs(F, su, k, n, y)
        OBVIOUS
      <4>1. n \in su[k].todo <=> n \in st[k].todo
        BY <2>3
      <4>2. su[k].file = st[k].file /\ Behind(su, k) = Behind(st, k)
        OBVIOUS
      <4> QED
        BY <4>1, <4>2 DEF PartIs
    <3>2. GivenIs(F, su, n, x)
      BY <2>1, <3>1 DEF GivenIs
    <3>3. vu[n].from = x
      BY <2>3
    <3> QED
      BY <2>1, <3>2, <3>3 DEF NameTold
  <2> QED
    BY <2>2, <2>3
<1> QED
  BY <1>1, <1>2 DEF ToldBy

\* What is given depends on what the includes give alone.
LEMMA LastSame ==
    ASSUME NEW F, NEW G, NEW g, NEW c, \A i \in 1 .. c : F[graph[g][i]] = G[graph[g][i]],
           NEW x
    PROVE  LastTo(F, g, c, x) <=> LastTo(G, g, c, x)
BY DEF LastTo

\* One more include that gives nothing, and one that gives something.
LEMMA LastMore ==
    ASSUME NEW F, NEW g, NEW c \in Nat, NEW d, d = c + 1
    PROVE  /\ F[graph[g][d]] = NoFile => \A x : LastTo(F, g, c, x) => LastTo(F, g, d, x)
           /\ F[graph[g][d]] # NoFile => LastTo(F, g, d, F[graph[g][d]])
<1>1. \A i : i \in 1 .. d <=> i \in 1 .. c \/ i = d
  OBVIOUS
<1>2. F[graph[g][d]] # NoFile => LastTo(F, g, d, F[graph[g][d]])
  <2>1. d \in 1 .. d /\ \A j \in 1 .. d : ~(j > d)
    OBVIOUS
  <2> QED
    BY <2>1 DEF LastTo
<1>3. ASSUME F[graph[g][d]] = NoFile, NEW x, LastTo(F, g, c, x)
      PROVE  LastTo(F, g, d, x)
  <2>1. CASE x = NoFile /\ \A i \in 1 .. c : F[graph[g][i]] = NoFile
    BY <1>1, <1>3, <2>1 DEF LastTo
  <2>2. ASSUME NEW i \in 1 .. c, x = F[graph[g][i]], x # NoFile,
               \A j \in 1 .. c : j > i => F[graph[g][j]] = NoFile
        PROVE  LastTo(F, g, d, x)
    <3>1. i \in 1 .. d /\ \A j \in 1 .. d : j > i => F[graph[g][j]] = NoFile
      BY <1>1, <1>3, <2>2
    <3> QED
      BY <2>2, <3>1 DEF LastTo
  <2> QED
    BY <1>3, <2>1, <2>2 DEF LastTo
<1> QED
  BY <1>2, <1>3

\* A file that was read to its end joins those that were.
LEMMA EndedMore ==
    ASSUME NEW D, Ended(D), NEW g \in Files, Includes(g) \subseteq D
    PROVE  Ended(D \cup {g})
<1> DEFINE E == D \cup {g}
<1>1. CASE g \in D
  <2>1. E = D
    BY <1>1
  <2> QED
    BY <2>1
<1>2. CASE g \notin D
  <2>1. E \subseteq Files /\ \A h \in E : Includes(h) \subseteq E
    BY DEF Ended
  <2>2. ASSUME NEW S \in SUBSET E, S # {}
        PROVE  \E h \in S : Includes(h) \cap S = {}
    <3>1. CASE S \cap D = {}
      <4>1. g \in S /\ Includes(g) \cap S = {}
        BY <2>2, <3>1
      <4> QED
        BY <4>1
    <3>2. CASE S \cap D # {}
      <4> DEFINE T == S \cap D
      <4>1. T \in SUBSET D /\ T # {}
        BY <3>2
      <4>2. PICK h \in T : Includes(h) \cap T = {}
        <5> HIDE DEF T
        <5> QED
          BY <4>1 DEF Ended
      <4>3. Includes(h) \subseteq D
        BY <4>2 DEF Ended
      <4>4. h \in S /\ Includes(h) \cap S = {}
        BY <4>2, <4>3
      <4> QED
        BY <4>4
    <3> QED
      BY <3>1, <3>2
  <2> HIDE DEF E
  <2>3. Ended(E)
    BY <2>1, <2>2 DEF Ended
  <2> QED
    BY <2>3 DEF E
<1> QED
  BY <1>1, <1>2

\* What is given by a file that was read to its end.
FileGives(F, g, n, y) ==
    IF n \in sets[g] THEN y = g ELSE LastTo(F, g, Len(graph[g]), y)

\* G is F with the file g as well.
Agree(F, G, D) == \A h \in D : G[h] = F[h]
Extends(G, F, D, g, n, y) ==
    Solves(G, D \cup {g}, n) /\ G[g] = y /\ Agree(F, G, D)

\* What the files give is told with one more that was read to its end.
LEMMA SolveMore ==
    ASSUME StoreOK, NEW D \in SUBSET Files, Ended(D), NEW g \in Files,
           Includes(g) \subseteq D, NEW n, NEW F, Solves(F, D, n), NEW y,
           FileGives(F, g, n, y)
    PROVE  \E G : Extends(G, F, D, g, n, y)
<1> USE DEF FileGives
<1> DEFINE E == D \cup {g}
           G == [h \in E |-> IF h \in D THEN F[h] ELSE y]
<1>1. \A i \in 1 .. Len(graph[g]) : graph[g][i] \in D
  BY IncludeAt
<1>2. F \in [D -> Files \cup {NoFile}]
  BY DEF Solves
<1>3. y \in Files \cup {NoFile}
  <2>1. CASE n \in sets[g]
    BY <2>1
  <2>2. CASE n \notin sets[g]
    BY <1>1, <1>2, <2>2 DEF LastTo
  <2> QED
    BY <2>1, <2>2
<1>4. G \in [E -> Files \cup {NoFile}] /\ \A h \in D : G[h] = F[h]
  BY <1>2, <1>3
<1>5. G[g] = y
  <2>1. CASE g \in D
    <3>1. CASE n \in sets[g]
      BY <2>1, <3>1 DEF Solves
    <3>2. CASE n \notin sets[g]
      <4>1. LastTo(F, g, Len(graph[g]), y) /\ LastTo(F, g, Len(graph[g]), F[g])
        BY <2>1, <3>2 DEF Solves
      <4>2. Len(graph[g]) \in Int
        BY IncludeAt
      <4>3. y = F[g]
        BY <4>1, <4>2, LastOne
      <4> QED
        BY <1>4, <2>1, <4>3
    <3> QED
      BY <3>1, <3>2
  <2>2. CASE g \notin D
    BY <2>2
  <2> QED
    BY <2>1, <2>2
<1> HIDE DEF G
<1>6. ASSUME NEW h \in E
      PROVE  IF n \in sets[h] THEN G[h] = h ELSE LastTo(G, h, Len(graph[h]), G[h])
  <2>1. \A i \in 1 .. Len(graph[h]) : graph[h][i] \in D
    <3>1. h \in Files /\ Includes(h) \subseteq D
      BY DEF Ended
    <3> QED
      BY <3>1, IncludeAt
  <2>2. \A i \in 1 .. Len(graph[h]) : F[graph[h][i]] = G[graph[h][i]]
    BY <1>4, <2>1
  <2>3. \A x : LastTo(F, h, Len(graph[h]), x) <=> LastTo(G, h, Len(graph[h]), x)
    BY <2>2, LastSame
  <2>4. CASE h = g
    BY <1>5, <2>3, <2>4
  <2>5. CASE h \in D
    BY <1>4, <2>3, <2>5 DEF Solves
  <2> QED
    BY <2>4, <2>5
<1>7. Solves(G, E, n)
  <2> HIDE DEF E
  <2> QED
    BY <1>4, <1>6 DEF Solves
<1> QED
  BY <1>4, <1>5, <1>7 DEF Extends, Agree

\* Frame p, which is in its includes, has the include h behind it.
Moved(st, su, p, h) ==
    /\ su[p].file = st[p].file
    /\ su[p].todo = st[p].todo /\ st[p].todo = sets[st[p].file]
    /\ Behind(st, p) \in Nat /\ Behind(su, p) = Behind(st, p) + 1
    /\ h = graph[st[p].file][Behind(st, p) + 1]

\* What frame p has given, once an include that gave y is behind it.
Passed(F, G, st, su, p, n, y) ==
    /\ y = NoFile => \A x : PartIs(F, st, p, n, x) => PartIs(G, su, p, n, x)
    /\ y # NoFile => PartIs(G, su, p, n, y)

\* The frame gives what the include did, or what it gave before.
LEMMA PartMore ==
    ASSUME NEW D, NEW st, NEW p, NEW F, NEW G, Agree(F, G, D),
           \A i \in 1 .. Behind(st, p) : graph[st[p].file][i] \in D,
           NEW su, NEW h, Moved(st, su, p, h), NEW n
    PROVE  Passed(F, G, st, su, p, n, G[h])
<1> USE DEF Moved, Agree
<1> DEFINE g == st[p].file
           c == Behind(st, p)
           d == c + 1
<1>1. /\ \A x : PartIs(F, st, p, n, x) <=> LastTo(F, g, c, x)
      /\ \A x : PartIs(G, su, p, n, x) <=> LastTo(G, g, d, x)
  BY DEF PartIs
<1>2. c \in Nat /\ d = c + 1 /\ h = graph[g][d]
  OBVIOUS
<1>3. \A i \in 1 .. c : F[graph[g][i]] = G[graph[g][i]]
  OBVIOUS
<1> HIDE DEF g, c, d
<1>4. \A x : LastTo(F, g, c, x) => LastTo(G, g, c, x)
  BY <1>3, LastSame
<1>5. /\ G[graph[g][d]] = NoFile => \A x : LastTo(G, g, c, x) => LastTo(G, g, d, x)
      /\ G[graph[g][d]] # NoFile => LastTo(G, g, d, G[graph[g][d]])
  BY <1>2, LastMore
<1> QED
  BY <1>1, <1>2, <1>4, <1>5 DEF Passed

\* What the open files have given, when the innermost ends.
Under(st, su, top, p) ==
    top \in Nat /\ top > 1 /\ Len(st) = top /\ p = top - 1 /\ Len(su) = p

\* Frame k has given what it had.
Carried(F, G, st, su, k, n) ==
    \A x : PartIs(F, st, k, n, x) => PartIs(G, su, k, n, x)

\* The open files give together what they gave before the innermost ended.
LEMMA GivenLess ==
    ASSUME NEW st, NEW su, NEW top, NEW p, Under(st, su, top, p),
           NEW F, NEW G, NEW n, NEW x, NEW y,
           GivenIs(F, st, n, x), \A w : PartIs(F, st, top, n, w) => w = y,
           \A k \in 1 .. p : k # p => Carried(F, G, st, su, k, n),
           Passed(F, G, st, su, p, n, y)
    PROVE  GivenIs(G, su, n, x)
<1>1. /\ Len(su) = p /\ p \in 1 .. p /\ top \in 1 .. top
      /\ \A k : k \in 1 .. top <=> k \in 1 .. p \/ k = top
      /\ \A k \in 1 .. p : k # p => p > k
      /\ \A k \in 1 .. p : ~(k > p) /\ top > k
  BY DEF Under
<1> USE DEF Under, Passed, Carried
<1>2. CASE x = NoFile /\ \A k \in 1 .. top : PartIs(F, st, k, n, NoFile)
  <2>1. y = NoFile
    BY <1>1, <1>2
  <2>2. \A k \in 1 .. p : PartIs(G, su, k, n, NoFile)
    BY <1>1, <1>2, <2>1
  <2> QED
    BY <1>1, <1>2, <2>2 DEF GivenIs
<1>3. ASSUME NEW k \in 1 .. top, x # NoFile, PartIs(F, st, k, n, x),
             \A j \in 1 .. top : j > k => PartIs(F, st, j, n, NoFile)
      PROVE  GivenIs(G, su, n, x)
  <2>1. CASE k = top
    <3>1. y = x
      BY <1>3, <2>1
    <3>2. PartIs(G, su, p, n, x)
      BY <1>3, <3>1
    <3> QED
      BY <1>1, <1>3, <3>2 DEF GivenIs
  <2>2. CASE k \in 1 .. p
    <3>1. y = NoFile
      BY <1>1, <1>3, <2>2
    <3>2. PartIs(G, su, k, n, x)
      BY <1>3, <2>2, <3>1
    <3>3. \A j \in 1 .. p : j > k => PartIs(G, su, j, n, NoFile)
      BY <1>1, <1>3, <3>1
    <3> QED
      BY <1>1, <1>3, <2>2, <3>2, <3>3 DEF GivenIs
  <2> QED
    BY <1>1, <2>1, <2>2
<1> QED
  BY <1>2, <1>3 DEF GivenIs

\* The innermost file g has no more includes and keys.
AtEnd(st, top, g) ==
    /\ Len(st) = top /\ top \in Nat /\ top > 0 /\ g \in Files
    /\ st[top].file = g /\ st[top].todo = {} /\ Behind(st, top) = Len(graph[g])

\* What it gave is one, and it is what a file gives that was read to its end.
LEMMA PartEnds ==
    ASSUME StoreOK, NEW st, NEW top, NEW g, AtEnd(st, top, g), NEW F, NEW n, NEW y,
           PartIs(F, st, top, n, y)
    PROVE  /\ FileGives(F, g, n, y)
           /\ \A w : PartIs(F, st, top, n, w) => w = y
<1>1. \A w : PartIs(F, st, top, n, w) <=>
         FileGives(F, g, n, w)
  BY DEF AtEnd, PartIs, FileGives
<1>2. Len(graph[g]) \in Int
  BY IncludeAt DEF AtEnd
<1>3. ASSUME NEW w, LastTo(F, g, Len(graph[g]), w), LastTo(F, g, Len(graph[g]), y)
      PROVE  w = y
  BY <1>2, <1>3, LastOne
<1> QED
  BY <1>1, <1>3 DEF FileGives

\* The innermost of the open files gave what they gave together, or nothing.
LEMMA GivenTop ==
    ASSUME NEW F, NEW st, NEW top, top = Len(st), top \in Nat, top > 0, NEW n, NEW x,
           GivenIs(F, st, n, x)
    PROVE  \E y \in {x, NoFile} : PartIs(F, st, top, n, y)
<1>1. CASE x = NoFile /\ \A k \in 1 .. Len(st) : PartIs(F, st, k, n, NoFile)
  BY <1>1
<1>2. ASSUME NEW k \in 1 .. Len(st), PartIs(F, st, k, n, x),
             \A j \in 1 .. Len(st) : j > k => PartIs(F, st, j, n, NoFile)
      PROVE  PartIs(F, st, top, n, x) \/ PartIs(F, st, top, n, NoFile)
  BY <1>2
<1> QED
  BY <1>1, <1>2 DEF GivenIs


\* The files su that are open once the innermost of st has ended, and the file below it
\* has that include behind it.
Closed(st, su, top, p, g) ==
    /\ p = top - 1 /\ Len(su) = p
    /\ \A k \in 1 .. p : k # p => Alike(st, k, su, k)
    /\ p > 0 => Moved(st, su, p, g)

\* What was given is given still, by the file that ended as a whole.
EndsWith(G, D, su, p, g, n, x) ==
    /\ Solves(G, D \cup {g}, n)
    /\ p = 0 => x = G[g]
    /\ p > 0 => GivenIs(G, su, n, x)

\* The file that ends gives as a whole what it gave as the innermost.
LEMMA EndGiven ==
    ASSUME StoreOK, NEW D \in SUBSET Files, Ended(D), NEW st, ReadIn(D, st), NEW top,
           NEW g, AtEnd(st, top, g), Includes(g) \subseteq D, NEW su, NEW p,
           Closed(st, su, top, p, g), NEW n, NEW F, Solves(F, D, n), NEW x,
           GivenIs(F, st, n, x)
    PROVE  \E G : EndsWith(G, D, su, p, g, n, x)
<1>1. top \in Nat /\ top > 0 /\ top = Len(st) /\ g \in Files
  BY DEF AtEnd
<1>2. PICK y \in {x, NoFile} : PartIs(F, st, top, n, y)
  BY <1>1, GivenTop
<1>3. /\ FileGives(F, g, n, y)
      /\ \A w : PartIs(F, st, top, n, w) => w = y
  BY <1>2, PartEnds
<1>a. PICK G : Extends(G, F, D, g, n, y)
  BY <1>1, <1>3, SolveMore
<1>4. Solves(G, D \cup {g}, n) /\ G[g] = y /\ Agree(F, G, D)
  BY <1>a DEF Extends
<1>5. ASSUME p = 0
      PROVE  x = G[g]
  <2>1. top = 1
    BY <1>1, <1>5 DEF Closed
  <2>2. PartIs(F, st, top, n, x)
    BY <1>1, <2>1 DEF GivenIs
  <2> QED
    BY <1>3, <1>4, <2>2
<1>6. ASSUME p > 0
      PROVE  GivenIs(G, su, n, x)
  <2>1. p = top - 1 /\ top > 1 /\ Len(su) = top - 1 /\ p \in 1 .. Len(st)
    BY <1>1, <1>6 DEF Closed
  <2>2. Passed(F, G, st, su, p, n, y)
    <3>1. \A i \in 1 .. Behind(st, p) : graph[st[p].file][i] \in D
      BY <2>1 DEF ReadIn
    <3>2. Moved(st, su, p, g)
      BY <1>6 DEF Closed
    <3>3. Passed(F, G, st, su, p, n, G[g])
      BY <1>4, <3>1, <3>2, PartMore
    <3> QED
      BY <1>4, <3>3
  <2>3. ASSUME NEW k \in 1 .. p, k # p
        PROVE  Carried(F, G, st, su, k, n)
    <3> SUFFICES ASSUME NEW w, PartIs(F, st, k, n, w)
                 PROVE  PartIs(G, su, k, n, w)
      BY DEF Carried
    <3>1. Alike(st, k, su, k)
      BY <2>3 DEF Closed
    <3>2. PartIs(F, su, k, n, w)
      BY <2>3, <3>1, PartSame
    <3>3. \A i \in 1 .. Behind(st, k) : graph[st[k].file][i] \in D
      BY <2>1 DEF ReadIn
    <3>4. \A i \in 1 .. Behind(su, k) : F[graph[su[k].file][i]] = G[graph[su[k].file][i]]
      BY <1>4, <3>1, <3>3 DEF Alike, Agree
    <3>5. LastTo(F, su[k].file, Behind(su, k), w)
             <=> LastTo(G, su[k].file, Behind(su, k), w)
      BY <3>4, LastSame
    <3> QED
      BY <3>2, <3>5 DEF PartIs
  <2>4. Under(st, su, top, p)
    BY <1>1, <2>1 DEF Under
  <2> QED
    BY <1>3, <2>2, <2>3, <2>4, GivenLess
<1> QED
  BY <1>4, <1>5, <1>6 DEF EndsWith

\* A file ends.
LEMMA ToldEnd ==
    ASSUME StoreOK, NEW D \in SUBSET Files, NEW st, NEW fs, NEW val,
           ToldBy(D, st, fs, val), NEW top, NEW g, AtEnd(st, top, g),
           NEW su, NEW p, Closed(st, su, top, p, g), st # <<>>, su = <<>> <=> p = 0, p = 0 => g = Root /\ fs > 0
    PROVE  ToldBy(D \cup {g}, su, fs, val)
<1> DEFINE E == D \cup {g}
<1>1. Ended(D) /\ ReadIn(D, st)
  BY DEF ToldBy
<1>2. /\ top \in Nat /\ top > 0 /\ top = Len(st) /\ top \in 1 .. Len(st)
      /\ g \in Files /\ p \in Nat /\ Len(su) = p /\ p = top - 1
  BY DEF AtEnd, Closed
<1>3. Includes(g) \subseteq D
  <2>1. \A i \in 1 .. Len(graph[g]) : graph[g][i] \in D
    BY <1>1, <1>2 DEF ReadIn, AtEnd
  <2> QED
    BY <1>2, <2>1, IncludeAt DEF Includes
<1>4. Ended(E)
  BY <1>1, <1>2, <1>3, EndedMore
<1>5. ReadIn(E, su)
  <2> SUFFICES ASSUME NEW k \in 1 .. Len(su), NEW i \in 1 .. Behind(su, k)
               PROVE  graph[su[k].file][i] \in E
    BY DEF ReadIn
  <2>1. k \in 1 .. Len(st) /\ k \in 1 .. p /\ p \in Nat
    BY <1>2
  <2>2. CASE k # p
    BY <1>1, <2>1, <2>2 DEF ReadIn, Closed, Alike
  <2>3. CASE k = p
    <3>1. /\ su[p].file = st[p].file /\ Behind(st, p) \in Nat
          /\ Behind(su, p) = Behind(st, p) + 1
          /\ g = graph[st[p].file][Behind(st, p) + 1]
      BY <2>1 DEF Closed, Moved
    <3>2. i \in 1 .. Behind(st, p) \/ i = Behind(st, p) + 1
      BY <2>3, <3>1
    <3>3. i \in 1 .. Behind(st, p) => graph[st[p].file][i] \in D
      BY <1>1, <2>1, <2>3 DEF ReadIn
    <3> QED
      BY <2>3, <3>1, <3>2, <3>3
  <2> QED
    BY <2>2, <2>3
<1>6. ASSUME NEW n \in Names \ command
      PROVE  NameTold(E, su, fs, n, val[n].from)
  <2>1. PICK F \in [D -> Files \cup {NoFile}] :
           Solves(F, D, n) /\ GivenIs(F, st, n, val[n].from)
    <3>1. NameTold(D, st, fs, n, val[n].from)
      BY DEF ToldBy
    <3> QED
      BY <3>1 DEF NameTold
  <2>2. PICK G : EndsWith(G, D, su, p, g, n, val[n].from)
    BY <1>1, <1>3, <2>1, EndGiven
  <2>3. /\ Solves(G, E, n) /\ G \in [E -> Files \cup {NoFile}]
        /\ p = 0 => val[n].from = G[g]
        /\ p > 0 => GivenIs(G, su, n, val[n].from)
    BY <2>2 DEF EndsWith, Solves
  <2> HIDE DEF E
  <2>4. IF su = <<>> /\ fs > 0 THEN val[n].from = G[Root]
        ELSE GivenIs(G, su, n, val[n].from)
    <3>1. CASE p = 0
      BY <2>3, <3>1
    <3>2. CASE p > 0
      BY <2>3, <3>2
    <3> QED
      BY <1>2, <3>1, <3>2
  <2> QED
    BY <2>3, <2>4 DEF NameTold
<1>7. su = <<>> => Root \in E
  OBVIOUS
<1> HIDE DEF E
<1>8. ToldBy(E, su, fs, val)
  BY <1>4, <1>5, <1>6, <1>7 DEF ToldBy
<1> QED
  BY <1>8 DEF E

-----------------------------------------------------------------------------
(* The steps of the start. *)

LEMMA LayerInit == StartInit => LayerInv
<1> SUFFICES ASSUME StartInit PROVE LayerInv
  OBVIOUS
<1> USE DEF StartInit
<1>1. Len(stack) = 0 /\ stack = <<>> /\ files = 0
  OBVIOUS
<1>2. ChainOK /\ FlowOK
  BY <1>1 DEF ChainOK, FlowOK, Unset
<1> DEFINE D == {}
<1>a. D \in SUBSET Files /\ \A g \in D : FALSE
  OBVIOUS
<1> HIDE DEF D
<1>3. ASSUME NEW n \in Names
      PROVE  NameTold(D, stack, files, n, value[n].from)
  <2> DEFINE F == [g \in D |-> NoFile]
  <2>1. F \in [D -> Files \cup {NoFile}]
    BY <1>a
  <2> HIDE DEF F
  <2>2. Solves(F, D, n)
    BY <1>a, <2>1 DEF Solves
  <2>3. value[n].from = NoFile
    BY DEF Unset
  <2>4. GivenIs(F, stack, n, value[n].from)
    BY <1>1, <2>3 DEF GivenIs
  <2> QED
    BY <1>1, <2>1, <2>2, <2>4 DEF NameTold
<1>4. Ended(D)
  BY <1>a DEF Ended
<1>5. ReadIn(D, stack)
  BY <1>1 DEF ReadIn
<1>6. ToldBy(D, stack, files, value)
  BY <1>1, <1>3, <1>4, <1>5 DEF ToldBy
<1> QED
  BY <1>2, <1>a, <1>6 DEF LayerInv, Told

\* The includes are as they were.
LEMMA BelowSame ==
    ASSUME graph' = graph
    PROVE  /\ \A f : Below(f)' = Below(f)
           /\ Looped' <=> Looped
<1>1. \A f : Below(f)' = Below(f)
  BY DEF Below, Includes
<1> QED
  BY <1>1 DEF Looped, Reached

\* The stack of files is as it was.
LEMMA ChainSame ==
    ASSUME ChainOK, UNCHANGED <<graph, sets, stack>>
    PROVE  ChainOK'
BY BelowSame DEF ChainOK

\* A step that reads nothing.
LEMMA LayerSame ==
    ASSUME StartInv, LayerInv, UNCHANGED <<graph, sets, command, stack, files>>, FlowOK',
           \A n \in Names \ command : value'[n].from = value[n].from
    PROVE  LayerInv'
BY ChainSame, ToldSame DEF LayerInv

\* read_file opens f, which the innermost file includes next, or the root.
Opening(f) ==
    /\ UNCHANGED <<graph, sets, command, value>>
    /\ f \in Files /\ stack' \in Seq(OpenFiles) /\ Len(stack') = Len(stack) + 1
    /\ LET frame == stack'[Len(stack) + 1]
       IN frame.file = f /\ frame.next = 1 /\ frame.todo = sets[f]
    /\ \A k \in 1 .. Len(stack) :
          /\ stack'[k].file = stack[k].file /\ stack'[k].todo = stack[k].todo
          /\ stack'[k].next = stack[k].next + (IF k = Len(stack) THEN 1 ELSE 0)
    /\ stack = <<>> => f = Root /\ files = 0
    /\ stack # <<>> => /\ Reading.next <= Len(graph[Reading.file])
                       /\ f = graph[Reading.file][Reading.next]

\* The next include of the innermost file is below every open file.
LEMMA NextBelow ==
    ASSUME StoreOK, ReadingOK, ChainOK, stack # <<>>,
           Reading.next <= Len(graph[Reading.file]), NEW i \in 1 .. Len(stack)
    PROVE  graph[Reading.file][Reading.next] \in Below(stack[i].file)
<1> DEFINE top == Len(stack)
           f == graph[Reading.file][Reading.next]
<1>1. top \in 1 .. Len(stack) /\ Reading = stack[top] /\ Reading \in OpenFiles
  BY DEF ReadingOK, Reading
<1>2. Reading.file \in Files /\ Reading.next \in Nat /\ Reading.next >= 1
  BY <1>1 DEF OpenFiles
<1>3. f \in Includes(Reading.file)
  BY <1>2, IncludeAt
<1>4. stack[i].file \in Files
  <2>1. stack[i] \in OpenFiles
    BY DEF ReadingOK
  <2> QED
    BY <2>1 DEF OpenFiles
<1>5. CASE i = top
  <2>1. Includes(Reading.file) \subseteq Below(Reading.file)
    BY <1>2, BelowHas DEF Shut
  <2> QED
    BY <1>1, <1>3, <1>5, <2>1
<1>6. CASE i # top
  <2>1. Reading.file \in Below(stack[i].file)
    BY <1>1, <1>6 DEF ChainOK
  <2>2. Includes(Reading.file) \subseteq Below(stack[i].file)
    BY <1>4, <2>1, BelowHas DEF Shut
  <2> QED
    BY <1>3, <2>2
<1> QED
  BY <1>5, <1>6

\* read_file keeps the stack a path of includes.
LEMMA ChainOpen ==
    ASSUME StoreOK, ReadingOK, ChainOK, NEW f, Opening(f)
    PROVE  ChainOK'
<1> DEFINE top == Len(stack)
           new == top + 1
<1> USE DEF Opening
<1>1. /\ top \in Nat /\ Len(stack') = new /\ stack'[new].file = f
      /\ stack'[new].next = 1 /\ stack'[new].todo = sets[f]
      /\ \A k : k \in 1 .. new <=> k \in 1 .. top \/ k = new
      /\ stack = <<>> <=> top = 0
  BY DEF ReadingOK
<1>2. \A k \in 1 .. top :
         stack[k].file \in Files /\ stack[k].next \in Nat /\ stack[k].next >= 1
  <2>1. \A k \in 1 .. top : stack[k] \in OpenFiles
    BY DEF ReadingOK
  <2> QED
    BY <2>1 DEF OpenFiles
<1>a. \A k \in 1 .. top :
         stack'[k].next = IF k = top THEN stack[k].next + 1 ELSE stack[k].next
  BY <1>2
<1>3. \A g \in Files : Len(graph[g]) \in Nat
  BY IncludeAt
<1>4. top # 0 => Reading = stack[top] /\ top \in 1 .. top
  BY <1>1 DEF Reading
<1>5. stack'[1].file = Root
  BY <1>1 DEF ChainOK
<1>6. ASSUME NEW k \in 1 .. new
      PROVE  /\ stack'[k].next <= Len(graph[stack'[k].file]) + 1
             /\ stack'[k].todo \subseteq sets[stack'[k].file]
             /\ stack'[k].next <= Len(graph[stack'[k].file]) =>
                   stack'[k].todo = sets[stack'[k].file]
  <2>1. CASE k = new
    BY <1>1, <1>3, <2>1
  <2>2. CASE k \in 1 .. top /\ k # top
    BY <1>a, <2>2 DEF ChainOK
  <2>3. CASE k \in 1 .. top /\ k = top
    BY <1>a, <1>1, <1>2, <1>3, <1>4, <2>3 DEF ChainOK
  <2> QED
    BY <1>1, <2>1, <2>2, <2>3
<1>7. ASSUME NEW k \in 1 .. top
      PROVE  /\ stack'[k].next >= 2 /\ stack'[k].todo = sets[stack'[k].file]
             /\ stack'[k + 1].file = graph[stack'[k].file][stack'[k].next - 1]
  <2>1. CASE k # top
    <3>1. k \in 1 .. Len(stack) - 1 /\ k + 1 \in 1 .. top
      BY <1>1, <2>1
    <3> QED
      BY <1>a, <2>1, <3>1 DEF ChainOK
  <2>2. CASE k = top
    <3>1. stack'[k].next = stack[k].next + 1 /\ stack'[k].next - 1 = stack[k].next
      <4>1. stack[k].next \in Nat /\ stack'[k].next = stack[k].next + 1
        BY <1>a, <1>2, <2>2
      <4> HIDE DEF Opening, top
      <4> QED
        BY <4>1
    <3>2. stack # <<>> /\ Reading = stack[k]
      BY <1>1, <1>4, <2>2
    <3>3. stack[k].todo = sets[stack[k].file]
      BY <3>2 DEF ChainOK
    <3> QED
      BY <1>1, <1>2, <2>2, <3>1, <3>2, <3>3
  <2> QED
    BY <2>1, <2>2
<1>8. ASSUME NEW i \in 1 .. new, NEW j \in 1 .. new, i < j
      PROVE  stack'[j].file \in Below(stack'[i].file)
  <2>1. i \in 1 .. top /\ stack'[i].file = stack[i].file
    BY <1>1, <1>8
  <2>2. CASE j \in 1 .. top
    BY <1>8, <2>1, <2>2 DEF ChainOK
  <2>3. CASE j = new
    BY <1>1, <2>1, <2>3, NextBelow
  <2> QED
    BY <1>1, <2>2, <2>3
<1>9. \A g : Below(g)' = Below(g)
  BY BelowSame
<1> HIDE DEF new
<1>10. /\ graph' = graph /\ sets' = sets
       /\ \A k : k \in 1 .. Len(stack') <=> k \in 1 .. new
       /\ \A k : k \in 1 .. Len(stack') - 1 <=> k \in 1 .. top
  BY <1>1 DEF new
<1> HIDE DEF Opening, top
<1> QED
  BY <1>5, <1>6, <1>7, <1>8, <1>9, <1>10 DEF ChainOK

\* A file that opens changes nothing that was given.
LEMMA OpenTold ==
    ASSUME StoreOK, ReadingOK, Told, NEW f, Opening(f)
    PROVE  Told'
<1> DEFINE top == Len(stack)
           new == top + 1
<1> USE DEF Opening
<1>1. PICK D \in SUBSET Files : ToldBy(D, stack, files, value)
  BY DEF Told
<1>2. /\ top \in Nat /\ Len(stack') = new /\ stack' # <<>>
      /\ stack = <<>> => ~(files > 0)
  BY DEF ReadingOK
<1>3. stack'[new].todo = sets[stack'[new].file] /\ Behind(stack', new) = 0
  BY <1>2 DEF Behind
<1>4. ASSUME NEW k \in 1 .. top
      PROVE  Alike(stack, k, stack', k)
  <2>1. stack[k] \in OpenFiles
    BY DEF ReadingOK
  <2>2. stack[k].next \in Nat /\ k # new
    BY <1>2, <2>1 DEF OpenFiles
  <2>3. Behind(stack', k) = Behind(stack, k)
    BY <1>2, <2>2 DEF Behind
  <2> QED
    BY <2>3 DEF Alike
<1> HIDE DEF Opening
<1>5. ToldBy(D, stack', files', value)
  BY <1>1, <1>2, <1>3, <1>4, ToldOpen
<1> QED
  BY <1>1, <1>5, ToldNext DEF Opening

\* read_key sets name n of the innermost file.
Keyed(n) ==
    /\ UNCHANGED <<graph, sets, command, files>>
    /\ stack # <<>> /\ stack' \in Seq(OpenFiles) /\ Len(stack') = Len(stack)
    /\ Reading.next > Len(graph[Reading.file]) /\ n \in Reading.todo
    /\ \A k \in 1 .. Len(stack) :
          /\ stack'[k].file = stack[k].file /\ stack'[k].next = stack[k].next
          /\ stack'[k].todo = IF k = Len(stack) THEN stack[k].todo \ {n} ELSE stack[k].todo
    /\ n \notin command => value'[n].from = Reading.file
    /\ \A m \in Names \ command : m # n => value'[m].from = value[m].from

\* A key leaves the path of the includes.
LEMMA ChainKeyed ==
    ASSUME StoreOK, ReadingOK, ChainOK, NEW n, Keyed(n)
    PROVE  ChainOK'
<1> DEFINE top == Len(stack)
<1> USE DEF Keyed
<1>1. /\ top \in Nat /\ top > 0 /\ top \in 1 .. top /\ 1 \in 1 .. top
      /\ Len(stack') = top /\ Reading = stack[top]
  BY DEF ReadingOK, Reading
<1>2. \A k \in 1 .. top : stack[k].file \in Files /\ stack[k].next \in Nat
  <2>1. \A k \in 1 .. top : stack[k] \in OpenFiles
    BY DEF ReadingOK
  <2> QED
    BY <2>1 DEF OpenFiles
<1>3. \A g \in Files : Len(graph[g]) \in Nat
  BY IncludeAt
<1>4. stack'[1].file = Root
  BY <1>1 DEF ChainOK
<1>5. ASSUME NEW k \in 1 .. top
      PROVE  /\ stack'[k].next <= Len(graph[stack'[k].file]) + 1
             /\ stack'[k].todo \subseteq sets[stack'[k].file]
             /\ stack'[k].next <= Len(graph[stack'[k].file]) =>
                   stack'[k].todo = sets[stack'[k].file]
  <2>1. CASE k # top
    BY <2>1 DEF ChainOK
  <2>2. CASE k = top
    <3>1. /\ stack'[k].file = Reading.file /\ stack'[k].next = Reading.next
          /\ stack'[k].todo \subseteq Reading.todo
      BY <1>1, <2>2
    <3>2. Reading.next \in Nat /\ Len(graph[Reading.file]) \in Nat
      BY <1>1, <1>2, <1>3
    <3>3. /\ Reading.next <= Len(graph[Reading.file]) + 1
          /\ Reading.todo \subseteq sets[Reading.file]
      BY <1>1 DEF ChainOK
    <3> QED
      BY <3>1, <3>2, <3>3
  <2> QED
    BY <2>1, <2>2
<1>6. ASSUME NEW k \in 1 .. top - 1
      PROVE  /\ stack'[k].next >= 2 /\ stack'[k].todo = sets[stack'[k].file]
             /\ stack'[k + 1].file = graph[stack'[k].file][stack'[k].next - 1]
  <2>1. k \in 1 .. top /\ k # top /\ k + 1 \in 1 .. top
    BY <1>1
  <2> QED
    BY <2>1 DEF ChainOK
<1>7. \A g : Below(g)' = Below(g)
  BY BelowSame
<1>8. \A i, j \in 1 .. top : i < j => stack'[j].file \in Below(stack'[i].file)
  BY DEF ChainOK
<1>9. graph' = graph /\ sets' = sets /\ 1 .. Len(stack') = 1 .. top
      /\ 1 .. Len(stack') - 1 = 1 .. top - 1
  BY <1>1
<1> HIDE DEF Keyed, top
<1> QED
  BY <1>4, <1>5, <1>6, <1>7, <1>8, <1>9 DEF ChainOK

\* A key is given by the innermost file from then on.
LEMMA KeyedTold ==
    ASSUME StoreOK, ReadingOK, ChainOK, Told, NEW n, Keyed(n)
    PROVE  Told'
<1> DEFINE top == Len(stack)
<1> USE DEF Keyed
<1>1. PICK D \in SUBSET Files : ToldBy(D, stack, files, value)
  BY DEF Told
<1>2. /\ top \in Nat /\ top > 0 /\ top \in 1 .. top /\ Reading = stack[top]
      /\ Len(stack') = top /\ stack' # <<>>
  BY DEF ReadingOK, Reading
<1>3. Reading.file \in Files
  <2>1. stack[top] \in OpenFiles
    BY <1>2 DEF ReadingOK
  <2> QED
    BY <1>2, <2>1 DEF OpenFiles
<1>4. \A k \in 1 .. top :
         stack'[k].file = stack[k].file /\ Behind(stack', k) = Behind(stack, k)
  BY <1>2 DEF Behind
<1>5. \A k \in 1 .. top : k # top => stack'[k].todo = stack[k].todo
  OBVIOUS
<1>6. n \in sets[stack[top].file] /\ stack'[top].todo = stack[top].todo \ {n}
  BY <1>2 DEF ChainOK
<1>7. /\ n \notin command => value'[n].from = stack[top].file
      /\ \A m \in Names \ command : m # n => value'[m].from = value[m].from
  BY <1>2
<1>8. Struck(stack, stack', top, n)
  BY <1>2, <1>3, <1>4, <1>5, <1>6 DEF Struck
<1>9. Valued(value, value', n, stack[top].file)
  BY <1>7 DEF Valued
<1> HIDE DEF Keyed, top
<1>10. ToldBy(D, stack', files, value')
  BY <1>1, <1>8, <1>9, ToldKey
<1> QED
  BY <1>1, <1>10, ToldNext DEF Keyed

\* The innermost file ends.
Ending ==
    /\ UNCHANGED <<graph, sets, command, files, value>>
    /\ stack # <<>> /\ stack' \in Seq(OpenFiles) /\ Len(stack') = Len(stack) - 1
    /\ Reading.next > Len(graph[Reading.file]) /\ Reading.todo = {}
    /\ \A k \in 1 .. Len(stack') : stack'[k] = stack[k]

\* The end of a file leaves the path above it.
LEMMA ChainEnding ==
    ASSUME StoreOK, ReadingOK, ChainOK, Ending
    PROVE  ChainOK'
<1> DEFINE p == Len(stack')
<1>1. p \in Nat /\ Len(stack) = p + 1
  BY DEF ReadingOK, Ending
<1> HIDE DEF p
<1>2. /\ \A k \in 1 .. p : k \in 1 .. Len(stack) /\ stack'[k] = stack[k]
      /\ \A k \in 1 .. p - 1 : k \in 1 .. p /\ k + 1 \in 1 .. p /\ k \in 1 .. Len(stack) - 1
  BY <1>1 DEF Ending, p
<1>3. stack' # <<>> => 1 \in 1 .. p /\ stack # <<>>
  BY <1>1 DEF Ending, p
<1>4. \A g : Below(g)' = Below(g)
  BY BelowSame DEF Ending
<1>5. graph' = graph /\ sets' = sets /\ p = Len(stack')
  BY DEF Ending, p
<1>6. stack' # <<>> => stack'[1].file = Root
  BY <1>2, <1>3 DEF ChainOK
<1>7. \A k \in 1 .. p :
         /\ stack'[k].next <= Len(graph[stack'[k].file]) + 1
         /\ stack'[k].todo \subseteq sets[stack'[k].file]
         /\ stack'[k].next <= Len(graph[stack'[k].file]) =>
               stack'[k].todo = sets[stack'[k].file]
  BY <1>2 DEF ChainOK
<1>8. \A k \in 1 .. p - 1 :
         /\ stack'[k].next >= 2 /\ stack'[k].todo = sets[stack'[k].file]
         /\ stack'[k + 1].file = graph[stack'[k].file][stack'[k].next - 1]
  BY <1>2 DEF ChainOK
<1>9. \A i, j \in 1 .. p : i < j => stack'[j].file \in Below(stack'[i].file)
  BY <1>2 DEF ChainOK
<1> QED
  BY <1>4, <1>5, <1>6, <1>7, <1>8, <1>9 DEF ChainOK

\* The end of a file changes nothing that was given.
LEMMA EndingTold ==
    ASSUME StoreOK, ReadingOK, ChainOK, Told, files > 0, Ending
    PROVE  Told'
<1> DEFINE top == Len(stack)
           p == top - 1
           g == Reading.file
<1>1. PICK D \in SUBSET Files : ToldBy(D, stack, files, value)
  BY DEF Told
<1>2. /\ top \in Nat /\ top > 0 /\ top \in 1 .. top /\ Reading = stack[top]
      /\ Len(stack') = p /\ p = top - 1 /\ p \in Nat /\ stack # <<>>
      /\ stack' = <<>> <=> p = 0
  BY DEF ReadingOK, Reading, Ending
<1>3. \A k \in 1 .. top : stack[k].file \in Files /\ stack[k].next \in Nat
  <2>1. \A k \in 1 .. top : stack[k] \in OpenFiles
    BY DEF ReadingOK
  <2> QED
    BY <2>1 DEF OpenFiles
<1>4. AtEnd(stack, top, g)
  <2>1. g \in Files /\ Len(graph[g]) \in Nat
    BY <1>2, <1>3, IncludeAt
  <2>2. stack[top].next <= Len(graph[g]) + 1 /\ stack[top].next > Len(graph[g])
    BY <1>2 DEF ChainOK, Ending
  <2>3. stack[top].next - 1 = Len(graph[g])
    <3> DEFINE a == stack[top].next
               b == Len(graph[g])
    <3>1. a \in Nat /\ b \in Nat /\ a <= b + 1 /\ a > b
      BY <1>2, <1>3, <2>1, <2>2
    <3> HIDE DEF a, b
    <3>2. a - 1 = b
      BY <3>1
    <3> QED
      BY <3>2 DEF a, b
  <2> QED
    BY <1>2, <2>1, <2>3 DEF AtEnd, Behind, Ending
<1>5. Closed(stack, stack', top, p, g)
  <2>1. \A k \in 1 .. p : stack'[k] = stack[k] /\ k # top /\ k \in 1 .. top
    BY <1>2 DEF Ending
  <2>2. \A k \in 1 .. p : k # p => Alike(stack, k, stack', k)
    BY <1>2, <2>1 DEF Alike, Behind
  <2>3. ASSUME p > 0
        PROVE  Moved(stack, stack', p, g)
    <3>1. p \in 1 .. p /\ p \in 1 .. Len(stack) - 1 /\ p + 1 = top /\ p \in 1 .. top
      BY <1>2, <2>3
    <3>2. /\ stack[p].next >= 2 /\ stack[p].todo = sets[stack[p].file]
          /\ g = graph[stack[p].file][stack[p].next - 1]
      BY <1>2, <3>1 DEF ChainOK
    <3>3. Behind(stack, p) = stack[p].next - 2 /\ Behind(stack', p) = stack[p].next - 1
      BY <1>2, <2>1, <3>1 DEF Behind
    <3>4. /\ Behind(stack, p) \in Nat /\ Behind(stack', p) = Behind(stack, p) + 1
          /\ Behind(stack, p) + 1 = stack[p].next - 1
      BY <1>3, <3>1, <3>2, <3>3
    <3> QED
      BY <2>1, <3>1, <3>2, <3>4 DEF Moved
  <2> QED
    BY <1>2, <2>2, <2>3 DEF Closed
<1>6. p = 0 => g = Root /\ files > 0
  <2>1. p = 0 => top = 1
    <3> HIDE DEF p, top
    <3> QED
      BY <1>2
  <2> QED
    BY <1>2, <2>1 DEF ChainOK
<1>7. g \in Files
  BY <1>4 DEF AtEnd
<1> HIDE DEF top, p, g
<1>8. ToldBy(D \cup {g}, stack', files, value)
  BY <1>1, <1>2, <1>4, <1>5, <1>6, ToldEnd
<1>9. D \cup {g} \in SUBSET Files
  BY <1>7
<1> DEFINE E == D \cup {g}
<1> HIDE DEF E
<1>10. E \in SUBSET Files /\ ToldBy(E, stack', files', value')
  BY <1>8, <1>9 DEF E, Ending
<1> QED
  BY <1>10, ToldNext DEF Ending

\* The file that read_file is called with, and the files that include it.
AtInclude(f, below) ==
    /\ f \in Files /\ below \in Seq(OpenFiles) /\ Len(below) = Len(stack)
    /\ \A k \in 1 .. Len(stack) :
          /\ below[k].file = stack[k].file /\ below[k].todo = stack[k].todo
          /\ below[k].next = stack[k].next + (IF k = Len(stack) THEN 1 ELSE 0)
    /\ stack = <<>> => f = Root /\ files = 0
    /\ stack # <<>> => /\ Reading.next <= Len(graph[Reading.file])
                       /\ f = graph[Reading.file][Reading.next]

\* read_file opens the file, or it ends the program, and over a cycle only when there
\* is one.
LEMMA ReadFileOpens ==
    ASSUME StoreOK, ReadingOK, ChainOK, NEW f, NEW below, AtInclude(f, below),
           ReadFile(f, below), UNCHANGED <<graph, sets, command, value>>
    PROVE  \/ Opening(f) /\ files' = files + 1 /\ UNCHANGED <<stage, why>>
           \/ /\ UNCHANGED <<stack, files>> /\ stage' = "exit"
              /\ why' = "cycle" => Looped \/ Len(stack) > IncludeDepth
<1>1. /\ f \in Files /\ below \in Seq(OpenFiles) /\ Len(below) = Len(stack)
      /\ Len(stack) \in Nat
  BY DEF AtInclude, ReadingOK
<1>2. CASE (\E i \in DOMAIN below : below[i].file = f) /\ UNCHANGED <<stack, files>>
           /\ stage' = "exit"
  <2>1. PICK i \in 1 .. Len(stack) : stack[i].file = f
    <3>1. DOMAIN below = 1 .. Len(stack)
      BY <1>1
    <3> QED
      BY <1>2, <3>1 DEF AtInclude
  <2>2. stack # <<>>
    BY <2>1
  <2>3. f \in Below(f)
    BY <2>1, <2>2, NextBelow DEF AtInclude
  <2>4. f \in Reached(Root)
    <3>1. stack[1].file = Root /\ 1 \in 1 .. Len(stack)
      BY <2>1, <2>2 DEF ChainOK
    <3>2. CASE i = 1
      BY <2>1, <3>1, <3>2 DEF Reached
    <3>3. CASE i # 1
      BY <2>1, <3>1, <3>3 DEF ChainOK, Reached
    <3> QED
      BY <3>2, <3>3
  <2> QED
    BY <1>2, <2>3, <2>4 DEF Looped
<1>3. CASE /\ UNCHANGED <<stack, files>> /\ stage' = "exit"
           /\ why' = "cycle" => Len(below) > IncludeDepth
  BY <1>1, <1>3
<1>4. CASE /\ files' = files + 1 /\ UNCHANGED <<stage, why>>
           /\ stack' = Append(below, FileFrame(f))
  <2> DEFINE frame == FileFrame(f)
  <2>1. frame \in OpenFiles /\ frame.file = f /\ frame.next = 1 /\ frame.todo = sets[f]
    BY <1>1 DEF FileFrame, OpenFiles, StoreOK
  <2>2. stack' = Append(below, frame)
    BY <1>4
  <2> HIDE DEF frame
  <2>3. /\ stack' \in Seq(OpenFiles) /\ Len(stack') = Len(stack) + 1
        /\ stack'[Len(stack) + 1] = frame
        /\ \A k \in 1 .. Len(stack) : stack'[k] = below[k]
    BY <1>1, <2>1, <2>2
  <2>4. Opening(f)
    BY <2>1, <2>3 DEF Opening, AtInclude
  <2> QED
    BY <1>4, <2>4
<1> QED
  BY <1>2, <1>3, <1>4 DEF ReadFile, Exit

\* A call of read_file keeps the invariant.
LEMMA LayerRead ==
    ASSUME StartInv, LayerInv, NEW f, NEW below, AtInclude(f, below), ReadFile(f, below),
           UNCHANGED <<graph, sets, command, value>>, stage \in {"read", "main"},
           stage = "main" => fileRead'
    PROVE  LayerInv'
<1> USE DEF StartInv, LayerInv
<1>1. CASE Opening(f) /\ files' = files + 1 /\ UNCHANGED <<stage, why>>
  <2>1. ChainOK' /\ Told'
    BY <1>1, ChainOpen, OpenTold
  <2>2. stack' # <<>> /\ files' # 0
    BY <1>1 DEF Opening, ReadingOK
  <2>3. FlowOK'
    BY <1>1, <2>2 DEF FlowOK
  <2> QED
    BY <2>1, <2>3
<1>2. CASE /\ UNCHANGED <<stack, files>> /\ stage' = "exit"
           /\ why' = "cycle" => Looped \/ Len(stack) > IncludeDepth
  <2>1. FlowOK'
    BY <1>2, BelowSame DEF FlowOK
  <2>2. \A n \in Names \ command : value'[n].from = value[n].from
    OBVIOUS
  <2> QED
    BY <1>2, <2>1, <2>2, LayerSame
<1> QED
  BY <1>1, <1>2, ReadFileOpens

LEMMA LayerStep == StartInv /\ LayerInv /\ [StartNext]_startVars => LayerInv'
<1> SUFFICES ASSUME StartInv, LayerInv, [StartNext]_startVars
             PROVE  LayerInv'
  OBVIOUS
<1> DEFINE Quiet == /\ UNCHANGED <<graph, sets, command, stack, files>>
                    /\ \A n \in Names \ command : value'[n].from = value[n].from
<1>1. ASSUME UNCHANGED <<input, keyVars, stack, files>>
      PROVE  Quiet /\ UNCHANGED <<graph, sets, command, stack, files, value>>
  BY <1>1 DEF input, keyVars
<1>2. CASE InitMain \/ SeedStart \/ InitReady \/ InitLate
  <2>1. /\ UNCHANGED <<input, value, stack, files, fileRead, why>>
        /\ stage' = stage \/ (stage = "init" /\ stage' = "options")
    BY <1>2 DEF InitMain, SeedStart, InitReady, InitLate, keyVars
  <2>2. Quiet /\ graph' = graph
    BY <2>1 DEF input
  <2>3. FlowOK'
    BY <2>1, <2>2, BelowSame DEF FlowOK, LayerInv, input
  <2> QED
    BY <2>2, <2>3, LayerSame
<1>3. CASE OptionRefused \/ ConfStart \/ ReadRefused \/ InjectRefused \/ InjectStart
           \/ \E t \in Mains, n \in Names : Get(t, n)
  <2>1. /\ UNCHANGED <<input, keyVars, stack, files, fileRead>>
        /\ \/ stage' = "exit" /\ why' # "cycle"
           \/ stage = "options" /\ stage' \in {"read", "inject"} /\ UNCHANGED why
           \/ stage = "inject" /\ stage' = "main" /\ UNCHANGED why
           \/ UNCHANGED <<stage, why>>
    BY <1>3 DEF OptionRefused, ConfStart, ReadRefused, InjectRefused, InjectStart, Get,
                Exit
  <2>2. Quiet /\ UNCHANGED <<graph, command, value>>
    BY <1>1, <2>1
  <2>3. FlowOK'
    BY <2>1, <2>2, BelowSame DEF FlowOK, LayerInv
  <2> QED
    BY <2>2, <2>3, LayerSame
<1>4. ASSUME NEW n \in Names, Option(n) PROVE LayerInv'
  <2> USE <1>4 DEF Option
  <2>1. \A m \in Names \ {n} : value'[m] = value[m]
    BY SetNameKeeps DEF StartInv
  <2>2. Quiet /\ UNCHANGED <<graph, command>>
    BY <2>1 DEF input
  <2>3. FlowOK'
    BY <2>1, <2>2, BelowSame DEF FlowOK, LayerInv
  <2> QED
    BY <2>2, <2>3, LayerSame
<1>5. CASE ReadRoot \/ \E t \in Mains : Configure(t)
  <2>1. /\ ReadFile(Root, <<>>) /\ stage \in {"read", "main"}
        /\ UNCHANGED <<input, keyVars>>
        /\ stage = "main" => fileRead'
        /\ files = 0 /\ stack = <<>>
    BY <1>5 DEF ReadRoot, Configure, LayerInv, FlowOK
  <2> DEFINE below == <<>>
  <2>2. /\ below \in Seq(OpenFiles) /\ Len(below) = Len(stack) /\ Len(stack) = 0
    BY <2>1
  <2>3. ReadFile(Root, below)
    BY <2>1
  <2> HIDE DEF below
  <2>4. AtInclude(Root, below)
    BY <2>1, <2>2 DEF AtInclude
  <2>5. UNCHANGED <<graph, sets, command, value>>
    BY <2>1 DEF input, keyVars
  <2> QED
    BY <2>1, <2>3, <2>4, <2>5, LayerRead
<1>6. CASE ReadInclude
  <2> DEFINE top == Len(stack)
             frame == [stack[top] EXCEPT !.next = @ + 1]
             below == [stack EXCEPT ![top] = frame]
             f == graph[Reading.file][Reading.next]
  <2>1. /\ stack # <<>> /\ Reading.next <= Len(graph[Reading.file])
        /\ ReadFile(f, below) /\ stage \in {"read", "main"}
        /\ UNCHANGED <<graph, sets, command, value, fileRead>>
    BY <1>6 DEF ReadInclude, input, keyVars
  <2>2. top \in 1 .. Len(stack) /\ Reading = stack[top] /\ Reading \in OpenFiles
    BY <2>1 DEF StartInv, ReadingOK, Reading
  <2>3. /\ frame \in OpenFiles /\ frame.file = stack[top].file
        /\ frame.todo = stack[top].todo /\ frame.next = stack[top].next + 1
    BY <2>2 DEF OpenFiles
  <2>4. /\ below \in Seq(OpenFiles) /\ Len(below) = Len(stack)
        /\ \A i \in 1 .. Len(stack) : below[i] = IF i = top THEN frame ELSE stack[i]
    <3> HIDE DEF frame
    <3> QED
      BY <2>2, <2>3, ExceptSeq DEF StartInv, ReadingOK
  <2>5. f \in Files
    <3>1. graph[Reading.file] \in Seq(Files)
      BY <2>2 DEF StartInv, StoreOK, OpenFiles
    <3>2. Reading.next \in 1 .. Len(graph[Reading.file])
      BY <2>1, <2>2, <3>1 DEF OpenFiles
    <3> QED
      BY <3>1, <3>2
  <2>6. \A k \in 1 .. Len(stack) :
           /\ below[k].file = stack[k].file /\ below[k].todo = stack[k].todo
           /\ below[k].next = stack[k].next + (IF k = Len(stack) THEN 1 ELSE 0)
    <3>1. \A k \in 1 .. Len(stack) : stack[k].next \in Nat
      <4>1. \A k \in 1 .. Len(stack) : stack[k] \in OpenFiles
        BY DEF StartInv, ReadingOK
      <4> QED
        BY <4>1 DEF OpenFiles
    <3> HIDE DEF frame, below
    <3> QED
      BY <2>3, <2>4, <3>1
  <2> HIDE DEF below
  <2>7. AtInclude(f, below)
    BY <2>1, <2>4, <2>5, <2>6 DEF AtInclude
  <2>8. stage = "main" => fileRead'
    BY <2>1, <2>7 DEF LayerInv, FlowOK
  <2> HIDE DEF f
  <2> QED
    BY <2>1, <2>7, <2>8, LayerRead
<1>7. ASSUME NEW n \in Names, ReadKey(n) PROVE LayerInv'
  <2> USE DEF StartInv, LayerInv
  <2>1. CASE Exit("injection") /\ UNCHANGED <<stack, keyVars>>
    <3>1. UNCHANGED <<input, keyVars, stack, files, fileRead>> /\ stage' = "exit"
          /\ why' # "cycle"
      BY <1>7, <2>1 DEF ReadKey, Exit
    <3>2. Quiet /\ UNCHANGED <<graph, command, value>>
      BY <1>1, <3>1
    <3>3. FlowOK'
      BY <3>1, <3>2 DEF FlowOK
    <3> QED
      BY <3>2, <3>3, LayerSame
  <2>2. CASE /\ SetName(n, FILE, Reading.file)
             /\ stack' = [stack EXCEPT ![Len(stack)].todo = @ \ {n}]
             /\ UNCHANGED <<stage, why>>
    <3> DEFINE top == Len(stack)
               frame == [stack[top] EXCEPT !.todo = @ \ {n}]
    <3>1. /\ stack # <<>> /\ Reading.next > Len(graph[Reading.file]) /\ n \in Reading.todo
          /\ UNCHANGED <<graph, sets, command, files, fileRead>>
          /\ stage \in {"read", "main"}
      BY <1>7 DEF ReadKey, input
    <3>2. top \in 1 .. Len(stack) /\ Reading = stack[top] /\ Reading \in OpenFiles
      BY <3>1 DEF ReadingOK, Reading
    <3>3. /\ frame \in OpenFiles /\ frame.file = stack[top].file
          /\ frame.next = stack[top].next /\ frame.todo = stack[top].todo \ {n}
      BY <3>2 DEF OpenFiles
    <3>4. stack' = [stack EXCEPT ![top] = frame]
      BY <2>2
    <3> HIDE DEF frame
    <3>5. /\ stack' \in Seq(OpenFiles) /\ Len(stack') = Len(stack)
          /\ \A i \in 1 .. Len(stack) : stack'[i] = IF i = top THEN frame ELSE stack[i]
      BY <3>2, <3>3, <3>4, ExceptSeq DEF ReadingOK
    <3>6. Reading.file \in Files
      BY <3>2 DEF OpenFiles
    <3>7. /\ \A m \in Names \ {n} : value'[m] = value[m]
          /\ \/ value[n].layer > FILE /\ value' = value
             \/ value'[n].layer = FILE /\ value'[n].from = Reading.file
      BY <2>2, <3>6, SetNameKeeps
    <3>8. n \notin command => value'[n].layer # COMMAND /\ value'[n].from = Reading.file
      <4>1. n \notin command => value[n].layer \in {BUILD, FILE}
        <5>1. value[n] \in Values
          BY DEF StoreOK
        <5> QED
          BY <5>1 DEF FlowOK, Values
      <4> QED
        BY <3>7, <4>1
    <3>9. \A m \in Names \ command : m # n => value'[m].from = value[m].from
      BY <3>7
    <3>10. \A k \in 1 .. Len(stack) :
              /\ stack'[k].file = stack[k].file /\ stack'[k].next = stack[k].next
              /\ stack'[k].todo = IF k = Len(stack) THEN stack[k].todo \ {n}
                                  ELSE stack[k].todo
      BY <3>3, <3>5
    <3>11. Keyed(n)
      BY <3>1, <3>5, <3>8, <3>9, <3>10 DEF Keyed
    <3>12. ChainOK' /\ Told'
      BY <3>11, ChainKeyed, KeyedTold
    <3>13. stack' # <<>>
      BY <3>1, <3>2, <3>5
    <3>14. FlowOK'
      <4>1. \A m \in Names \ command : value'[m].layer # COMMAND
        BY <3>7, <3>8 DEF FlowOK
      <4> QED
        BY <2>2, <3>1, <3>13, <4>1 DEF FlowOK
    <3> QED
      BY <3>12, <3>14
  <2> QED
    BY <1>7, <2>1, <2>2 DEF ReadKey
<1>8. CASE ReadEnd
  <2> USE DEF StartInv, LayerInv
  <2>1. /\ stack # <<>> /\ Reading.next > Len(graph[Reading.file]) /\ Reading.todo = {}
        /\ UNCHANGED <<graph, sets, command, files, value, why>>
        /\ fileRead' = TRUE /\ stage \in {"read", "main"}
        /\ stage' = IF stage = "read" /\ Len(stack) = 1 THEN "inject" ELSE stage
    BY <1>8 DEF ReadEnd, input, keyVars
  <2>2. /\ stack' \in Seq(OpenFiles) /\ Len(stack') = Len(stack) - 1
        /\ \A i \in 1 .. Len(stack') : stack'[i] = stack[i]
    <3> DEFINE n == Len(stack) - 1
    <3>1. n \in Nat /\ \A i \in 1 .. n : stack[i] \in OpenFiles
      BY <2>1 DEF ReadingOK
    <3>2. stack' = SubSeq(stack, 1, n)
      BY <1>8 DEF ReadEnd
    <3> HIDE DEF n
    <3>3. /\ SubSeq(stack, 1, n) \in Seq(OpenFiles) /\ Len(SubSeq(stack, 1, n)) = n
          /\ \A i \in 1 .. n : SubSeq(stack, 1, n)[i] = stack[i]
      BY <3>1, SubSeqProperties
    <3> QED
      BY <3>2, <3>3 DEF n
  <2>3. Ending
    BY <2>1, <2>2 DEF Ending
  <2>4. files > 0 /\ Len(stack) \in Nat
    BY <2>1 DEF FlowOK, ReadingOK
  <2>5. ChainOK' /\ Told'
    BY <2>3, <2>4, ChainEnding, EndingTold
  <2>6. stack' = <<>> <=> Len(stack) = 1
    BY <2>2, <2>4
  <2>7. FlowOK'
    BY <2>1, <2>4, <2>6 DEF FlowOK
  <2> QED
    BY <2>5, <2>7
<1>9. CASE UNCHANGED startVars
  <2>1. UNCHANGED <<input, keyVars, stack, files, fileRead, stage, why>>
    BY <1>9 DEF startVars
  <2>2. Quiet /\ UNCHANGED <<graph, command, value>>
    BY <1>1, <2>1
  <2>3. FlowOK'
    BY <2>1, <2>2, BelowSame DEF FlowOK, LayerInv
  <2> QED
    BY <2>2, <2>3, LayerSame
<1> QED
  BY <1>2, <1>3, <1>4, <1>5, <1>6, <1>7, <1>8, <1>9 DEF StartNext, Read

LEMMA LayerHolds == StartSpec => []LayerInv
  BY LayerInit, LayerStep, StartInvHolds, PTL DEF StartSpec

\* Once the configuration is read, over any files and includes, each name has the value
\* of the strongest layer of set_key and anti_rt_inject_line, and read_file takes no
\* configuration with a cycle and refuses none without.
THEOREM SettingsAlwaysRight == StartSpec => []SettingsRight
<1>1. ASSUME StartInv, LayerInv
      PROVE  SettingsRight
  <2> USE <1>1 DEF StartInv, LayerInv
  <2>1. PICK D \in SUBSET Files : ToldBy(D, stack, files, value)
    BY DEF Told
  <2>2. ASSUME Settled, NEW n \in Names
        PROVE  value[n].from = IF n \in command \/ files = 0 THEN NoFile
                               ELSE Giver(Root, n)
    <3>1. stage = "main" /\ stack = <<>> /\ Len(stack) = 0 /\ files \in Nat
      BY <2>2 DEF Settled, ReadingOK
    <3>2. CASE n \in command
      BY <3>1, <3>2 DEF OptionsStand
    <3>3. CASE n \notin command
      <4>1. NameTold(D, stack, files, n, value[n].from)
        BY <2>1, <3>3 DEF ToldBy
      <4>2. PICK F \in [D -> Files \cup {NoFile}] :
               /\ Solves(F, D, n)
               /\ IF stack = <<>> /\ files > 0 THEN value[n].from = F[Root]
                  ELSE GivenIs(F, stack, n, value[n].from)
        BY <4>1 DEF NameTold
      <4>3. CASE files = 0
        BY <3>1, <4>2, <4>3 DEF GivenIs
      <4>4. CASE files > 0
        <5>1. Ended(D) /\ Root \in D
          BY <2>1, <3>1, <4>4 DEF ToldBy
        <5>2. Giver(Root, n) = F[Root]
          BY <4>2, <5>1, GiverIs
        <5> QED
          BY <3>1, <3>3, <4>2, <4>4, <5>2
      <4> QED
        BY <3>1, <4>3, <4>4
    <3> QED
      BY <3>2, <3>3
  <2>3. Settled /\ files > 0 => ~Looped
    <3> SUFFICES ASSUME Settled, files > 0
                 PROVE  ~Looped
      OBVIOUS
    <3>1. Ended(D) /\ Root \in D
      BY <2>1 DEF ToldBy, Settled
    <3> QED
      BY <3>1, NoLoop
  <2>4. why = "cycle" => Looped \/ Len(stack) > IncludeDepth
    BY DEF FlowOK
  <2>5. LayersRight
    BY <2>2 DEF LayersRight
  <2>6. CyclesFound
    BY <2>3, <2>4 DEF CyclesFound, Looped
  <2> QED
    BY <2>5, <2>6 DEF SettingsRight
<1> QED
  BY <1>1, StartInvHolds, LayerHolds, PTL

-----------------------------------------------------------------------------
(* The route of signals. *)

Frames == [at : {"route", "catch", "failed"}, sig : Sigs, f : 1 .. MaxRegister]
Deliveries == [at : {"look", "call"}, sig : Sigs, f : 0 .. MaxRegister,
               since : 0 .. MaxRegister]
Bytes == [sig : Sigs, since : 0 .. MaxRegister]

StateOK ==
    /\ handlers \in [Sigs -> 0 .. MaxRegister]
    /\ settled \in [Sigs -> 0 .. MaxRegister]
    /\ made \in 0 .. MaxRegister
    /\ pending \in Sigs \cup {0}
    /\ lock \in SigThreads \cup {0}
    /\ routed \in BOOLEAN
    /\ caught \in SUBSET Sigs
    /\ raised \in [Sigs -> {NoRaise} \cup 0 .. MaxRegister]
    /\ pipe \in Seq(Bytes)
    /\ reader \in {Out} \cup Deliveries
    /\ register \in [SigThreads -> {Out} \cup Frames]

\* The table has a function for s, at least as new as registration n.
Covers(s, n) == handlers[s] # 0 /\ n <= handlers[s]

\* Nothing is newer in the table than the count, nor settled than the table.
TableLeads ==
    \A s \in Sigs : handlers[s] <= made /\ settled[s] <= handlers[s]

\* A call of on_signal is behind the table, and catches only on a route.
CallsBehind ==
    \A t \in SigThreads : register[t] # Out =>
        /\ Covers(register[t].sig, register[t].f)
        /\ register[t].at = "catch" => routed

CaughtRouted ==
    /\ caught # {} => routed
    /\ \A s \in caught : handlers[s] # 0

\* Whatever is on its way to the reader is behind the table.
WayBehind ==
    /\ \A s \in Sigs : raised[s] # NoRaise => Covers(s, raised[s])
    /\ \A i \in 1 .. Len(pipe) : Covers(pipe[i].sig, pipe[i].since)
    /\ reader # Out => Covers(reader.sig, reader.since)

SigInv ==
    /\ StateOK /\ TableLeads /\ CallsBehind /\ CaughtRouted /\ WayBehind
    /\ HandlerFresh

USE SignalsAssumption DEF NoRaise, SigThreads

LEMMA SigInvInit == SigInit => SigInv
<1> SUFFICES ASSUME SigInit PROVE SigInv
  OBVIOUS
<1> USE DEF SigInit
<1>1. StateOK
  <2>1. /\ handlers \in [Sigs -> 0 .. MaxRegister]
        /\ settled \in [Sigs -> 0 .. MaxRegister]
        /\ raised \in [Sigs -> {NoRaise} \cup 0 .. MaxRegister]
    OBVIOUS
  <2>2. pipe \in Seq(Bytes)
    OBVIOUS
  <2>3. register \in [SigThreads -> {Out} \cup Frames]
    OBVIOUS
  <2>4. made \in 0 .. MaxRegister
    OBVIOUS
  <2> QED
    BY <2>1, <2>2, <2>3, <2>4, Zenon DEF StateOK
<1>2. TableLeads /\ CallsBehind /\ CaughtRouted /\ WayBehind /\ HandlerFresh
  BY DEF TableLeads, CallsBehind, CaughtRouted, WayBehind, HandlerFresh, Out
<1> QED
  BY <1>1, <1>2 DEF SigInv

LEMMA SigInvStep == SigInv /\ [SigNext]_sigVars => SigInv'
<1> SUFFICES ASSUME SigInv, [SigNext]_sigVars
             PROVE  SigInv'
  OBVIOUS
<1> USE DEF SigInv
<1>1. ASSUME NEW t \in SigThreads, NEW s \in Sigs, OnSignal(t, s) PROVE SigInv'
  <2> USE <1>1 DEF OnSignal, MayRegister
  <2>1. StateOK'
    BY DEF StateOK, Frames, TableLeads
  <2>2. \A x \in Sigs : handlers[x] <= handlers'[x]
    BY DEF StateOK, TableLeads
  <2>3. TableLeads'
    BY DEF StateOK, TableLeads
  <2>4. CallsBehind'
    BY DEF StateOK, TableLeads, CallsBehind, Covers, Frames
  <2>5. CaughtRouted'
    BY DEF StateOK, CaughtRouted
  <2>6. WayBehind'
    <3>1. \A x \in Sigs : raised[x] # NoRaise => Covers(x, raised[x])'
      BY <2>1, <2>2 DEF StateOK, WayBehind, Covers
    <3>2. ASSUME NEW i \in 1 .. Len(pipe) PROVE Covers(pipe[i].sig, pipe[i].since)'
      <4>1. pipe[i] \in Bytes
        BY DEF StateOK
      <4> QED
        BY <4>1, <2>1, <2>2 DEF StateOK, WayBehind, Covers, Bytes
    <3>3. reader # Out => Covers(reader.sig, reader.since)'
      BY <2>1, <2>2 DEF StateOK, WayBehind, Covers, Deliveries
    <3> QED
      BY <3>1, <3>2, <3>3 DEF WayBehind
  <2>7. HandlerFresh'
    BY DEF HandlerFresh
  <2> QED
    BY <2>1, <2>3, <2>4, <2>5, <2>6, <2>7
<1>2. ASSUME NEW t \in SigThreads, Route(t) PROVE SigInv'
  <2> USE <1>2 DEF Route
  <2>0. /\ register[t] \in Frames
        /\ \E p \in {"catch", "failed"} :
              /\ p = "catch" => routed'
              /\ register' = [register EXCEPT ![t] = [@ EXCEPT !.at = p]]
    BY DEF StateOK, Out
  <2> PICK p \in {"catch", "failed"} :
              /\ p = "catch" => routed'
              /\ register' = [register EXCEPT ![t] = [@ EXCEPT !.at = p]]
    BY <2>0
  <2> DEFINE frame == [register[t] EXCEPT !.at = p]
  <2>f. /\ frame \in Frames /\ frame.at = p
        /\ frame.sig = register[t].sig /\ frame.f = register[t].f
    BY <2>0 DEF Frames
  <2>r. register' = [register EXCEPT ![t] = frame]
    OBVIOUS
  <2> HIDE DEF frame
  <2>1. StateOK'
    <3>1. register' \in [SigThreads -> {Out} \cup Frames]
      BY <2>f, <2>r DEF StateOK
    <3>2. /\ lock' = 0 /\ routed' \in BOOLEAN
          /\ UNCHANGED <<handlers, pending, caught, raised, pipe, reader, made, settled>>
      BY DEF StateOK
    <3> QED
      BY <3>1, <3>2 DEF StateOK
  <2>2. TableLeads' /\ CaughtRouted' /\ WayBehind' /\ HandlerFresh'
    BY DEF StateOK, TableLeads, CaughtRouted, WayBehind, HandlerFresh, Covers
  <2>3. CallsBehind'
    BY <2>0, <2>f, <2>r DEF StateOK, CallsBehind, Covers, Out
  <2> QED
    BY <2>1, <2>2, <2>3
<1>3. ASSUME NEW t \in SigThreads, Catch(t) PROVE SigInv'
  <2> USE <1>3 DEF Catch
  <2>1. register[t] \in Frames /\ Covers(register[t].sig, register[t].f)
    BY DEF StateOK, CallsBehind, Frames, Out
  <2>2. StateOK'
    <3>1. settled' \in [Sigs -> 0 .. MaxRegister]
      <4> DEFINE f == register[t].f
                 s == register[t].sig
                 top == IF f > settled[s] THEN f ELSE settled[s]
      <4>1. f \in 0 .. MaxRegister /\ s \in Sigs
        BY <2>1 DEF Frames
      <4>2. settled' = [settled EXCEPT ![s] = top]
        OBVIOUS
      <4>3. settled \in [Sigs -> 0 .. MaxRegister]
        BY DEF StateOK
      <4>4. top \in 0 .. MaxRegister
        BY <4>1, <4>3
      <4> HIDE DEF f, s, top
      <4> QED
        BY <4>1, <4>2, <4>3, <4>4
    <3>2. caught' \in SUBSET Sigs /\ register' \in [SigThreads -> {Out} \cup Frames]
      BY <2>1 DEF StateOK, Frames
    <3> QED
      BY <3>1, <3>2 DEF StateOK
  <2>3. TableLeads'
    BY <2>1 DEF StateOK, TableLeads, Frames, Covers
  <2>4. CaughtRouted' /\ CallsBehind'
    BY <2>1 DEF StateOK, CallsBehind, CaughtRouted, Covers, Frames, Out
  <2>5. WayBehind' /\ HandlerFresh'
    BY DEF WayBehind, HandlerFresh, Covers
  <2> QED
    BY <2>2, <2>3, <2>4, <2>5
<1>4. ASSUME NEW s \in Sigs, Raise(s) PROVE SigInv'
  BY <1>4 DEF Raise, StateOK, TableLeads, CallsBehind, CaughtRouted, WayBehind,
              HandlerFresh, Covers
<1>5. ASSUME NEW s \in Sigs, OnRaise(s) PROVE SigInv'
  <2> USE <1>5 DEF OnRaise
  <2>0. [sig |-> s, since |-> raised[s]] \in Bytes
    BY DEF StateOK, Bytes
  <2>1. StateOK'
    BY <2>0 DEF StateOK
  <2>2. TableLeads' /\ CallsBehind' /\ CaughtRouted' /\ HandlerFresh'
    BY DEF StateOK, TableLeads, CallsBehind, CaughtRouted, HandlerFresh, Covers
  <2>3. WayBehind'
    BY DEF StateOK, WayBehind, Covers
  <2> QED
    BY <2>1, <2>2, <2>3
<1>6. CASE ReadByte
  <2> USE <1>6 DEF ReadByte
  <2>1. /\ Head(pipe) \in Bytes /\ Head(pipe) = pipe[1] /\ 1 \in 1 .. Len(pipe)
        /\ Tail(pipe) \in Seq(Bytes)
    BY DEF StateOK
  <2>2. StateOK'
    BY <2>1 DEF StateOK, Deliveries, Bytes
  <2>3. TableLeads' /\ CallsBehind' /\ CaughtRouted' /\ HandlerFresh'
    BY DEF StateOK, TableLeads, CallsBehind, CaughtRouted, HandlerFresh, Covers
  <2>4. \A i \in 1 .. Len(pipe') : i + 1 \in 1 .. Len(pipe) /\ pipe'[i] = pipe[i + 1]
    BY DEF StateOK
  <2>5. WayBehind'
    BY <2>1, <2>4 DEF WayBehind, Covers
  <2> QED
    BY <2>2, <2>3, <2>5
<1>7. CASE Look
  <2> USE <1>7 DEF Look
  <2>1. reader \in Deliveries /\ Covers(reader.sig, reader.since)
    BY DEF StateOK, WayBehind, Out
  <2>2. reader' \in Deliveries /\ reader' # Out
    BY <2>1 DEF StateOK, Deliveries, Out
  <2>3. /\ reader'.sig = reader.sig /\ reader'.since = reader.since
        /\ reader'.f = handlers[reader.sig]
    BY <2>1 DEF Deliveries
  <2>4. StateOK' /\ TableLeads' /\ CallsBehind' /\ CaughtRouted'
    BY <2>2 DEF StateOK, TableLeads, CallsBehind, CaughtRouted, Covers
  <2>5. WayBehind' /\ HandlerFresh'
    BY <2>1, <2>3 DEF StateOK, WayBehind, HandlerFresh, Covers, Deliveries
  <2> QED
    BY <2>4, <2>5
<1>8. CASE Return
  BY <1>8 DEF Return, StateOK, TableLeads, CallsBehind, CaughtRouted, WayBehind,
              HandlerFresh, Covers, Out
<1>9. CASE SignalPending
  BY <1>9 DEF SignalPending, StateOK, TableLeads, CallsBehind, CaughtRouted,
              WayBehind, HandlerFresh, Covers
<1>10. CASE UNCHANGED sigVars
  BY <1>10 DEF sigVars, StateOK, TableLeads, CallsBehind, CaughtRouted,
               WayBehind, HandlerFresh, Covers
<1> QED
  BY <1>1, <1>2, <1>3, <1>4, <1>5, <1>6, <1>7, <1>8, <1>9, <1>10
     DEF SigNext, Deliver

LEMMA SigInvHolds == SigSpec => []SigInv
  BY SigInvInit, SigInvStep, PTL DEF SigSpec

\* For any signals, threads and registrations, the reader of signal_reader finds
\* a function, one as new as the last registration that had returned when the
\* signal was raised, and a signal is caught only where a reader runs.
THEOREM SignalsAlwaysRight == SigSpec => []SignalsRight
<1>1. SigInv => SignalsRight
  BY DEF SigInv, SignalsRight, SigTypeOK, StateOK, CaughtRouted, Deliveries, Out
<1> QED
  BY <1>1, SigInvHolds, PTL
==============================================================================
