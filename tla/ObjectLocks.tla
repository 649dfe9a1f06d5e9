------------------------------ MODULE ObjectLocks ------------------------------
(***************************************************************************)
(* The Mutex, the hidden lock of a synchronized object, `sync a, b` and    *)
(* the record of lock orders of a dev build: src/src/rt/lock.c.            *)
(*                                                                         *)
(* A thread of the program nests `sync` blocks: on a Mutex, on an object,  *)
(* or on two objects.  It leaves them innermost first, since a block is    *)
(* lexical.  The functions are those of a dev build, whose names end in    *)
(* _at; the others do the same without the record.                         *)
(*                                                                         *)
(* The word below each lock is the one MutexSpec specifies and WordLock    *)
(* implements: holder.  owner and depth are the fields beside it.  Between *)
(* two actions of a thread others run, so every read and write that other  *)
(* threads can see is an action of its own; the stack of held locks is the *)
(* thread's own, and the table of orders is behind a lock, so order_take   *)
(* and order_give join the action beside them.                             *)
(*                                                                         *)
(* A lock is its address, a number, since `sync a, b` compares addresses.  *)
(***************************************************************************)
EXTENDS Integers, Sequences, FiniteSets, SequencesExt

CONSTANTS
    Threads,    \* the threads of the program
    Mutexes,    \* the addresses of its Mutexes
    Objs,       \* the addresses of the hidden locks of its objects
    HeldMax,    \* HELD_MAX, 32 in the code
    MaxFrames,  \* bound: how deep `sync` blocks nest
    Reuse,      \* whether the program frees an object and makes another there
    NoThread    \* the holder of a free word, and the owner 0

ASSUME LocksAssumption ==
    /\ IsFiniteSet(Threads)
    /\ Mutexes \cup Objs \subseteq Nat
    /\ Mutexes \cap Objs = {}
    /\ HeldMax \in Nat /\ MaxFrames \in Nat
    /\ Reuse \in BOOLEAN
    /\ NoThread \notin Threads

Locks == Mutexes \cup Objs

VARIABLES
    holder,     \* holder[l]: the thread that holds the word of l
    owner,      \* owner[l]: the field owner of the lock of an object
    depth,      \* depth[l]: the field depth of the lock of an object
    held,       \* held[t]: the array held of t, as far as it is in use
    heldCount,  \* held_count of t
    orders,     \* the recorded orders, pairs <<first, second>>
    reported,   \* the recorded orders whose field reported is set
    frames,     \* frames[t]: the `sync` blocks t is in, innermost last
    pc,         \* where t is
    todo,       \* todo[t]: the locks the call still has to take or to give
    aborted,    \* a Mutex taken by its holder stopped the program
    taken,      \* history: the orders in which locks alive now were taken
    reports     \* history: the conflicts reported, with what was taken then

record == <<held, heldCount>>
table == <<orders, reported, taken, reports>>
vars == <<holder, owner, depth, record, table, frames, pc, todo, aborted>>

\* "run"    in the program
\* "ask"    about to look at the owner, or at the stack for a Mutex
\* "word"   in anti_rt_word_lock of the first lock of todo
\* "own"    holds the word and is about to write owner and depth
\* "leave"  about to give the first lock of todo back
\* "free"   cleared the owner and is about to give the word back
Places == {"run", "ask", "word", "own", "leave", "free"}

GoTo(t, place) == pc' = [pc EXCEPT ![t] = place]

Init ==
    /\ holder = [l \in Locks |-> NoThread]
    /\ owner = [l \in Objs |-> NoThread]
    /\ depth = [l \in Objs |-> 0]
    /\ held = [t \in Threads |-> <<>>]
    /\ heldCount = [t \in Threads |-> 0]
    /\ orders = {}
    /\ reported = {}
    /\ frames = [t \in Threads |-> <<>>]
    /\ pc = [t \in Threads |-> "run"]
    /\ todo = [t \in Threads |-> <<>>]
    /\ aborted = FALSE
    /\ taken = {}
    /\ reports = {}

-----------------------------------------------------------------------------
(* The record of orders *)

HeldLocks(t) == {l \in Locks : holder[l] = t}

\* The lock goes on the stack of the thread, past HELD_MAX without a record.
Pushed(t, l) ==
    /\ held' = [held EXCEPT ![t] = IF heldCount[t] < HeldMax
                                   THEN Append(@, l) ELSE @]
    /\ heldCount' = [heldCount EXCEPT ![t] = @ + 1]

\* Mutant: the order is looked up the way it is taken now, not in reverse.
OrderTakeForward(t, l) ==
    LET before == ToSet(held[t]) \ {l}
        conflicts == {h \in before : <<h, l>> \in orders \ reported
                                      /\ <<l, h>> \in orders}
        forward == {<<h, l>> : h \in before}
    IN
    /\ orders' = orders \cup forward
    /\ reported' = reported \cup {<<h, l>> : h \in conflicts}
          \cup {<<l, h>> : h \in conflicts}
    /\ taken' = taken \cup {<<h, l>> : h \in HeldLocks(t) \ {l}}
    /\ reports' = reports \cup
          {[pair |-> {h, l}, again |-> \E r \in reports : r.pair = {h, l},
            true |-> <<l, h>> \in taken] : h \in conflicts}
    /\ Pushed(t, l)

\* order_take: the orders of the locks on the stack before l.  One whose reverse
\* is recorded and not reported is a conflict, and both orders get the mark; a
\* new order gets it when its reverse is recorded at all.
OrderTake(t, l) ==
    LET before == ToSet(held[t]) \ {l}
        conflicts == {h \in before : <<l, h>> \in orders \ reported}
        forward == {<<h, l>> : h \in before}
        marked == {<<h, l>> : h \in {g \in before : <<l, g>> \in orders
                                       /\ (g \in conflicts
                                           \/ <<g, l>> \notin orders)}}
    IN
    /\ orders' = orders \cup forward
    /\ reported' = reported \cup marked \cup {<<l, h>> : h \in conflicts}
    /\ taken' = taken \cup {<<h, l>> : h \in HeldLocks(t) \ {l}}
    /\ reports' = reports \cup
          {[pair |-> {h, l}, again |-> \E r \in reports : r.pair = {h, l},
            true |-> <<l, h>> \in taken] : h \in conflicts}
    /\ Pushed(t, l)

\* The topmost place of l on the stack of t, or 0.
Topmost(t, l) ==
    LET places == {i \in DOMAIN held[t] : held[t][i] = l}
    IN  IF places = {} THEN 0 ELSE CHOOSE i \in places : \A j \in places : j <= i

\* Mutant: a lock past the end of the array is looked for in the array.
OrderGiveSearches(t, l) ==
    /\ heldCount' = [heldCount EXCEPT ![t] = IF @ = 0 THEN 0 ELSE @ - 1]
    /\ held' = [held EXCEPT ![t] =
          IF Topmost(t, l) # 0 THEN RemoveAt(@, Topmost(t, l))
          ELSE IF @ = <<>> THEN @ ELSE Front(@)]

\* order_give: past the end of the array the count alone goes down.  Below it
\* the lock is taken out, and the topmost entry when the lock is not there.
OrderGive(t, l) ==
    /\ heldCount' = [heldCount EXCEPT ![t] = IF @ = 0 THEN 0 ELSE @ - 1]
    /\ held' = [held EXCEPT ![t] =
          IF heldCount[t] = 0 \/ heldCount[t] > HeldMax THEN @
          ELSE IF Topmost(t, l) # 0 THEN RemoveAt(@, Topmost(t, l))
          ELSE Front(@)]

-----------------------------------------------------------------------------
(* Taking locks *)

\* Mutant: the pair is taken in the order it is written.
PairOrderWritten(a, b) == IF a = b THEN <<a>> ELSE <<a, b>>

\* anti_rt_object_lock_pair: by address, and one lock once.
PairOrder(a, b) ==
    IF a = b THEN <<a>> ELSE IF a <= b THEN <<a, b>> ELSE <<b, a>>

\* A `sync` block on one lock or on two objects begins.
Sync(t, frame) ==
    /\ pc[t] = "run"
    /\ Len(frames[t]) < MaxFrames
    /\ frames' = [frames EXCEPT ![t] = Append(@, frame)]
    /\ todo' = [todo EXCEPT ![t] = IF Len(frame) = 1 THEN frame
                                   ELSE PairOrder(frame[1], frame[2])]
    /\ GoTo(t, "ask")
    /\ UNCHANGED <<holder, owner, depth, record, table, aborted>>

\* The first lock of todo is taken or given: the next one, or the program.
Onward(t, place) ==
    /\ todo' = [todo EXCEPT ![t] = Tail(@)]
    /\ GoTo(t, IF Len(todo[t]) > 1 THEN place ELSE "run")

\* object_enter: the thread has the lock of the object and counts.
Enter(t) ==
    LET l == Head(todo[t]) IN
    /\ pc[t] = "ask"
    /\ l \in Objs /\ owner[l] = t
    /\ depth' = [depth EXCEPT ![l] = @ + 1]
    /\ Onward(t, "ask")
    /\ UNCHANGED <<holder, owner, record, table, frames, aborted>>

\* held_already: the thread is on record as the holder of the Mutex.
HeldAlready(t) ==
    /\ pc[t] = "ask"
    /\ Head(todo[t]) \in Mutexes
    /\ Head(todo[t]) \in ToSet(held[t])
    /\ aborted' = TRUE
    /\ UNCHANGED <<holder, owner, depth, record, table, frames, pc, todo>>

\* The order goes on record before the thread waits for the word.
Ask(t) ==
    LET l == Head(todo[t]) IN
    /\ pc[t] = "ask"
    /\ IF l \in Objs THEN owner[l] # t ELSE l \notin ToSet(held[t])
    /\ OrderTake(t, l)
    /\ GoTo(t, "word")
    /\ UNCHANGED <<holder, owner, depth, frames, todo, aborted>>

\* anti_rt_word_lock returns.
Word(t) ==
    LET l == Head(todo[t]) IN
    /\ pc[t] = "word"
    /\ holder[l] = NoThread
    /\ holder' = [holder EXCEPT ![l] = t]
    /\ IF l \in Objs THEN GoTo(t, "own") /\ UNCHANGED todo ELSE Onward(t, "ask")
    /\ UNCHANGED <<owner, depth, record, table, frames, aborted>>

\* object_hold writes owner and depth.
Own(t) ==
    LET l == Head(todo[t]) IN
    /\ pc[t] = "own"
    /\ owner' = [owner EXCEPT ![l] = t]
    /\ depth' = [depth EXCEPT ![l] = 1]
    /\ Onward(t, "ask")
    /\ UNCHANGED <<holder, record, table, frames, aborted>>

-----------------------------------------------------------------------------
(* Giving locks back *)

\* anti_rt_object_unlock_pair gives b and then a, one lock once.
GiveOrder(frame) ==
    IF Len(frame) = 1 \/ frame[1] = frame[2] THEN <<frame[1]>>
    ELSE <<frame[2], frame[1]>>

\* The innermost `sync` block ends.
EndSync(t) ==
    /\ pc[t] = "run"
    /\ frames[t] # <<>>
    /\ frames' = [frames EXCEPT ![t] = Front(@)]
    /\ todo' = [todo EXCEPT ![t] = GiveOrder(Last(frames[t]))]
    /\ GoTo(t, "leave")
    /\ UNCHANGED <<holder, owner, depth, record, table, aborted>>

\* anti_rt_mutex_unlock_at.
UnlockMutex(t) ==
    LET l == Head(todo[t]) IN
    /\ pc[t] = "leave"
    /\ l \in Mutexes
    /\ OrderGive(t, l)
    /\ holder' = [holder EXCEPT ![l] = NoThread]
    /\ Onward(t, "leave")
    /\ UNCHANGED <<owner, depth, table, frames, aborted>>

\* object_leave of a lock that the thread entered more than once.
LeaveInner(t) ==
    LET l == Head(todo[t]) IN
    /\ pc[t] = "leave"
    /\ l \in Objs /\ depth[l] > 1
    /\ depth' = [depth EXCEPT ![l] = @ - 1]
    /\ Onward(t, "leave")
    /\ UNCHANGED <<holder, owner, record, table, frames, aborted>>

\* Mutant: the owner keeps its value when the lock is given back.
LeaveKeepsOwner(t) ==
    LET l == Head(todo[t]) IN
    /\ pc[t] = "leave"
    /\ l \in Objs /\ depth[l] <= 1
    /\ depth' = [depth EXCEPT ![l] = @ - 1]
    /\ GoTo(t, "free")
    /\ UNCHANGED <<holder, owner, record, table, frames, todo, aborted>>

\* object_leave of the last: the owner is cleared while the word is held.
LeaveClear(t) ==
    LET l == Head(todo[t]) IN
    /\ pc[t] = "leave"
    /\ l \in Objs /\ depth[l] <= 1
    /\ depth' = [depth EXCEPT ![l] = @ - 1]
    /\ owner' = [owner EXCEPT ![l] = NoThread]
    /\ GoTo(t, "free")
    /\ UNCHANGED <<holder, record, table, frames, todo, aborted>>

\* object_leave gives the word back, and the lock leaves the stack.
LeaveFree(t) ==
    LET l == Head(todo[t]) IN
    /\ pc[t] = "free"
    /\ holder' = [holder EXCEPT ![l] = NoThread]
    /\ OrderGive(t, l)
    /\ Onward(t, "leave")
    /\ UNCHANGED <<owner, depth, table, frames, aborted>>

-----------------------------------------------------------------------------
(* The end of a lock.  The program ends no lock in use. *)

Unused(l) ==
    \A t \in Threads : /\ \A i \in DOMAIN frames[t] : l \notin ToSet(frames[t][i])
                       /\ l \notin ToSet(todo[t])

\* What is known of the lock that was at l does not concern the next one.
NewLife(l) ==
    /\ taken' = {o \in taken : l \notin ToSet(o)}
    /\ reports' = {r \in reports : l \notin r.pair}

\* anti_rt_mutex_destroy: every order that names the Mutex is forgotten.
Destroy(t, l) ==
    /\ pc[t] = "run"
    /\ Unused(l)
    /\ orders' = {o \in orders : l \notin ToSet(o)}
    /\ reported' = {o \in reported : l \notin ToSet(o)}
    /\ NewLife(l)
    /\ UNCHANGED <<holder, owner, depth, record, frames, pc, todo, aborted>>

\* An object is freed and another is made in its memory.  Nothing of lock.c is
\* called for its hidden lock, whose fields are zero in the new object.
Remake(t, l) ==
    /\ Reuse
    /\ pc[t] = "run"
    /\ Unused(l)
    /\ NewLife(l)
    /\ UNCHANGED <<holder, owner, depth, record, orders, reported, frames, pc,
                   todo, aborted>>

-----------------------------------------------------------------------------
\* The forms of a `sync` block.
Frames == {<<l>> : l \in Locks} \cup {<<a, b>> : a, b \in Objs}

\* What a thread does in and between its blocks.
Inside(t) ==
    \/ Enter(t) \/ HeldAlready(t) \/ Ask(t) \/ Word(t) \/ Own(t)
    \/ EndSync(t) \/ UnlockMutex(t)
    \/ LeaveInner(t) \/ LeaveClear(t) \/ LeaveFree(t)
    \/ \E l \in Mutexes : Destroy(t, l)

Step(t) ==
    \/ \E frame \in Frames : Sync(t, frame)
    \/ Inside(t)
    \/ \E l \in Objs : Remake(t, l)

\* The abort of held_already stops every thread.
Next == ~aborted /\ \E t \in Threads : Step(t)

Spec == Init /\ [][Next]_vars

-----------------------------------------------------------------------------
(* Properties *)

\* The fields have their types, and the array never holds more than HELD_MAX.
TypeOK ==
    /\ holder \in [Locks -> Threads \cup {NoThread}]
    /\ owner \in [Objs -> Threads \cup {NoThread}]
    /\ depth \in [Objs -> 0 .. 2 * MaxFrames]
    /\ \A t \in Threads :
          /\ held[t] \in Seq(Locks) /\ Len(held[t]) <= HeldMax
          /\ heldCount[t] \in 0 .. 2 * MaxFrames
          /\ frames[t] \in Seq(Frames)
          /\ todo[t] \in Seq(Locks)
    /\ reported \subseteq orders /\ orders \subseteq Locks \X Locks
    /\ pc \in [Threads -> Places]
    /\ aborted \in BOOLEAN

\* How many `sync` blocks of t name lock l, with `sync a, a` one of them.
Blocks(t, l) ==
    Cardinality({i \in DOMAIN frames[t] : l \in ToSet(frames[t][i])})

\* A thread in its program holds exactly the locks of the blocks it is in, as
\* deep as it is in them: the unguarded read of owner misleads nobody, and
\* the last block that ends gives the lock back and not an earlier one.
LocksMatchBlocks ==
    \A t \in Threads : pc[t] = "run" =>
        /\ HeldLocks(t) = {l \in Locks : Blocks(t, l) > 0}
        /\ \A l \in Objs : /\ owner[l] = t <=> Blocks(t, l) > 0
                           /\ owner[l] = t => depth[l] = Blocks(t, l)

\* The stack of a thread in its program counts the locks it holds and names
\* only such locks, also after a `sync a, b` that crossed HELD_MAX and gave its
\* locks back in the order it took them: held_already stops no thread that does
\* not hold the Mutex.
RecordTrue ==
    \A t \in Threads : pc[t] = "run" =>
        /\ heldCount[t] = Cardinality(HeldLocks(t))
        /\ ToSet(held[t]) \subseteq HeldLocks(t)
        /\ Len(held[t]) = IF heldCount[t] < HeldMax THEN heldCount[t]
                          ELSE HeldMax

\* Thread t waits for a lock that u holds.
WaitsFor(t, u) == pc[t] = "word" /\ holder[Head(todo[t])] = u

\* Two threads that wait for each other were reported before, as long as no
\* stack is past HELD_MAX.
DeadlockReported ==
    \A t, u \in Threads :
        (/\ t # u /\ WaitsFor(t, u) /\ WaitsFor(u, t)
         /\ heldCount[t] <= HeldMax /\ heldCount[u] <= HeldMax)
            => \E r \in reports : r.pair = {Head(todo[t]), Head(todo[u])}

\* A pair of locks is reported once, whichever order runs again.
ReportedOnce == \A r \in reports : ~r.again

\* A report is true: the two locks it names, and not two that were at their
\* addresses before, were taken in opposite orders.
ReportsTrue == \A r \in reports : r.true

\* The record of lock.c is right past HELD_MAX, after frees and after reports: it
\* names the locks a thread holds, and what it reports is true and said once.
RecordSound == TypeOK /\ RecordTrue /\ ReportsTrue /\ ReportedOnce

\* Threads that each stand in one block at most never wait in a cycle, so
\* `sync a, b` against `sync b, a` cannot deadlock.
NoWaitCycle ==
    \A group \in (SUBSET {t \in Threads : Len(frames[t]) <= 1}) \ {{}} :
        \E t \in group : \A u \in group : ~WaitsFor(t, u)
==============================================================================
