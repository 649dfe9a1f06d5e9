------------------------------- MODULE SpscRing -------------------------------
(* anti.collection.SpscRing: a ring of N slots between one producing and one   *)
(* consuming thread, with no lock.  The load or store of a counter is a step,   *)
(* and so is the work on the slots between two of them.  Elements are numbered  *)
(* in the order of their pushes, 0 is a slot without one.                       *)
EXTENDS Integers

CONSTANTS
    N,         \* the slots
    MaxPush    \* bound on the pushes

ASSUME RingAssumption == N \in Nat \ {0} /\ MaxPush \in Nat

VARIABLES
    room,                  \* the room
    given, taken,          \* the atomic counters
    takenSeen, givenSeen,  \* what each side last read of the other's counter
    producer, consumer,    \* where the two threads are
    pushed,                \* the pushes so far
    inside                 \* the elements the ring should hold: history

ringVars == <<room, given, taken, takenSeen, givenSeen, producer, consumer,
              pushed, inside>>

Rest == [at |-> "rest"]

RingInit ==
    /\ room = [s \in 0 .. N - 1 |-> 0]
    /\ given = 0 /\ taken = 0 /\ takenSeen = 0 /\ givenSeen = 0
    /\ producer = "rest" /\ consumer = Rest
    /\ pushed = 0 /\ inside = {}

-----------------------------------------------------------------------------
(* The producer. *)

\* push finds room by the copy of taken, or reads taken again.
PushBegin ==
    /\ producer = "rest" /\ pushed < MaxPush
    /\ producer' = IF given - takenSeen >= N THEN "reload" ELSE "write"
    /\ UNCHANGED <<room, given, taken, takenSeen, givenSeen, consumer, pushed,
                   inside>>

\* A full ring gives false.
PushReload ==
    /\ producer = "reload"
    /\ takenSeen' = taken
    /\ producer' = IF given - taken >= N THEN "rest" ELSE "write"
    /\ UNCHANGED <<room, given, taken, givenSeen, consumer, pushed, inside>>

PushWrite ==
    /\ producer = "write"
    /\ room' = [room EXCEPT ![given % N] = pushed + 1]
    /\ producer' = "store"
    /\ UNCHANGED <<given, taken, takenSeen, givenSeen, consumer, pushed, inside>>

PushStore ==
    /\ producer = "store"
    /\ given' = given + 1
    /\ pushed' = pushed + 1
    /\ inside' = inside \cup {pushed + 1}
    /\ producer' = "rest"
    /\ UNCHANGED <<room, taken, takenSeen, givenSeen, consumer>>

-----------------------------------------------------------------------------
(* The consumer. *)

PopBegin ==
    /\ consumer = Rest
    /\ consumer' = [at |-> IF taken = givenSeen THEN "reload" ELSE "take"]
    /\ UNCHANGED <<room, given, taken, takenSeen, givenSeen, producer, pushed,
                   inside>>

\* An empty ring gives none.
PopReload ==
    /\ consumer.at = "reload"
    /\ givenSeen' = given
    /\ consumer' = IF taken = given THEN Rest ELSE [at |-> "take"]
    /\ UNCHANGED <<room, given, taken, takenSeen, producer, pushed, inside>>

\* take moves the element out and leaves the slot zero.  The oldest is to go.
PopTake ==
    /\ consumer.at = "take"
    /\ room' = [room EXCEPT ![taken % N] = 0]
    /\ inside' = {e \in inside : \E older \in inside : older < e}
    /\ consumer' = [at |-> "store", head |-> taken + 1]
    /\ UNCHANGED <<given, taken, takenSeen, givenSeen, producer, pushed>>

\* Mutant: the view reaches over the whole room.
ViewWide ==
    /\ consumer = Rest
    /\ givenSeen' = given
    /\ consumer' = [at |-> "view", head |-> taken, tail |-> taken + N]
    /\ UNCHANGED <<room, given, taken, takenSeen, producer, pushed, inside>>

\* elements: the positions from taken up to given as it is now.
View ==
    /\ consumer = Rest
    /\ givenSeen' = given
    /\ consumer' = [at |-> "view", head |-> taken, tail |-> given]
    /\ UNCHANGED <<room, given, taken, takenSeen, producer, pushed, inside>>

\* take_place: the elements before the position move one slot on.
TakePlace(place) ==
    [s \in 0 .. N - 1 |->
       LET into == {p \in consumer.head .. place : p % N = s} IN
       IF into = {} THEN room[s]
       ELSE LET p == CHOOSE p \in into : TRUE IN
            IF p = consumer.head THEN 0 ELSE room[(p - 1) % N]]

\* remove_first and remove_one: one element of the view goes.
RemoveOne ==
    /\ consumer.at = "view"
    /\ \E place \in consumer.head .. consumer.tail - 1 :
          /\ room' = TakePlace(place)
          /\ inside' = inside \ {room[place % N]}
    /\ consumer' = [at |-> "store", head |-> consumer.head + 1]
    /\ UNCHANGED <<given, taken, takenSeen, givenSeen, producer, pushed>>

\* One turn of Held.remove_all: the element at p goes, or moves up to the last one
\* that stays.
Turn(done, p, gone) ==
    LET to == done.keep - 1 IN
    IF done.slots[p % N] \in gone
    THEN [keep |-> done.keep, slots |-> [done.slots EXCEPT ![p % N] = 0]]
    ELSE IF to = p THEN [keep |-> to, slots |-> done.slots]
    ELSE [keep |-> to,
          slots |-> [done.slots EXCEPT ![to % N] = done.slots[p % N], ![p % N] = 0]]

\* Held.remove_all: from the newest down.
Compact(gone) ==
    LET Turns[i \in 0 .. consumer.tail - consumer.head] ==
            IF i = 0 THEN [keep |-> consumer.tail, slots |-> room]
            ELSE Turn(Turns[i - 1], consumer.tail - i, gone)
    IN Turns[consumer.tail - consumer.head]

\* remove_all and, for every element, clear.
RemoveSome ==
    /\ consumer.at = "view"
    /\ \E gone \in SUBSET {room[p % N] : p \in consumer.head .. consumer.tail - 1} :
          /\ room' = Compact(gone).slots
          /\ inside' = inside \ gone
          /\ consumer' = [at |-> "store", head |-> Compact(gone).keep]
    /\ UNCHANGED <<given, taken, takenSeen, givenSeen, producer, pushed>>

\* The calls that only look: peek, iter, the find forms, to_text.
Look ==
    /\ consumer.at = "view"
    /\ consumer' = Rest
    /\ UNCHANGED <<room, given, taken, takenSeen, givenSeen, producer, pushed,
                   inside>>

\* The counter follows what was taken.
TakenStore ==
    /\ consumer.at = "store"
    /\ taken' = consumer.head
    /\ consumer' = Rest
    /\ UNCHANGED <<room, given, takenSeen, givenSeen, producer, pushed, inside>>

\* copy, and the program goes on with the copy, which no producer uses yet.
CopyRing ==
    LET n == consumer.tail - consumer.head IN
    /\ consumer.at = "view"
    /\ room' = [s \in 0 .. N - 1 |->
                   IF s < n THEN room[(consumer.head + s) % N] ELSE 0]
    /\ given' = n /\ taken' = 0 /\ takenSeen' = 0 /\ givenSeen' = 0
    /\ inside' = {room[p % N] : p \in consumer.head .. consumer.tail - 1}
    /\ producer' = "rest" /\ consumer' = Rest
    /\ UNCHANGED pushed

-----------------------------------------------------------------------------
Push == PushBegin \/ PushReload \/ PushWrite \/ PushStore
Consume == \/ PopBegin \/ PopReload \/ PopTake \/ View \/ RemoveOne
           \/ RemoveSome \/ Look \/ TakenStore \/ CopyRing

RingNext == Push \/ Consume

RingSpec == RingInit /\ [][RingNext]_ringVars

-----------------------------------------------------------------------------
(* Properties *)

RingTypeOK ==
    /\ room \in [0 .. N - 1 -> 0 .. MaxPush]
    /\ producer \in {"rest", "reload", "write", "store"}
    /\ pushed \in 0 .. MaxPush /\ inside \in SUBSET (1 .. pushed)
    /\ takenSeen \in 0 .. taken /\ givenSeen \in taken .. given

\* The position of the oldest element, past what is out and not yet stored.
Oldest == IF consumer.at = "store" THEN consumer.head ELSE taken

\* The slots hold what was pushed and not taken, each element once and in order,
\* after removals from the middle, with the counters running past N, and in a copy.
RingHolds ==
    /\ {room[p % N] : p \in Oldest .. given - 1} = inside
    /\ \A p, q \in Oldest .. given - 1 : p < q => room[p % N] < room[q % N]

\* The slots the consumer is about to read or move.
Touched ==
    CASE consumer.at = "take" -> {taken % N}
      [] consumer.at = "view" -> {p % N : p \in consumer.head .. consumer.tail - 1}
      [] OTHER -> {}

\* The producer writes no slot that the consumer works on, though each decides
\* by a copy of the other's counter that may be old.
SlotsApart == producer = "write" => given % N \notin Touched

\* A slot without an element is zero, so nothing is torn down twice: neither the
\* destruct of the ring nor a push finds an element that was moved out.
NoGhost ==
    \A s \in 0 .. N - 1 :
        \/ room[s] = 0
        \/ \E p \in Oldest .. given - 1 : p % N = s
        \/ producer = "store" /\ s = given % N

\* The ring loses, doubles and tears down nothing while both sides work on it:
\* each element is in one slot, and no slot is in use on both sides.
RingSound == RingTypeOK /\ RingHolds /\ SlotsApart /\ NoGhost
==============================================================================
