-------------------------- MODULE ObjectLocksProofs --------------------------
(***************************************************************************)
(* Proofs about the locks of objects and the Mutex for any threads, locks  *)
(* and depth of blocks.                                                    *)
(*                                                                         *)
(* LocksMatchBlocks speaks of a thread in its program alone.  While a      *)
(* thread is in the middle of taking or of giving the locks of a block,    *)
(* what it should have is what its blocks say, less what it has not taken  *)
(* yet, or with what it has not given back yet: Want.  That the word, the  *)
(* owner and the depth agree with Want at every step is inductive.         *)
(***************************************************************************)
EXTENDS ObjectLocks, FiniteSetTheorems, SequenceTheorems, WellFoundedInduction,
        TLAPS

Taking == {"ask", "word", "own"}
Giving == {"leave", "free"}

\* How many of the blocks f name l, and that less or more what is under way.
Count(f, l) == Cardinality({i \in DOMAIN f : l \in ToSet(f[i])})

Due(f, d, p, l) ==
    IF l \notin ToSet(d) THEN Count(f, l)
    ELSE IF p \in Taking THEN Count(f, l) - 1 ELSE Count(f, l) + 1

Want(t, l) == Due(frames[t], todo[t], pc[t], l)

\* What is left to take of a block on the locks of set, in the order of the
\* addresses, and what is left to give.
LeftToTake(set, d) ==
    \/ \E a \in Locks : set = {a} /\ d = <<a>>
    \/ \E a, b \in Objs : a < b /\ set = {a, b} /\ (d = <<a, b>> \/ d = <<b>>)

LeftToGive(d) ==
    \/ \E a \in Locks : d = <<a>>
    \/ \E a, b \in Objs : a # b /\ d = <<a, b>>

Shape(f, d, p) ==
    /\ p = "run" => d = <<>>
    /\ p \in Taking => f # <<>> /\ LeftToTake(ToSet(Last(f)), d)
    /\ p \in Giving => LeftToGive(d)
    /\ p \in {"own", "free"} => Head(d) \in Objs

LockTypes ==
    /\ holder \in [Locks -> Threads \cup {NoThread}]
    /\ owner \in [Objs -> Threads \cup {NoThread}]
    /\ depth \in [Objs -> Nat]
    /\ frames \in [Threads -> Seq(Frames)]
    /\ todo \in [Threads -> Seq(Locks)]
    /\ pc \in [Threads -> Places]

Shapes == \A t \in Threads : Shape(frames[t], todo[t], pc[t])

\* The word of a lock is held by who should have it, or is about to own it.
WordsMatch(t) ==
    \A l \in Locks :
        holder[l] = t <=> Want(t, l) > 0 \/ (pc[t] = "own" /\ l = Head(todo[t]))

\* The owner and the depth of an object follow, between their two writes.
OwnersMatch(t) ==
    \A l \in Objs :
        /\ owner[l] = t <=> Want(t, l) > 0 /\ ~(pc[t] = "free" /\ l = Head(todo[t]))
        /\ owner[l] = t => depth[l] = Want(t, l)
        /\ pc[t] \in {"word", "own"} /\ l = Head(todo[t]) => Want(t, l) = 0
        /\ pc[t] = "free" /\ l = Head(todo[t]) => Want(t, l) = 1

\* No thread has a Mutex twice.
MutexOnce(t) == \A l \in Mutexes : Want(t, l) <= 1

Matches(t) ==
    /\ Shape(frames[t], todo[t], pc[t])
    /\ WordsMatch(t) /\ OwnersMatch(t) /\ MutexOnce(t)

LockInv == LockTypes /\ \A t \in Threads : Matches(t)

-----------------------------------------------------------------------------
(* Sequences of one, of two and of blocks. *)

LEMMA ToSetOf ==
  /\ ToSet(<<>>) = {}
  /\ \A a : ToSet(<<a>>) = {a}
  /\ \A a, b : ToSet(<<a, b>>) = {a, b}
  BY DEF ToSet

LEMMA TupleSeq ==
  /\ \A a \in Locks : <<a>> \in Seq(Locks)
  /\ \A a, b \in Locks : <<a, b>> \in Seq(Locks)
  OBVIOUS

LEMMA FrontOf ==
  ASSUME NEW F, NEW f \in Seq(F), f # <<>>
  PROVE  /\ Len(f) \in Nat \ {0} /\ Last(f) \in F
         /\ Front(f) \in Seq(F) /\ Len(Front(f)) = Len(f) - 1
         /\ \A i \in 1 .. Len(f) - 1 : Front(f)[i] = f[i]
<1> DEFINE m == Len(f) - 1
<1>1. Len(f) \in Nat \ {0} /\ m \in Int /\ 1 <= m + 1 /\ \A i \in 1 .. m : f[i] \in F
  OBVIOUS
<1>2. Last(f) \in F
  BY <1>1 DEF Last
<1> HIDE DEF m
<1>3. /\ SubSeq(f, 1, m) \in Seq(F)
      /\ Len(SubSeq(f, 1, m)) = IF 1 <= m THEN m - 1 + 1 ELSE 0
      /\ \A i \in 1 .. m - 1 + 1 : SubSeq(f, 1, m)[i] = f[1 + i - 1]
  BY <1>1, SubSeqProperties
<1>4. /\ SubSeq(f, 1, m) \in Seq(F) /\ Len(SubSeq(f, 1, m)) = m
      /\ \A i \in 1 .. m : SubSeq(f, 1, m)[i] = f[i]
  BY <1>1, <1>3
<1> QED
  BY <1>1, <1>2, <1>4 DEF Front, m

LEMMA CountNat ==
  ASSUME NEW F, NEW f \in Seq(F), NEW l
  PROVE  Count(f, l) \in Nat
<1> DEFINE A == {i \in DOMAIN f : l \in ToSet(f[i])}
<1>1. Len(f) \in Nat /\ A \in SUBSET (1 .. Len(f))
  OBVIOUS
<1>2. IsFiniteSet(1 .. Len(f))
  BY <1>1, FS_Interval
<1> QED
  BY <1>1, <1>2, FS_Subset, FS_CardinalityType DEF Count

LEMMA CountAppend ==
  ASSUME NEW F, NEW f \in Seq(F), NEW x \in F, NEW l
  PROVE  /\ Count(f, l) \in Nat
         /\ Count(Append(f, x), l) = IF l \in ToSet(x) THEN Count(f, l) + 1
                                     ELSE Count(f, l)
<1> DEFINE n == Len(f)
           A == {i \in DOMAIN f : l \in ToSet(f[i])}
           B == {i \in DOMAIN Append(f, x) : l \in ToSet(Append(f, x)[i])}
<1>1. /\ n \in Nat /\ DOMAIN f = 1 .. n /\ DOMAIN Append(f, x) = 1 .. n + 1
      /\ \A i \in 1 .. n : Append(f, x)[i] = f[i]
      /\ Append(f, x)[n + 1] = x
  OBVIOUS
<1>2. IsFiniteSet(A) /\ Cardinality(A) \in Nat
  <2>1. IsFiniteSet(1 .. n)
    BY <1>1, FS_Interval
  <2>2. A \in SUBSET (1 .. n)
    BY <1>1
  <2> QED
    BY <2>1, <2>2, FS_Subset, FS_CardinalityType
<1>3. n + 1 \notin A
  BY <1>1
<1>4. B = IF l \in ToSet(x) THEN A \cup {n + 1} ELSE A
  BY <1>1
<1>5. Cardinality(A \cup {n + 1}) = Cardinality(A) + 1
  BY <1>2, <1>3, FS_AddElement
<1> QED
  BY <1>2, <1>4, <1>5 DEF Count

LEMMA CountFront ==
  ASSUME NEW F, NEW f \in Seq(F), f # <<>>, NEW l
  PROVE  /\ Front(f) \in Seq(F) /\ Last(f) \in F
         /\ Count(Front(f), l) \in Nat
         /\ Count(f, l) = IF l \in ToSet(Last(f)) THEN Count(Front(f), l) + 1
                          ELSE Count(Front(f), l)
<1> DEFINE g == Front(f)
           x == Last(f)
<1>1. Len(f) \in Nat /\ Len(f) # 0
  OBVIOUS
<1>2. /\ g \in Seq(F) /\ Len(g) = Len(f) - 1
      /\ \A i \in 1 .. Len(f) - 1 : g[i] = f[i]
  BY FrontOf
<1>3. x \in F
  BY FrontOf
<1>4. f = Append(g, x)
  <2>1. Append(g, x) \in Seq(F) /\ Len(Append(g, x)) = Len(f)
        /\ \A i \in 1 .. Len(f) : Append(g, x)[i] = f[i]
    <3> HIDE DEF g
    <3> QED
      BY <1>1, <1>2, <1>3 DEF Last
  <2> HIDE DEF g, x
  <2> QED
    BY <2>1, SeqEqual
<1> HIDE DEF g, x
<1>5. Count(g, l) \in Nat /\ Count(Append(g, x), l) =
         IF l \in ToSet(x) THEN Count(g, l) + 1 ELSE Count(g, l)
  BY <1>2, <1>3, CountAppend
<1> QED
  BY <1>2, <1>3, <1>4, <1>5 DEF g, x

-----------------------------------------------------------------------------
(* What is due of a lock as the call goes on. *)

\* The call has taken the first lock that is left, and q is the next place.
LEMMA DueTake ==
  ASSUME NEW f \in Seq(Frames), NEW d, NEW p \in Taking, NEW q, NEW set,
         LeftToTake(set, d), q = IF Len(d) > 1 THEN "ask" ELSE "run"
  PROVE  /\ Head(d) \in Locks /\ Tail(d) \in Seq(Locks)
         /\ q = "run" => Tail(d) = <<>>
         /\ q # "run" => LeftToTake(set, Tail(d))
         /\ \A l : Due(f, Tail(d), q, l) =
                      IF l = Head(d) THEN Due(f, d, p, l) + 1 ELSE Due(f, d, p, l)
<1>1. \A l : Count(f, l) \in Nat
  BY CountNat
<1>2. CASE \E a \in Locks : d = <<a>>
  <2> PICK a \in Locks : d = <<a>>
    BY <1>2
  <2>1. Head(d) = a /\ Tail(d) = <<>> /\ Len(d) = 1 /\ q = "run"
    OBVIOUS
  <2>2. ToSet(d) = {a} /\ ToSet(Tail(d)) = {}
    BY <2>1, ToSetOf
  <2> QED
    BY <1>1, <2>1, <2>2 DEF Due
<1>3. CASE \E a, b \in Objs : a < b /\ set = {a, b} /\ d = <<a, b>>
  <2> PICK a \in Objs, b \in Objs : a < b /\ set = {a, b} /\ d = <<a, b>>
    BY <1>3
  <2>1. /\ Head(d) = a /\ Tail(d) = <<b>> /\ Len(d) = 2 /\ q = "ask" /\ a # b
        /\ a \in Locks /\ b \in Locks /\ Tail(d) \in Seq(Locks)
    BY LocksAssumption DEF Locks
  <2>2. ToSet(d) = {a, b} /\ ToSet(Tail(d)) = {b}
    BY <2>1, ToSetOf
  <2>3. LeftToTake(set, Tail(d))
    BY <2>1 DEF LeftToTake
  <2>4. \A l : Due(f, Tail(d), q, l) =
                 IF l = Head(d) THEN Due(f, d, p, l) + 1 ELSE Due(f, d, p, l)
    BY <1>1, <2>1, <2>2 DEF Due, Taking
  <2> QED
    BY <2>1, <2>3, <2>4
<1> QED
  BY <1>2, <1>3 DEF LeftToTake, Locks

LEMMA DueGive ==
  ASSUME NEW f \in Seq(Frames), NEW d, NEW p \in Giving, NEW q,
         LeftToGive(d), q = IF Len(d) > 1 THEN "leave" ELSE "run"
  PROVE  /\ Head(d) \in Locks /\ Tail(d) \in Seq(Locks)
         /\ q = "run" => Tail(d) = <<>>
         /\ q # "run" => LeftToGive(Tail(d))
         /\ \A l : Due(f, Tail(d), q, l) =
                      IF l = Head(d) THEN Due(f, d, p, l) - 1 ELSE Due(f, d, p, l)
         /\ Due(f, d, p, Head(d)) >= 1
<1>1. \A l : Count(f, l) \in Nat
  BY CountNat
<1>2. CASE \E a \in Locks : d = <<a>>
  <2> PICK a \in Locks : d = <<a>>
    BY <1>2
  <2>1. Head(d) = a /\ Tail(d) = <<>> /\ Len(d) = 1 /\ q = "run"
    OBVIOUS
  <2>2. ToSet(d) = {a} /\ ToSet(Tail(d)) = {}
    BY <2>1, ToSetOf
  <2> QED
    BY <1>1, <2>1, <2>2 DEF Due, Taking, Giving
<1>3. CASE \E a, b \in Objs : a # b /\ d = <<a, b>>
  <2> PICK a \in Objs, b \in Objs : a # b /\ d = <<a, b>>
    BY <1>3
  <2>1. /\ Head(d) = a /\ Tail(d) = <<b>> /\ Len(d) = 2 /\ q = "leave" /\ a # b
        /\ a \in Locks /\ b \in Locks /\ Tail(d) \in Seq(Locks)
    BY DEF Locks
  <2>2. ToSet(d) = {a, b} /\ ToSet(Tail(d)) = {b}
    BY <2>1, ToSetOf
  <2>3. LeftToGive(Tail(d))
    BY <2>1 DEF LeftToGive
  <2>4. /\ \A l : Due(f, Tail(d), q, l) =
                    IF l = Head(d) THEN Due(f, d, p, l) - 1 ELSE Due(f, d, p, l)
        /\ Due(f, d, p, Head(d)) >= 1
    BY <1>1, <2>1, <2>2 DEF Due, Taking, Giving
  <2> QED
    BY <2>1, <2>3, <2>4
<1> QED
  BY <1>2, <1>3 DEF LeftToGive

\* A block begins: the locks it names are to be taken.
LEMMA DueSync ==
  ASSUME NEW f \in Seq(Frames), NEW x \in Frames, NEW d,
         d = IF Len(x) = 1 THEN x ELSE PairOrder(x[1], x[2])
  PROVE  /\ d \in Seq(Locks) /\ Append(f, x) # <<>>
         /\ LeftToTake(ToSet(Last(Append(f, x))), d)
         /\ \A l : Due(Append(f, x), d, "ask", l) = Count(f, l)
<1>1. \A l : /\ Count(f, l) \in Nat
             /\ Count(Append(f, x), l) = IF l \in ToSet(x) THEN Count(f, l) + 1
                                         ELSE Count(f, l)
  BY CountAppend
<1>2. Last(Append(f, x)) = x /\ Append(f, x) # <<>>
  BY DEF Last
<1>3. d \in Seq(Locks) /\ ToSet(d) = ToSet(x) /\ LeftToTake(ToSet(x), d)
  <2>1. CASE \E a \in Locks : x = <<a>>
    <3> PICK a \in Locks : x = <<a>>
      BY <2>1
    <3>1. d = <<a>> /\ ToSet(x) = {a}
      BY ToSetOf
    <3> QED
      BY <3>1 DEF LeftToTake
  <2>2. CASE \E a, b \in Objs : x = <<a, b>>
    <3> PICK a \in Objs, b \in Objs : x = <<a, b>>
      BY <2>2
    <3>1. Len(x) = 2 /\ x[1] = a /\ x[2] = b
      OBVIOUS
    <3>2. d = PairOrder(a, b) /\ ToSet(x) = {a, b}
      BY <3>1, ToSetOf
    <3>3. a \in Nat /\ b \in Nat /\ a \in Locks /\ b \in Locks
      BY LocksAssumption DEF Locks
    <3>4. CASE a = b
      <4>1. d = <<a>> /\ ToSet(x) = {a} /\ ToSet(d) = {a}
        BY <3>2, <3>4, ToSetOf DEF PairOrder
      <4>2. d \in Seq(Locks)
        BY <3>3, <4>1, TupleSeq
      <4>3. LeftToTake({a}, d)
        BY <3>3, <4>1 DEF LeftToTake
      <4> QED
        BY <4>1, <4>2, <4>3
    <3>5. CASE a < b
      <4>1. d = <<a, b>> /\ ToSet(d) = {a, b}
        BY <3>2, <3>3, <3>5, ToSetOf DEF PairOrder
      <4>2. d \in Seq(Locks)
        BY <3>3, <4>1, TupleSeq
      <4>3. LeftToTake({a, b}, d)
        BY <3>5, <4>1 DEF LeftToTake
      <4> QED
        BY <3>2, <4>1, <4>2, <4>3
    <3>6. CASE b < a
      <4>1. d = <<b, a>> /\ ToSet(d) = {b, a}
        BY <3>2, <3>3, <3>6, ToSetOf DEF PairOrder
      <4>2. ToSet(x) = {b, a}
        BY <3>2
      <4>3. d \in Seq(Locks)
        BY <3>3, <4>1, TupleSeq
      <4>4. LeftToTake({b, a}, d)
        BY <3>6, <4>1 DEF LeftToTake
      <4> QED
        BY <4>1, <4>2, <4>3, <4>4
    <3> QED
      BY <3>3, <3>4, <3>5, <3>6
  <2> QED
    BY <2>1, <2>2 DEF Frames
<1>4. "ask" \in Taking
  BY DEF Taking
<1> QED
  BY <1>1, <1>2, <1>3, <1>4 DEF Due

\* A block ends: the locks it names are to be given.
LEMMA DueEnd ==
  ASSUME NEW f \in Seq(Frames), f # <<>>
  PROVE  /\ Front(f) \in Seq(Frames)
         /\ GiveOrder(Last(f)) \in Seq(Locks) /\ LeftToGive(GiveOrder(Last(f)))
         /\ \A l : Due(Front(f), GiveOrder(Last(f)), "leave", l) = Count(f, l)
<1> DEFINE x == Last(f)
           d == GiveOrder(x)
<1>1. /\ Front(f) \in Seq(Frames) /\ x \in Frames
      /\ \A l : /\ Count(Front(f), l) \in Nat
                /\ Count(f, l) = IF l \in ToSet(x) THEN Count(Front(f), l) + 1
                                 ELSE Count(Front(f), l)
  BY CountFront, FrontOf
<1> HIDE DEF x
<1>2. d \in Seq(Locks) /\ ToSet(d) = ToSet(x) /\ LeftToGive(d)
  <2>1. CASE \E a \in Locks : x = <<a>>
    <3> PICK a \in Locks : x = <<a>>
      BY <2>1
    <3>1. d = <<a>> /\ ToSet(x) = {a}
      BY ToSetOf DEF GiveOrder
    <3> HIDE DEF d
    <3>2. d \in Seq(Locks) /\ ToSet(d) = {a}
      BY <3>1, ToSetOf, TupleSeq
    <3>3. LeftToGive(d)
      BY <3>1 DEF LeftToGive
    <3> QED
      BY <3>1, <3>2, <3>3
  <2>2. CASE \E a, b \in Objs : x = <<a, b>>
    <3> PICK a \in Objs, b \in Objs : x = <<a, b>>
      BY <2>2
    <3>1. Len(x) = 2 /\ x[1] = a /\ x[2] = b /\ a \in Locks /\ b \in Locks
      BY DEF Locks
    <3>2. d = (IF a = b THEN <<a>> ELSE <<b, a>>) /\ ToSet(x) = {a, b}
      BY <3>1, ToSetOf DEF GiveOrder
    <3> HIDE DEF d
    <3>3. CASE a = b
      <4>1. d = <<a>> /\ ToSet(d) = {a} /\ ToSet(x) = {a}
        BY <3>2, <3>3, ToSetOf
      <4>2. d \in Seq(Locks)
        BY <3>1, <4>1
      <4>3. LeftToGive(d)
        BY <3>1, <4>1 DEF LeftToGive
      <4> QED
        BY <4>1, <4>2, <4>3
    <3>4. CASE a # b
      <4>1. d = <<b, a>> /\ ToSet(d) = {b, a}
        BY <3>2, <3>4, ToSetOf
      <4>2. d \in Seq(Locks)
        BY <3>1, <4>1
      <4>3. LeftToGive(d)
        BY <3>4, <4>1 DEF LeftToGive
      <4> QED
        BY <3>2, <4>1, <4>2, <4>3
    <3> QED
      BY <3>3, <3>4
  <2> QED
    BY <1>1, <2>1, <2>2 DEF Frames
<1>3. "leave" \notin Taking
  BY DEF Taking
<1> HIDE DEF d
<1>4. \A l : Due(Front(f), d, "leave", l) = Count(f, l)
  BY <1>1, <1>2, <1>3 DEF Due
<1> QED
  BY <1>1, <1>2, <1>4 DEF d, x

-----------------------------------------------------------------------------
(* One thread moves. *)

OthersKeep(t) ==
    \A u \in Threads \ {t} :
        frames'[u] = frames[u] /\ todo'[u] = todo[u] /\ pc'[u] = pc[u]

\* What t did to the locks does not concern the other threads.
OthersLocks(t) ==
    \A u \in Threads \ {t} :
        /\ \A l \in Locks : holder'[l] = u <=> holder[l] = u
        /\ \A l \in Objs : /\ owner'[l] = u <=> owner[l] = u
                           /\ owner[l] = u => depth'[l] = depth[l]

LEMMA KeepInv ==
  ASSUME LockInv, NEW t \in Threads, OthersKeep(t), OthersLocks(t),
         LockTypes', Matches(t)'
  PROVE  LockInv'
<1>1. ASSUME NEW u \in Threads \ {t} PROVE Matches(u)'
  <2>1. Matches(u)
    BY DEF LockInv
  <2>2. \A l : Want(u, l)' = Want(u, l)
    BY DEF Want, OthersKeep
  <2>3. frames'[u] = frames[u] /\ todo'[u] = todo[u] /\ pc'[u] = pc[u]
    BY DEF OthersKeep
  <2>4. WordsMatch(u)'
    BY <2>1, <2>2, <2>3 DEF Matches, WordsMatch, OthersLocks
  <2>5. OwnersMatch(u)'
    BY <2>1, <2>2, <2>3 DEF Matches, OwnersMatch, OthersLocks
  <2>6. MutexOnce(u)'
    BY <2>1, <2>2 DEF Matches, MutexOnce
  <2> QED
    BY <2>1, <2>3, <2>4, <2>5, <2>6 DEF Matches
<1> QED
  BY <1>1 DEF LockInv

\* What should be held is a number.
LEMMA WantNat ==
  ASSUME LockInv, NEW t \in Threads, NEW l
  PROVE  Want(t, l) \in Nat
<1> DEFINE f == frames[t]
           d == todo[t]
           p == pc[t]
<1>1. f \in Seq(Frames) /\ p \in Places /\ Shape(f, d, p)
  BY DEF LockInv, LockTypes, Matches
<1> HIDE DEF f, d, p
<1>2. Count(f, l) \in Nat
  BY <1>1, CountNat
<1>3. ASSUME p \in Taking, l \in ToSet(d) PROVE Count(f, l) >= 1
  <2>1. f # <<>> /\ LeftToTake(ToSet(Last(f)), d)
    BY <1>1, <1>3 DEF Shape
  <2>2. l \in ToSet(Last(f))
    BY <1>3, <2>1, ToSetOf DEF LeftToTake
  <2>3. /\ Count(Front(f), l) \in Nat
        /\ Count(f, l) = IF l \in ToSet(Last(f)) THEN Count(Front(f), l) + 1
                         ELSE Count(Front(f), l)
    BY <1>1, <2>1, CountFront
  <2> QED
    BY <2>2, <2>3
<1>4. Due(f, d, p, l) \in Nat
  BY <1>2, <1>3 DEF Due
<1> QED
  BY <1>4 DEF Want, f, d, p

\* The first lock of todo is taken.
LEMMA OnwardTake ==
  ASSUME LockInv, NEW t \in Threads, pc[t] \in Taking, Onward(t, "ask"),
         frames' = frames
  PROVE  /\ OthersKeep(t) /\ pc'[t] \in {"ask", "run"}
         /\ todo' \in [Threads -> Seq(Locks)] /\ pc' \in [Threads -> Places]
         /\ Shape(frames[t], todo[t], pc[t])'
         /\ Head(todo[t]) \in Locks
         /\ \A l : Want(t, l)' = IF l = Head(todo[t]) THEN Want(t, l) + 1
                                 ELSE Want(t, l)
<1> DEFINE f == frames[t]
           d == todo[t]
           p == pc[t]
           q == IF Len(d) > 1 THEN "ask" ELSE "run"
<1>1. /\ frames \in [Threads -> Seq(Frames)] /\ todo \in [Threads -> Seq(Locks)]
      /\ pc \in [Threads -> Places] /\ Shape(f, d, p)
  BY DEF LockInv, LockTypes, Matches
<1>2. todo'[t] = Tail(d) /\ pc'[t] = q /\ OthersKeep(t)
  BY <1>1 DEF Onward, GoTo, OthersKeep
<1>3. LeftToTake(ToSet(Last(f)), d) /\ f # <<>> /\ f \in Seq(Frames)
  BY <1>1 DEF Shape
<1>4. p \in Taking
  OBVIOUS
<1>5. q \in {"ask", "run"} /\ q = IF Len(d) > 1 THEN "ask" ELSE "run"
  OBVIOUS
<1> HIDE DEF f, d, p, q
<1>6. /\ Head(d) \in Locks /\ Tail(d) \in Seq(Locks)
      /\ q = "run" => Tail(d) = <<>>
      /\ q # "run" => LeftToTake(ToSet(Last(f)), Tail(d))
      /\ \A l : Due(f, Tail(d), q, l) =
                   IF l = Head(d) THEN Due(f, d, p, l) + 1 ELSE Due(f, d, p, l)
  BY <1>3, <1>4, <1>5, DueTake
<1>7. Shape(f, Tail(d), q)
  BY <1>3, <1>5, <1>6 DEF Shape, Taking, Giving
<1>8. todo' \in [Threads -> Seq(Locks)] /\ pc' \in [Threads -> Places]
  <2>1. todo' = [todo EXCEPT ![t] = Tail(d)] /\ pc' = [pc EXCEPT ![t] = q]
    BY DEF Onward, GoTo, d, q
  <2>2. q \in Places
    BY <1>5 DEF Places
  <2> QED
    BY <1>1, <1>6, <2>1, <2>2
<1>9. frames'[t] = f
  BY DEF f
<1> QED
  BY <1>2, <1>5, <1>6, <1>7, <1>8, <1>9 DEF Want, f, d, p

\* The first lock of todo is given.
LEMMA OnwardGive ==
  ASSUME LockInv, NEW t \in Threads, pc[t] \in Giving, Onward(t, "leave"),
         frames' = frames
  PROVE  /\ OthersKeep(t) /\ pc'[t] \in {"leave", "run"}
         /\ todo' \in [Threads -> Seq(Locks)] /\ pc' \in [Threads -> Places]
         /\ Shape(frames[t], todo[t], pc[t])'
         /\ Head(todo[t]) \in Locks /\ Want(t, Head(todo[t])) >= 1
         /\ \A l : Want(t, l)' = IF l = Head(todo[t]) THEN Want(t, l) - 1
                                 ELSE Want(t, l)
<1> DEFINE f == frames[t]
           d == todo[t]
           p == pc[t]
           q == IF Len(d) > 1 THEN "leave" ELSE "run"
<1>1. /\ frames \in [Threads -> Seq(Frames)] /\ todo \in [Threads -> Seq(Locks)]
      /\ pc \in [Threads -> Places] /\ Shape(f, d, p)
  BY DEF LockInv, LockTypes, Matches
<1>2. todo'[t] = Tail(d) /\ pc'[t] = q /\ OthersKeep(t)
  BY <1>1 DEF Onward, GoTo, OthersKeep
<1>3. LeftToGive(d) /\ f \in Seq(Frames)
  BY <1>1 DEF Shape
<1>4. p \in Giving
  OBVIOUS
<1>5. q \in {"leave", "run"} /\ q = IF Len(d) > 1 THEN "leave" ELSE "run"
  OBVIOUS
<1> HIDE DEF f, d, p, q
<1>6. /\ Head(d) \in Locks /\ Tail(d) \in Seq(Locks)
      /\ q = "run" => Tail(d) = <<>>
      /\ q # "run" => LeftToGive(Tail(d))
      /\ \A l : Due(f, Tail(d), q, l) =
                   IF l = Head(d) THEN Due(f, d, p, l) - 1 ELSE Due(f, d, p, l)
      /\ Due(f, d, p, Head(d)) >= 1
  BY <1>3, <1>4, <1>5, DueGive
<1>7. Shape(f, Tail(d), q)
  BY <1>3, <1>5, <1>6 DEF Shape, Taking, Giving
<1>8. todo' \in [Threads -> Seq(Locks)] /\ pc' \in [Threads -> Places]
  <2>1. todo' = [todo EXCEPT ![t] = Tail(d)] /\ pc' = [pc EXCEPT ![t] = q]
    BY DEF Onward, GoTo, d, q
  <2>2. q \in Places
    BY <1>5 DEF Places
  <2> QED
    BY <1>1, <1>6, <2>1, <2>2
<1>9. frames'[t] = f
  BY DEF f
<1> QED
  BY <1>2, <1>5, <1>6, <1>7, <1>8, <1>9 DEF Want, f, d, p

-----------------------------------------------------------------------------
(* The steps *)

LEMMA LockInvInit == Init => LockInv
<1> SUFFICES ASSUME Init PROVE LockInv
  OBVIOUS
<1>1. LockTypes
  BY DEF Init, LockTypes, Places
<1>2. ASSUME NEW t \in Threads PROVE Matches(t)
  <2>1. frames[t] = <<>> /\ todo[t] = <<>> /\ pc[t] = "run"
    BY DEF Init
  <2>2. \A l : Want(t, l) = 0
    <3>1. \A l : {i \in DOMAIN <<>> : l \in ToSet(<<>>[i])} = {}
      OBVIOUS
    <3>2. \A l : Count(<<>>, l) = 0
      BY <3>1, FS_EmptySet DEF Count
    <3> QED
      BY <2>1, <3>2, ToSetOf DEF Want, Due
  <2>3. \A l \in Locks : holder[l] # t
    BY LocksAssumption DEF Init
  <2>4. \A l \in Objs : owner[l] # t
    BY LocksAssumption DEF Init
  <2> QED
    BY <2>1, <2>2, <2>3, <2>4
       DEF Matches, Shape, WordsMatch, OwnersMatch, MutexOnce, Taking, Giving
<1> QED
  BY <1>1, <1>2 DEF LockInv

LEMMA SyncStep ==
  ASSUME LockInv, NEW t \in Threads, NEW x \in Frames, Sync(t, x)
  PROVE  LockInv'
<1> DEFINE f == frames[t]
           d == IF Len(x) = 1 THEN x ELSE PairOrder(x[1], x[2])
<1>1. LockTypes /\ Matches(t)
  BY DEF LockInv
<1>2. /\ frames' = [frames EXCEPT ![t] = Append(f, x)]
      /\ todo' = [todo EXCEPT ![t] = d] /\ pc' = [pc EXCEPT ![t] = "ask"]
      /\ pc[t] = "run" /\ UNCHANGED <<holder, owner, depth>>
  BY DEF Sync, GoTo
<1>3. f \in Seq(Frames)
  BY <1>1 DEF LockTypes
<1> HIDE DEF f, d
<1>4. /\ d \in Seq(Locks) /\ Append(f, x) # <<>>
      /\ LeftToTake(ToSet(Last(Append(f, x))), d)
      /\ \A l : Due(Append(f, x), d, "ask", l) = Count(f, l)
  BY <1>3, DueSync DEF d
<1>5. frames'[t] = Append(f, x) /\ todo'[t] = d /\ pc'[t] = "ask"
  BY <1>1, <1>2 DEF LockTypes
<1>6. \A l : Want(t, l)' = Want(t, l)
  <2>1. todo[t] = <<>>
    BY <1>1, <1>2 DEF Matches, Shape
  <2> QED
    BY <1>4, <1>5, <2>1, ToSetOf DEF Want, Due, f
<1>7. OthersKeep(t)
  BY <1>1, <1>2 DEF OthersKeep, LockTypes
<1>8. OthersLocks(t)
  BY <1>2 DEF OthersLocks
<1>9. LockTypes'
  <2>1. Append(f, x) \in Seq(Frames)
    BY <1>3
  <2> QED
    BY <1>1, <1>2, <1>4, <2>1 DEF LockTypes, Places
<1>10. Matches(t)'
  <2>1. Shape(frames[t], todo[t], pc[t])'
    BY <1>4, <1>5 DEF Shape, Taking, Giving
  <2>2. WordsMatch(t)'
    BY <1>1, <1>2, <1>5, <1>6 DEF Matches, WordsMatch
  <2>3. OwnersMatch(t)'
    BY <1>1, <1>2, <1>5, <1>6 DEF Matches, OwnersMatch
  <2>4. MutexOnce(t)'
    BY <1>1, <1>6 DEF Matches, MutexOnce
  <2> QED
    BY <2>1, <2>2, <2>3, <2>4 DEF Matches
<1> QED
  BY <1>7, <1>8, <1>9, <1>10, KeepInv

LEMMA EndStep ==
  ASSUME LockInv, NEW t \in Threads, EndSync(t)
  PROVE  LockInv'
<1> DEFINE f == frames[t]
           g == Front(f)
           d == GiveOrder(Last(f))
<1>1. LockTypes /\ Matches(t)
  BY DEF LockInv
<1>2. /\ frames' = [frames EXCEPT ![t] = g]
      /\ todo' = [todo EXCEPT ![t] = d] /\ pc' = [pc EXCEPT ![t] = "leave"]
      /\ pc[t] = "run" /\ UNCHANGED <<holder, owner, depth>>
  BY DEF EndSync, GoTo
<1>3. f \in Seq(Frames) /\ f # <<>>
  BY <1>1 DEF LockTypes, EndSync
<1>4. /\ g \in Seq(Frames) /\ d \in Seq(Locks) /\ LeftToGive(d)
      /\ \A l : Due(g, d, "leave", l) = Count(f, l)
  BY <1>3, DueEnd
<1> HIDE DEF f, g, d
<1>5. frames'[t] = g /\ todo'[t] = d /\ pc'[t] = "leave"
  BY <1>1, <1>2 DEF LockTypes
<1>6. \A l : Want(t, l)' = Want(t, l)
  <2>1. todo[t] = <<>>
    BY <1>1, <1>2 DEF Matches, Shape
  <2> QED
    BY <1>4, <1>5, <2>1, ToSetOf DEF Want, Due, f
<1>7. OthersKeep(t)
  BY <1>1, <1>2 DEF OthersKeep, LockTypes
<1>8. OthersLocks(t)
  BY <1>2 DEF OthersLocks
<1>9. LockTypes'
  BY <1>1, <1>2, <1>4 DEF LockTypes, Places
<1>10. Matches(t)'
  <2>1. Shape(frames[t], todo[t], pc[t])'
    BY <1>4, <1>5 DEF Shape, Taking, Giving
  <2>2. WordsMatch(t)'
    BY <1>1, <1>2, <1>5, <1>6 DEF Matches, WordsMatch
  <2>3. OwnersMatch(t)'
    BY <1>1, <1>2, <1>5, <1>6 DEF Matches, OwnersMatch
  <2>4. MutexOnce(t)'
    BY <1>1, <1>6 DEF Matches, MutexOnce
  <2> QED
    BY <2>1, <2>2, <2>3, <2>4 DEF Matches
<1> QED
  BY <1>7, <1>8, <1>9, <1>10, KeepInv

\* A step that changes neither the locks nor the calls.
LEMMA SameInv ==
  ASSUME LockInv, UNCHANGED <<holder, owner, depth, frames, todo, pc>>
  PROVE  LockInv'
<1>1. LockTypes'
  BY DEF LockInv, LockTypes
<1>2. \A t \in Threads : \A l : Want(t, l)' = Want(t, l)
  BY DEF Want
<1>3. ASSUME NEW t \in Threads PROVE Matches(t)'
  BY <1>2 DEF LockInv, Matches, Shape, WordsMatch, OwnersMatch, MutexOnce
<1> QED
  BY <1>1, <1>3 DEF LockInv

\* A step that moves t within its call.
SameCall(t) ==
    /\ frames' = frames /\ todo' = todo
    /\ \/ pc[t] \in Taking /\ pc'[t] \in Taking
       \/ pc[t] \in Giving /\ pc'[t] \in Giving
    /\ pc'[t] \in {"own", "free"} => Head(todo[t]) \in Objs

LEMMA PlaceStep ==
  ASSUME LockInv, NEW t \in Threads, SameCall(t)
  PROVE  /\ Shape(frames[t], todo[t], pc[t])'
         /\ \A l : Want(t, l)' = Want(t, l)
         /\ Head(todo[t]) \in Locks
<1>1. Shape(frames[t], todo[t], pc[t])
  BY DEF LockInv, Matches
<1>3. Shape(frames[t], todo[t], pc[t])'
  BY <1>1 DEF SameCall, Shape, Taking, Giving
<1>4. \A l : Want(t, l)' = Want(t, l)
  BY DEF SameCall, Want, Due, Taking, Giving
<1>5. Head(todo[t]) \in Locks
  BY <1>1 DEF SameCall, Shape, LeftToTake, LeftToGive, Locks
<1> QED
  BY <1>3, <1>4, <1>5

LEMMA EnterStep ==
  ASSUME LockInv, NEW t \in Threads, Enter(t)
  PROVE  LockInv'
<1> DEFINE l0 == Head(todo[t])
<1>1. /\ pc[t] = "ask" /\ l0 \in Objs /\ owner[l0] = t
      /\ depth' = [depth EXCEPT ![l0] = depth[l0] + 1]
      /\ Onward(t, "ask") /\ UNCHANGED <<holder, owner, frames>>
  BY DEF Enter
<1>2. LockTypes /\ Matches(t) /\ \A l : Want(t, l) \in Nat
  BY WantNat DEF LockInv
<1>3. /\ OthersKeep(t) /\ pc'[t] \in {"ask", "run"}
      /\ todo' \in [Threads -> Seq(Locks)] /\ pc' \in [Threads -> Places]
      /\ Shape(frames[t], todo[t], pc[t])'
      /\ \A l : Want(t, l)' = IF l = l0 THEN Want(t, l) + 1 ELSE Want(t, l)
  BY <1>1, OnwardTake DEF Taking
<1> HIDE DEF l0
<1>4. LockTypes'
  BY <1>1, <1>2, <1>3 DEF LockTypes
<1>5. OthersLocks(t)
  BY <1>1, <1>2 DEF OthersLocks, LockTypes
<1>6. Want(t, l0) > 0 /\ depth[l0] = Want(t, l0)
  BY <1>1, <1>2 DEF Matches, OwnersMatch
<1>7. WordsMatch(t)'
  <2>1. ASSUME NEW l \in Locks PROVE holder'[l] = t <=> Want(t, l)' > 0
    <3>1. holder[l] = t <=> Want(t, l) > 0
      BY <1>1, <1>2 DEF Matches, WordsMatch
    <3>2. Want(t, l)' > 0 <=> Want(t, l) > 0
      BY <1>2, <1>3, <1>6
    <3> QED
      BY <1>1, <3>1, <3>2
  <2> QED
    BY <1>3, <2>1 DEF WordsMatch
<1>8. OwnersMatch(t)'
  BY <1>1, <1>2, <1>3, <1>6 DEF Matches, OwnersMatch, LockTypes
<1>9. MutexOnce(t)'
  <2>1. l0 \notin Mutexes
    BY <1>1, LocksAssumption
  <2> QED
    BY <1>2, <1>3, <2>1 DEF Matches, MutexOnce
<1> QED
  BY <1>3, <1>4, <1>5, <1>7, <1>8, <1>9, KeepInv DEF Matches

LEMMA AskStep ==
  ASSUME LockInv, NEW t \in Threads, Ask(t)
  PROVE  LockInv'
<1> DEFINE l0 == Head(todo[t])
<1>1. /\ pc[t] = "ask" /\ (l0 \in Objs => owner[l0] # t)
      /\ pc' = [pc EXCEPT ![t] = "word"]
      /\ UNCHANGED <<holder, owner, depth, frames, todo>>
  BY DEF Ask, GoTo
<1>2. LockTypes /\ Matches(t) /\ \A l : Want(t, l) \in Nat
  BY WantNat DEF LockInv
<1>3. /\ OthersKeep(t) /\ pc'[t] = "word" /\ pc' \in [Threads -> Places]
      /\ Shape(frames[t], todo[t], pc[t])'
      /\ \A l : Want(t, l)' = Want(t, l)
  <2>1. OthersKeep(t) /\ pc'[t] = "word" /\ pc' \in [Threads -> Places]
    BY <1>1, <1>2 DEF LockTypes, OthersKeep, Places
  <2>2. SameCall(t)
    BY <1>1, <2>1 DEF SameCall, Taking
  <2>3. Shape(frames[t], todo[t], pc[t])' /\ \A l : Want(t, l)' = Want(t, l)
    BY <2>2, PlaceStep
  <2> QED
    BY <2>1, <2>3
<1>4. LockTypes'
  BY <1>1, <1>2, <1>3 DEF LockTypes
<1>5. OthersLocks(t)
  BY <1>1 DEF OthersLocks
<1>6. l0 \in Objs => Want(t, l0) = 0
  BY <1>1, <1>2 DEF Matches, OwnersMatch
<1>7. WordsMatch(t)'
  BY <1>1, <1>2, <1>3 DEF Matches, WordsMatch
<1>8. OwnersMatch(t)'
  BY <1>1, <1>2, <1>3, <1>6 DEF Matches, OwnersMatch
<1>9. MutexOnce(t)'
  BY <1>2, <1>3 DEF Matches, MutexOnce
<1> QED
  BY <1>3, <1>4, <1>5, <1>7, <1>8, <1>9, KeepInv DEF Matches

LEMMA WordStep ==
  ASSUME LockInv, NEW t \in Threads, Word(t)
  PROVE  LockInv'
<1> DEFINE l0 == Head(todo[t])
<1>1. /\ pc[t] = "word" /\ holder[l0] = NoThread
      /\ holder' = [holder EXCEPT ![l0] = t]
      /\ UNCHANGED <<owner, depth, frames>>
  BY DEF Word
<1>2. LockTypes /\ Matches(t) /\ \A l : Want(t, l) \in Nat
  BY WantNat DEF LockInv
<1>3. NoThread # t
  BY LocksAssumption
<1>4. CASE l0 \in Objs
  <2>1. pc' = [pc EXCEPT ![t] = "own"] /\ todo' = todo
    BY <1>4 DEF Word, GoTo
  <2>2. /\ OthersKeep(t) /\ pc'[t] = "own" /\ pc' \in [Threads -> Places]
        /\ Shape(frames[t], todo[t], pc[t])'
        /\ \A l : Want(t, l)' = Want(t, l)
        /\ l0 \in Locks
    <3>1. OthersKeep(t) /\ pc'[t] = "own" /\ pc' \in [Threads -> Places]
      BY <1>1, <1>2, <2>1 DEF LockTypes, OthersKeep, Places
    <3>2. SameCall(t)
      BY <1>1, <1>4, <2>1, <3>1 DEF SameCall, Taking
    <3>3. /\ Shape(frames[t], todo[t], pc[t])' /\ Head(todo[t]) \in Locks
          /\ \A l : Want(t, l)' = Want(t, l)
      BY <3>2, PlaceStep
    <3> QED
      BY <3>1, <3>3
  <2> HIDE DEF l0
  <2>3. /\ LockTypes' /\ holder'[l0] = t
        /\ \A l \in Locks : l # l0 => holder'[l] = holder[l]
    BY <1>1, <1>2, <2>1, <2>2 DEF LockTypes
  <2>4. OthersLocks(t)
    BY <1>1, <1>2, <2>2, <2>3, LocksAssumption DEF OthersLocks
  <2>5. Head(todo[t])' = l0
    BY <2>1 DEF l0
  <2>6. Want(t, l0) = 0
    BY <1>1, <1>2, <1>4 DEF Matches, OwnersMatch, l0
  <2>7. WordsMatch(t)'
    BY <1>1, <1>2, <2>2, <2>3, <2>5, <2>6 DEF Matches, WordsMatch
  <2>8. OwnersMatch(t)'
    BY <1>1, <1>2, <2>2, <2>5, <2>6 DEF Matches, OwnersMatch
  <2>9. MutexOnce(t)'
    BY <1>2, <2>2 DEF Matches, MutexOnce
  <2> QED
    BY <2>2, <2>3, <2>4, <2>7, <2>8, <2>9, KeepInv DEF Matches
<1>5. CASE l0 \notin Objs
  <2>1. Onward(t, "ask")
    BY <1>5 DEF Word
  <2>2. /\ OthersKeep(t) /\ pc'[t] \in {"ask", "run"}
        /\ todo' \in [Threads -> Seq(Locks)] /\ pc' \in [Threads -> Places]
        /\ Shape(frames[t], todo[t], pc[t])' /\ l0 \in Locks
        /\ \A l : Want(t, l)' = IF l = l0 THEN Want(t, l) + 1 ELSE Want(t, l)
    BY <1>1, <2>1, OnwardTake DEF Taking
  <2> HIDE DEF l0
  <2>3. /\ LockTypes' /\ holder'[l0] = t
        /\ \A l \in Locks : l # l0 => holder'[l] = holder[l]
    BY <1>1, <1>2, <2>2 DEF LockTypes
  <2>4. OthersLocks(t)
    BY <1>1, <1>2, <2>2, <2>3, LocksAssumption DEF OthersLocks
  <2>5. Want(t, l0) = 0
    BY <1>1, <1>2, <1>3, <2>2 DEF Matches, WordsMatch
  <2>6. WordsMatch(t)'
    BY <1>1, <1>2, <2>2, <2>3, <2>5 DEF Matches, WordsMatch
  <2>7. OwnersMatch(t)'
    BY <1>1, <1>2, <1>5, <2>2 DEF Matches, OwnersMatch
  <2>8. MutexOnce(t)'
    BY <1>2, <2>2, <2>5 DEF Matches, MutexOnce
  <2> QED
    BY <2>2, <2>3, <2>4, <2>6, <2>7, <2>8, KeepInv DEF Matches
<1> QED
  BY <1>4, <1>5

LEMMA OwnStep ==
  ASSUME LockInv, NEW t \in Threads, Own(t)
  PROVE  LockInv'
<1> DEFINE l0 == Head(todo[t])
<1>1. /\ pc[t] = "own" /\ owner' = [owner EXCEPT ![l0] = t]
      /\ depth' = [depth EXCEPT ![l0] = 1]
      /\ Onward(t, "ask") /\ UNCHANGED <<holder, frames>>
  BY DEF Own
<1>2. LockTypes /\ Matches(t) /\ \A l : Want(t, l) \in Nat
  BY WantNat DEF LockInv
<1>3. /\ OthersKeep(t) /\ pc'[t] \in {"ask", "run"}
      /\ todo' \in [Threads -> Seq(Locks)] /\ pc' \in [Threads -> Places]
      /\ Shape(frames[t], todo[t], pc[t])'
      /\ \A l : Want(t, l)' = IF l = l0 THEN Want(t, l) + 1 ELSE Want(t, l)
  BY <1>1, OnwardTake DEF Taking
<1>4. l0 \in Objs /\ l0 \in Locks
  BY <1>1, <1>2 DEF Matches, Shape, Locks
<1>5. Want(t, l0) = 0 /\ holder[l0] = t
  BY <1>1, <1>2, <1>4 DEF Matches, OwnersMatch, WordsMatch
<1>6. WordsMatch(t)'
  BY <1>1, <1>2, <1>3, <1>5 DEF Matches, WordsMatch
<1>7. ASSUME NEW u \in Threads \ {t} PROVE owner[l0] # u
  <2>1. Matches(u) /\ holder[l0] # u
    BY <1>5 DEF LockInv
  <2>2. ~(Want(u, l0) > 0)
    BY <1>4, <2>1 DEF Matches, WordsMatch
  <2> QED
    BY <1>4, <2>1, <2>2 DEF Matches, OwnersMatch
<1> HIDE DEF l0
<1>8. /\ LockTypes' /\ owner'[l0] = t /\ depth'[l0] = 1
      /\ \A l \in Objs : l # l0 => owner'[l] = owner[l] /\ depth'[l] = depth[l]
  BY <1>1, <1>2, <1>3, <1>4 DEF LockTypes
<1>9. OthersLocks(t)
  BY <1>1, <1>7, <1>8 DEF OthersLocks
<1>10. OwnersMatch(t)'
  BY <1>1, <1>2, <1>3, <1>5, <1>8 DEF Matches, OwnersMatch
<1>11. MutexOnce(t)'
  <2>1. l0 \notin Mutexes
    BY <1>4, LocksAssumption
  <2> QED
    BY <1>2, <1>3, <2>1 DEF Matches, MutexOnce
<1> QED
  BY <1>3, <1>6, <1>8, <1>9, <1>10, <1>11, KeepInv DEF Matches

LEMMA UnlockStep ==
  ASSUME LockInv, NEW t \in Threads, UnlockMutex(t)
  PROVE  LockInv'
<1> DEFINE l0 == Head(todo[t])
<1>1. /\ pc[t] = "leave" /\ l0 \in Mutexes
      /\ holder' = [holder EXCEPT ![l0] = NoThread]
      /\ Onward(t, "leave") /\ UNCHANGED <<owner, depth, frames>>
  BY DEF UnlockMutex
<1>2. LockTypes /\ Matches(t) /\ \A l : Want(t, l) \in Nat
  BY WantNat DEF LockInv
<1>3. /\ OthersKeep(t) /\ pc'[t] \in {"leave", "run"}
      /\ todo' \in [Threads -> Seq(Locks)] /\ pc' \in [Threads -> Places]
      /\ Shape(frames[t], todo[t], pc[t])'
      /\ l0 \in Locks /\ Want(t, l0) >= 1
      /\ \A l : Want(t, l)' = IF l = l0 THEN Want(t, l) - 1 ELSE Want(t, l)
  BY <1>1, OnwardGive DEF Giving
<1> HIDE DEF l0
<1>4. Want(t, l0) = 1 /\ holder[l0] = t /\ l0 \notin Objs
  BY <1>1, <1>2, <1>3, LocksAssumption DEF Matches, MutexOnce, WordsMatch
<1>5. /\ LockTypes' /\ holder'[l0] = NoThread
      /\ \A l \in Locks : l # l0 => holder'[l] = holder[l]
  BY <1>1, <1>2, <1>3 DEF LockTypes
<1>6. OthersLocks(t)
  BY <1>1, <1>4, <1>5, LocksAssumption DEF OthersLocks
<1>7. WordsMatch(t)'
  BY <1>1, <1>2, <1>3, <1>4, <1>5, LocksAssumption DEF Matches, WordsMatch
<1>8. OwnersMatch(t)'
  BY <1>1, <1>2, <1>3, <1>4 DEF Matches, OwnersMatch
<1>9. MutexOnce(t)'
  BY <1>2, <1>3, <1>4 DEF Matches, MutexOnce
<1> QED
  BY <1>3, <1>5, <1>6, <1>7, <1>8, <1>9, KeepInv DEF Matches

LEMMA LeaveInnerStep ==
  ASSUME LockInv, NEW t \in Threads, LeaveInner(t)
  PROVE  LockInv'
<1> DEFINE l0 == Head(todo[t])
<1>1. /\ pc[t] = "leave" /\ l0 \in Objs /\ depth[l0] > 1
      /\ depth' = [depth EXCEPT ![l0] = depth[l0] - 1]
      /\ Onward(t, "leave") /\ UNCHANGED <<holder, owner, frames>>
  BY DEF LeaveInner
<1>2. LockTypes /\ Matches(t) /\ \A l : Want(t, l) \in Nat
  BY WantNat DEF LockInv
<1>3. /\ OthersKeep(t) /\ pc'[t] \in {"leave", "run"}
      /\ todo' \in [Threads -> Seq(Locks)] /\ pc' \in [Threads -> Places]
      /\ Shape(frames[t], todo[t], pc[t])'
      /\ l0 \in Locks /\ Want(t, l0) >= 1
      /\ \A l : Want(t, l)' = IF l = l0 THEN Want(t, l) - 1 ELSE Want(t, l)
  BY <1>1, OnwardGive DEF Giving
<1> HIDE DEF l0
<1>4. owner[l0] = t /\ depth[l0] = Want(t, l0)
  BY <1>1, <1>2, <1>3 DEF Matches, OwnersMatch
<1>5. /\ LockTypes' /\ depth'[l0] = depth[l0] - 1
      /\ \A l \in Objs : l # l0 => depth'[l] = depth[l]
  BY <1>1, <1>2, <1>3 DEF LockTypes
<1>6. OthersLocks(t)
  BY <1>1, <1>4, <1>5 DEF OthersLocks
<1>7. WordsMatch(t)'
  <2>1. ASSUME NEW l \in Locks PROVE holder'[l] = t <=> Want(t, l)' > 0
    <3>1. holder[l] = t <=> Want(t, l) > 0
      BY <1>1, <1>2 DEF Matches, WordsMatch
    <3>2. Want(t, l)' > 0 <=> Want(t, l) > 0
      BY <1>1, <1>2, <1>3, <1>4
    <3> QED
      BY <1>1, <3>1, <3>2
  <2> QED
    BY <1>3, <2>1 DEF WordsMatch
<1>8. OwnersMatch(t)'
  BY <1>1, <1>2, <1>3, <1>4, <1>5 DEF Matches, OwnersMatch
<1>9. MutexOnce(t)'
  BY <1>2, <1>3 DEF Matches, MutexOnce
<1> QED
  BY <1>3, <1>5, <1>6, <1>7, <1>8, <1>9, KeepInv DEF Matches

LEMMA LeaveClearStep ==
  ASSUME LockInv, NEW t \in Threads, LeaveClear(t)
  PROVE  LockInv'
<1> DEFINE l0 == Head(todo[t])
<1>1. /\ pc[t] = "leave" /\ l0 \in Objs /\ depth[l0] <= 1
      /\ depth' = [depth EXCEPT ![l0] = depth[l0] - 1]
      /\ owner' = [owner EXCEPT ![l0] = NoThread]
      /\ pc' = [pc EXCEPT ![t] = "free"] /\ UNCHANGED <<holder, frames, todo>>
  BY DEF LeaveClear, GoTo
<1>2. LockTypes /\ Matches(t) /\ \A l : Want(t, l) \in Nat
  BY WantNat DEF LockInv
<1>3. OthersKeep(t) /\ pc'[t] = "free" /\ pc' \in [Threads -> Places]
  BY <1>1, <1>2 DEF LockTypes, OthersKeep, Places
<1>4. /\ Shape(frames[t], todo[t], pc[t])'
      /\ \A l : Want(t, l)' = Want(t, l)
  <2>1. SameCall(t)
    BY <1>1, <1>3 DEF SameCall, Giving
  <2> QED
    BY <2>1, PlaceStep
<1>5. Want(t, l0) >= 1
  <2>1. frames[t] \in Seq(Frames) /\ LeftToGive(todo[t]) /\ pc[t] \in Giving
    BY <1>1, <1>2 DEF LockTypes, Matches, Shape, Giving
  <2> QED
    BY <2>1, DueGive DEF Want
<1>6. Head(todo[t])' = l0
  BY <1>1
<1> HIDE DEF l0
<1>7. owner[l0] = t /\ depth[l0] = 1 /\ Want(t, l0) = 1
  BY <1>1, <1>2, <1>5 DEF Matches, OwnersMatch
<1>8. /\ LockTypes' /\ owner'[l0] = NoThread
      /\ \A l \in Objs : l # l0 => owner'[l] = owner[l] /\ depth'[l] = depth[l]
  BY <1>1, <1>2, <1>3, <1>7 DEF LockTypes
<1>9. OthersLocks(t)
  BY <1>1, <1>7, <1>8, LocksAssumption DEF OthersLocks
<1>10. WordsMatch(t)'
  BY <1>1, <1>2, <1>3, <1>4 DEF Matches, WordsMatch
<1>11. OwnersMatch(t)'
  BY <1>1, <1>2, <1>3, <1>4, <1>6, <1>7, <1>8, LocksAssumption DEF Matches, OwnersMatch
<1>12. MutexOnce(t)'
  BY <1>2, <1>4 DEF Matches, MutexOnce
<1> QED
  BY <1>3, <1>4, <1>8, <1>9, <1>10, <1>11, <1>12, KeepInv DEF Matches

LEMMA LeaveFreeStep ==
  ASSUME LockInv, NEW t \in Threads, LeaveFree(t)
  PROVE  LockInv'
<1> DEFINE l0 == Head(todo[t])
<1>1. /\ pc[t] = "free" /\ holder' = [holder EXCEPT ![l0] = NoThread]
      /\ Onward(t, "leave") /\ UNCHANGED <<owner, depth, frames>>
  BY DEF LeaveFree
<1>2. LockTypes /\ Matches(t) /\ \A l : Want(t, l) \in Nat
  BY WantNat DEF LockInv
<1>3. /\ OthersKeep(t) /\ pc'[t] \in {"leave", "run"}
      /\ todo' \in [Threads -> Seq(Locks)] /\ pc' \in [Threads -> Places]
      /\ Shape(frames[t], todo[t], pc[t])'
      /\ l0 \in Locks /\ Want(t, l0) >= 1
      /\ \A l : Want(t, l)' = IF l = l0 THEN Want(t, l) - 1 ELSE Want(t, l)
  BY <1>1, OnwardGive DEF Giving
<1>4. l0 \in Objs /\ Want(t, l0) = 1 /\ holder[l0] = t /\ owner[l0] # t
  BY <1>1, <1>2, <1>3 DEF Matches, Shape, OwnersMatch, WordsMatch
<1>5. ASSUME NEW l \in Objs, l # l0 PROVE owner[l] = t <=> Want(t, l) > 0
  BY <1>1, <1>2, <1>5 DEF Matches, OwnersMatch
<1>6. \A l \in Objs : owner[l] = t => depth[l] = Want(t, l)
  BY <1>2 DEF Matches, OwnersMatch
<1> HIDE DEF l0
<1>7. /\ LockTypes' /\ holder'[l0] = NoThread
      /\ \A l \in Locks : l # l0 => holder'[l] = holder[l]
  BY <1>1, <1>2, <1>3 DEF LockTypes
<1>8. OthersLocks(t)
  BY <1>1, <1>4, <1>7, LocksAssumption DEF OthersLocks
<1>9. WordsMatch(t)'
  BY <1>1, <1>2, <1>3, <1>4, <1>7, LocksAssumption DEF Matches, WordsMatch
<1>10. OwnersMatch(t)'
  BY <1>1, <1>3, <1>4, <1>5, <1>6 DEF OwnersMatch
<1>11. MutexOnce(t)'
  BY <1>2, <1>3, <1>4 DEF Matches, MutexOnce
<1> QED
  BY <1>3, <1>7, <1>8, <1>9, <1>10, <1>11, KeepInv DEF Matches

LEMMA LockInvStep == LockInv /\ [Next]_vars => LockInv'
<1> SUFFICES ASSUME LockInv, [Next]_vars PROVE LockInv'
  OBVIOUS
<1>1. CASE UNCHANGED vars
  BY <1>1, SameInv DEF vars
<1>2. ASSUME NEW t \in Threads, Step(t) PROVE LockInv'
  <2>1. CASE \E x \in Frames : Sync(t, x)
    BY <2>1, SyncStep
  <2>2. CASE HeldAlready(t) \/ (\E l \in Mutexes : Destroy(t, l))
             \/ \E l \in Objs : Remake(t, l)
    BY <2>2, SameInv DEF HeldAlready, Destroy, Remake
  <2> QED
    BY <1>2, <2>1, <2>2, EnterStep, AskStep, WordStep, OwnStep, EndStep, UnlockStep,
       LeaveInnerStep, LeaveClearStep, LeaveFreeStep DEF Step, Inside
<1> QED
  BY <1>1, <1>2 DEF Next

LEMMA LockInvHolds == Spec => []LockInv
  BY LockInvInit, LockInvStep, PTL DEF Spec

\* For any threads, locks and nesting, a thread in its program holds exactly the
\* locks of the `sync` blocks it is in, each as deep as its blocks: the unguarded
\* read of owner in object_enter misleads nobody, and object_leave gives the lock
\* back at the end of the outermost block.
THEOREM LocksAlwaysMatch == Spec => []LocksMatchBlocks
<1>1. LockInv => LocksMatchBlocks
  <2> SUFFICES ASSUME LockInv, NEW t \in Threads, pc[t] = "run"
               PROVE  /\ HeldLocks(t) = {l \in Locks : Blocks(t, l) > 0}
                      /\ \A l \in Objs : /\ owner[l] = t <=> Blocks(t, l) > 0
                                         /\ owner[l] = t => depth[l] = Blocks(t, l)
    BY DEF LocksMatchBlocks
  <2>1. Matches(t) /\ todo[t] = <<>>
    BY DEF LockInv, Matches, Shape
  <2>2. \A l : Want(t, l) = Blocks(t, l)
    BY <2>1, ToSetOf DEF Want, Due, Count, Blocks
  <2> QED
    BY <2>1, <2>2 DEF Matches, WordsMatch, OwnersMatch, HeldLocks
<1> QED
  BY <1>1, LockInvHolds, PTL

-----------------------------------------------------------------------------
(* Waiting *)

LEMMA CountOne ==
  ASSUME NEW F, NEW f \in Seq(F), f # <<>>, Len(f) <= 1, NEW l
  PROVE  Count(f, l) = IF l \in ToSet(Last(f)) THEN 1 ELSE 0
<1>1. Len(f) = 1
  <2> DEFINE n == Len(f)
  <2>1. n \in Nat /\ n # 0
    OBVIOUS
  <2>2. n <= 1
    OBVIOUS
  <2> HIDE DEF n
  <2>3. n = 1
    BY <2>1, <2>2
  <2> QED
    BY <2>3 DEF n
<1>2. DOMAIN f = {1} /\ Last(f) = f[1]
  BY <1>1 DEF Last
<1>3. CASE l \in ToSet(f[1])
  <2>1. {i \in DOMAIN f : l \in ToSet(f[i])} = {1}
    BY <1>2, <1>3
  <2>2. Cardinality({1}) = 1
    BY FS_Singleton
  <2> QED
    BY <1>2, <1>3, <2>1, <2>2 DEF Count
<1>4. CASE l \notin ToSet(f[1])
  <2>1. {i \in DOMAIN f : l \in ToSet(f[i])} = {}
    BY <1>2, <1>4
  <2> QED
    BY <1>2, <1>4, <2>1, FS_EmptySet DEF Count
<1> QED
  BY <1>3, <1>4

\* Who waits in its first block has taken lower addresses only.
LEMMA WaitsUp ==
  ASSUME LockInv, NEW t \in Threads, NEW u \in Threads, WaitsFor(t, u),
         pc[u] = "word", Len(frames[u]) <= 1
  PROVE  /\ Head(todo[t]) \in Nat /\ Head(todo[u]) \in Nat
         /\ Head(todo[t]) < Head(todo[u])
<1> DEFINE l == Head(todo[t])
           f == frames[u]
           d == todo[u]
           x == Last(f)
<1>1. pc[t] = "word" /\ holder[l] = u
  BY DEF WaitsFor
<1>2. LockTypes /\ Matches(t) /\ Matches(u)
  BY DEF LockInv
<1>3. l \in Locks
  BY <1>1, <1>2 DEF Matches, Shape, Taking, LeftToTake, Locks
<1>4. Due(f, d, "word", l) > 0
  BY <1>1, <1>2, <1>3 DEF Matches, WordsMatch, Want
<1>5. f \in Seq(Frames) /\ f # <<>> /\ LeftToTake(ToSet(x), d) /\ Len(f) <= 1
  BY <1>2 DEF LockTypes, Matches, Shape, Taking
<1> HIDE DEF l, f, d, x
<1>6. Count(f, l) = IF l \in ToSet(x) THEN 1 ELSE 0
  BY <1>5, CountOne DEF x
<1>7. l \in ToSet(x) /\ l \notin ToSet(d)
  BY <1>4, <1>6 DEF Due, Taking
<1>8. l < Head(d) /\ Head(d) \in Locks
  BY <1>5, <1>7, ToSetOf DEF LeftToTake, Locks
<1> QED
  BY <1>3, <1>8, LocksAssumption DEF l, d, Locks

\* For any number of threads, those that stand in one block at most never wait in a
\* cycle: anti_rt_object_lock_pair takes two objects by address, so `sync a, b`
\* against `sync b, a` cannot deadlock, nor can any longer ring of such threads.
THEOREM NeverWaitInCycle == Spec => []NoWaitCycle
<1>1. LockInv => NoWaitCycle
  <2> SUFFICES ASSUME LockInv,
                      NEW group \in SUBSET {t \in Threads : Len(frames[t]) <= 1},
                      group # {},
                      \A t \in group : \E u \in group : WaitsFor(t, u)
               PROVE  FALSE
    BY DEF NoWaitCycle
  <2> DEFINE H(t) == Head(todo[t])
             Above(t) == {u \in group : H(t) < H(u)}
             T == {Above(t) : t \in group}
             R == StrictSubsetOrdering(group)
  <2>1. \A t \in group : pc[t] = "word"
    BY DEF WaitsFor
  <2>2. ASSUME NEW t \in group PROVE \E u \in group : H(t) \in Nat /\ H(u) \in Nat /\ H(t) < H(u)
    BY <2>1, WaitsUp
  <2> HIDE DEF H
  <2>3. IsFiniteSet(group)
    <3>1. group \in SUBSET Threads
      OBVIOUS
    <3> QED
      BY <3>1, FS_Subset, LocksAssumption
  <2>4. T \subseteq FiniteSubsetsOf(group) /\ T # {}
    <3>1. \A t \in group : Above(t) \in SUBSET group
      OBVIOUS
    <3>2. \A t \in group : IsFiniteSet(Above(t))
      BY <2>3, <3>1, FS_Subset
    <3> QED
      BY <3>1, <3>2 DEF FiniteSubsetsOf
  <2>5. IsWellFoundedOn(R, FiniteSubsetsOf(group))
    BY FS_StrictSubsetOrderingWellFounded
  <2> HIDE DEF T, R
  <2>6. PICK a \in T : \A b \in T : ~(<<b, a>> \in R)
    BY <2>4, <2>5, WFMin
  <2>7. PICK t \in group : a = Above(t)
    BY DEF T
  <2>8. PICK u \in group : H(t) \in Nat /\ H(u) \in Nat /\ H(t) < H(u)
    BY <2>2
  <2>9. Above(u) \subseteq Above(t)
    <3>1. ASSUME NEW v \in group, H(u) < H(v) PROVE H(t) < H(v)
      <4>1. H(v) \in Nat
        BY <2>2
      <4> QED
        BY <2>8, <3>1, <4>1
    <3> QED
      BY <3>1
  <2>10. u \in Above(t) /\ u \notin Above(u)
    BY <2>8
  <2>11. <<Above(u), Above(t)>> \in R
    BY <2>9, <2>10 DEF R, StrictSubsetOrdering
  <2>12. Above(u) \in T
    BY DEF T
  <2> QED
    BY <2>6, <2>7, <2>11, <2>12
<1> QED
  BY <1>1, LockInvHolds, PTL

-----------------------------------------------------------------------------
(* The record.  The stack of a thread is the start of the locks it holds in  *)
(* the order of the blocks that name them first.  That order is why the stack *)
(* is right again after a pair of locks crossed HELD_MAX and was given back   *)
(* in the order it was taken: the entry that is wrong in between is the last. *)

\* The locks that the first n of the blocks f name.
Named(f, n) == {l \in Locks : \E i \in 1 .. n : l \in ToSet(f[i])}

\* Stack s names the locks of set block by block, as far as it goes.
Layered(f, s, set) ==
    \A n \in 0 .. Len(f) :
        /\ \A i, j \in 1 .. Len(s) :
              (i < j /\ s[j] \in Named(f, n)) => s[i] \in Named(f, n)
        /\ (\E y \in set : y \in Named(f, n) /\ y \notin ToSet(s))
              => ToSet(s) \subseteq Named(f, n)

Distinct(s) == \A i, j \in 1 .. Len(s) : s[i] = s[j] => i = j

\* The locks a thread holds, and the one it waits for, which is on the stack.
OnStack(t) == HeldLocks(t) \cup IF pc[t] = "word" THEN {Head(todo[t])} ELSE {}

Fits(t) ==
    /\ ToSet(held[t]) \subseteq OnStack(t)
    /\ Len(held[t]) = IF heldCount[t] < HeldMax THEN heldCount[t] ELSE HeldMax

\* The first of two locks went while the stack was one past its end, and the
\* second, which is not on the stack, is to go next.
Crossed(t) ==
    /\ pc[t] \in Giving /\ Want(t, Head(todo[t])) = 1
    /\ \E b \in Locks : todo[t] = <<b>>
    /\ HeldMax > 0 /\ heldCount[t] = HeldMax /\ Len(held[t]) = HeldMax
    /\ Head(todo[t]) \notin ToSet(held[t])
    /\ \A i \in 1 .. HeldMax - 1 : held[t][i] \in HeldLocks(t)
    /\ held[t][HeldMax] \notin HeldLocks(t)

StackOK(t) ==
    /\ held[t] \in Seq(Locks) /\ Distinct(held[t])
    /\ Layered(frames[t], held[t], OnStack(t))
    /\ IsFiniteSet(HeldLocks(t))
    /\ heldCount[t] = Cardinality(HeldLocks(t)) + IF pc[t] = "word" THEN 1 ELSE 0
    /\ Fits(t) \/ Crossed(t)

StackTypes == held = [t \in Threads |-> held[t]] /\ heldCount \in [Threads -> Nat]

StackInv == StackTypes /\ \A t \in Threads : StackOK(t)

-----------------------------------------------------------------------------
(* Blocks and the locks they name *)

LEMMA NamedAppend ==
  ASSUME NEW f \in Seq(Frames), NEW x \in Frames
  PROVE  /\ Len(Append(f, x)) = Len(f) + 1
         /\ \A n \in 0 .. Len(f) : Named(Append(f, x), n) = Named(f, n)
         /\ Named(Append(f, x), Len(f) + 1) = Named(f, Len(f)) \cup (Locks \cap ToSet(x))
<1>1. /\ Len(f) \in Nat /\ Len(Append(f, x)) = Len(f) + 1
      /\ \A i \in 1 .. Len(f) : Append(f, x)[i] = f[i]
      /\ Append(f, x)[Len(f) + 1] = x
  OBVIOUS
<1> DEFINE g == Append(f, x)
           m == Len(f)
<1>2. m \in Nat /\ (\A i \in 1 .. m : g[i] = f[i]) /\ g[m + 1] = x
  BY <1>1
<1> HIDE DEF g, m
<1>3. \A n \in 0 .. m : Named(g, n) = Named(f, n)
  <2> SUFFICES ASSUME NEW n \in 0 .. m PROVE Named(g, n) = Named(f, n)
    OBVIOUS
  <2>1. \A i \in 1 .. n : g[i] = f[i]
    BY <1>2
  <2> QED
    BY <2>1 DEF Named
<1>4. Named(g, m + 1) = Named(f, m) \cup (Locks \cap ToSet(x))
  <2>1. \A i : i \in 1 .. m + 1 <=> i \in 1 .. m \/ i = m + 1
    BY <1>2
  <2>2. ASSUME NEW l \in Locks
        PROVE  (\E i \in 1 .. m + 1 : l \in ToSet(g[i]))
                  <=> (\E i \in 1 .. m : l \in ToSet(f[i])) \/ l \in ToSet(x)
    BY <1>2, <2>1
  <2> QED
    BY <2>2 DEF Named
<1> QED
  BY <1>1, <1>3, <1>4 DEF g, m

LEMMA NamedFront ==
  ASSUME NEW f \in Seq(Frames), f # <<>>
  PROVE  /\ Len(f) \in Nat \ {0} /\ Len(Front(f)) = Len(f) - 1
         /\ \A n \in 0 .. Len(f) - 1 : Named(Front(f), n) = Named(f, n)
         /\ Named(f, Len(f)) = Named(f, Len(f) - 1) \cup (Locks \cap ToSet(Last(f)))
<1>1. /\ Len(f) \in Nat \ {0} /\ Len(Front(f)) = Len(f) - 1
      /\ \A i \in 1 .. Len(f) - 1 : Front(f)[i] = f[i]
  BY FrontOf
<1> DEFINE g == Front(f)
           m == Len(f)
<1>2. m \in Nat \ {0} /\ (\A i \in 1 .. m - 1 : g[i] = f[i]) /\ Last(f) = f[m]
  BY <1>1 DEF Last
<1> HIDE DEF g, m
<1>3. \A n \in 0 .. m - 1 : Named(g, n) = Named(f, n)
  <2> SUFFICES ASSUME NEW n \in 0 .. m - 1 PROVE Named(g, n) = Named(f, n)
    OBVIOUS
  <2>1. \A i \in 1 .. n : g[i] = f[i]
    BY <1>2
  <2> QED
    BY <2>1 DEF Named
<1>4. Named(f, m) = Named(f, m - 1) \cup (Locks \cap ToSet(Last(f)))
  <2>1. \A i : i \in 1 .. m <=> i \in 1 .. m - 1 \/ i = m
    BY <1>2
  <2>2. ASSUME NEW l \in Locks
        PROVE  (\E i \in 1 .. m : l \in ToSet(f[i]))
                  <=> (\E i \in 1 .. m - 1 : l \in ToSet(f[i])) \/ l \in ToSet(Last(f))
    BY <1>2, <2>1
  <2> QED
    BY <2>2 DEF Named
<1> QED
  BY <1>1, <1>3, <1>4 DEF g, m

LEMMA NamedGrows ==
  ASSUME NEW f, NEW m \in Nat, NEW n \in 0 .. m
  PROVE  Named(f, n) \subseteq Named(f, m)
<1>1. 1 .. n \subseteq 1 .. m
  OBVIOUS
<1> QED
  BY <1>1 DEF Named

\* A lock is counted if and only if a block names it.
LEMMA CountNamed ==
  ASSUME NEW f \in Seq(Frames), NEW l \in Locks
  PROVE  Count(f, l) \in Nat /\ (Count(f, l) > 0 <=> l \in Named(f, Len(f)))
<1> DEFINE A == {i \in DOMAIN f : l \in ToSet(f[i])}
<1>1. Len(f) \in Nat /\ DOMAIN f = 1 .. Len(f) /\ A \in SUBSET (1 .. Len(f))
  OBVIOUS
<1>2. IsFiniteSet(1 .. Len(f))
  BY <1>1, FS_Interval
<1>3. IsFiniteSet(A) /\ Cardinality(A) \in Nat /\ (Cardinality(A) = 0 <=> A = {})
  BY <1>1, <1>2, FS_Subset, FS_CardinalityType, FS_EmptySet
<1>4. A # {} <=> l \in Named(f, Len(f))
  BY <1>1 DEF Named
<1> QED
  BY <1>3, <1>4 DEF Count

\* A lock that the last block names and an earlier one too.
LEMMA CountTwo ==
  ASSUME NEW f \in Seq(Frames), f # <<>>, NEW l \in Locks, l \in ToSet(Last(f)),
         NEW n \in 0 .. Len(f) - 1, l \in Named(f, n)
  PROVE  Count(f, l) >= 2
<1>1. /\ Front(f) \in Seq(Frames) /\ Count(Front(f), l) \in Nat
      /\ Count(f, l) = Count(Front(f), l) + 1
  BY CountFront
<1>2. /\ Len(f) \in Nat \ {0} /\ Len(Front(f)) = Len(f) - 1
      /\ \A m \in 0 .. Len(f) - 1 : Named(Front(f), m) = Named(f, m)
  BY NamedFront
<1> DEFINE k == Len(f) - 1
<1>3. k \in Nat /\ n \in 0 .. k
  BY <1>2
<1>4. l \in Named(f, k)
  BY <1>3, NamedGrows
<1>5. l \in Named(Front(f), Len(Front(f)))
  BY <1>2, <1>3, <1>4
<1>6. Count(Front(f), l) > 0
  BY <1>1, <1>5, CountNamed
<1> QED
  BY <1>1, <1>6

-----------------------------------------------------------------------------
(* Stacks *)

LEMMA StackCard ==
  ASSUME NEW s \in Seq(Locks), Distinct(s)
  PROVE  IsFiniteSet(ToSet(s)) /\ Cardinality(ToSet(s)) = Len(s)
<1>1. Len(s) \in Nat /\ DOMAIN s = 1 .. Len(s)
  OBVIOUS
<1>2. IsFiniteSet(1 .. Len(s)) /\ Cardinality(1 .. Len(s)) = Len(s)
  BY <1>1, FS_Interval
<1>3. s \in Bijection(1 .. Len(s), ToSet(s))
  <2>1. s \in [1 .. Len(s) -> ToSet(s)]
    BY <1>1 DEF ToSet
  <2>2. \A i, j \in 1 .. Len(s) : s[i] = s[j] => i = j
    BY DEF Distinct
  <2>3. \A x \in ToSet(s) : \E i \in 1 .. Len(s) : s[i] = x
    BY <1>1 DEF ToSet
  <2> QED
    BY <2>1, <2>2, <2>3 DEF Bijection, Injection, Surjection, IsInjective
<1>4. ExistsBijection(1 .. Len(s), ToSet(s))
  BY <1>3 DEF ExistsBijection
<1> QED
  BY <1>2, <1>4, FS_Bijection

\* Stack r is s without the entry at p.
IsCut(r, s, p) ==
    /\ p \in 1 .. Len(s) /\ Len(r) = Len(s) - 1
    /\ \A i \in 1 .. Len(s) - 1 : r[i] = IF i < p THEN s[i] ELSE s[i + 1]

LEMMA RemoveAtCut ==
  ASSUME NEW s \in Seq(Locks), NEW p \in 1 .. Len(s)
  PROVE  RemoveAt(s, p) \in Seq(Locks) /\ IsCut(RemoveAt(s, p), s, p)
<1> DEFINE n == Len(s)
           a == SubSeq(s, 1, p - 1)
           b == SubSeq(s, p + 1, n)
<1>1. n \in Nat /\ p \in 1 .. n /\ \A i \in 1 .. n : s[i] \in Locks
  OBVIOUS
<1>2. p - 1 \in Int /\ p + 1 \in Int /\ n \in Int
  BY <1>1
<1>3. (\A i \in 1 .. p - 1 : s[i] \in Locks) /\ (\A i \in p + 1 .. n : s[i] \in Locks)
  BY <1>1
<1>4. /\ a \in Seq(Locks) /\ Len(a) = IF 1 <= p - 1 THEN p - 1 - 1 + 1 ELSE 0
      /\ \A i \in 1 .. p - 1 - 1 + 1 : a[i] = s[1 + i - 1]
  BY <1>2, <1>3, SubSeqProperties
<1>5. /\ b \in Seq(Locks) /\ Len(b) = IF p + 1 <= n THEN n - (p + 1) + 1 ELSE 0
      /\ \A i \in 1 .. n - (p + 1) + 1 : b[i] = s[p + 1 + i - 1]
  BY <1>2, <1>3, SubSeqProperties
<1> HIDE DEF n, a, b
<1>6. Len(a) = p - 1 /\ \A i \in 1 .. p - 1 : a[i] = s[i]
  BY <1>1, <1>4
<1>7. Len(b) = n - p /\ \A i \in 1 .. n - p : b[i] = s[p + i]
  BY <1>1, <1>5
<1>8. /\ a \o b \in Seq(Locks) /\ Len(a \o b) = Len(a) + Len(b)
      /\ \A i \in 1 .. Len(a) + Len(b) :
            (a \o b)[i] = IF i <= Len(a) THEN a[i] ELSE b[i - Len(a)]
  BY <1>4, <1>5, ConcatProperties
<1> DEFINE r == a \o b
<1> HIDE DEF r
<1>9. r \in Seq(Locks) /\ Len(r) = n - 1
  BY <1>1, <1>6, <1>7, <1>8 DEF r
<1>10. ASSUME NEW i \in 1 .. n - 1 PROVE r[i] = IF i < p THEN s[i] ELSE s[i + 1]
  <2>1. i \in 1 .. Len(a) + Len(b)
    BY <1>1, <1>6, <1>7
  <2>2. r[i] = IF i <= Len(a) THEN a[i] ELSE b[i - Len(a)]
    BY <1>8, <2>1 DEF r
  <2>3. CASE i < p
    BY <1>1, <1>6, <2>2, <2>3
  <2>4. CASE ~(i < p)
    <3>1. i - (p - 1) \in 1 .. n - p /\ p + (i - (p - 1)) = i + 1
      BY <1>1, <2>4
    <3>2. b[i - (p - 1)] = s[i + 1]
      BY <1>7, <3>1
    <3> QED
      BY <1>1, <1>6, <2>2, <2>4, <3>2
  <2> QED
    BY <2>3, <2>4
<1> QED
  BY <1>1, <1>9, <1>10 DEF RemoveAt, IsCut, r, a, b, n

LEMMA FrontCut ==
  ASSUME NEW s \in Seq(Locks), s # <<>>
  PROVE  Front(s) \in Seq(Locks) /\ IsCut(Front(s), s, Len(s))
<1>1. /\ Len(s) \in Nat \ {0} /\ Front(s) \in Seq(Locks) /\ Len(Front(s)) = Len(s) - 1
      /\ \A i \in 1 .. Len(s) - 1 : Front(s)[i] = s[i]
  BY FrontOf
<1> QED
  BY <1>1 DEF IsCut

LEMMA CutSet ==
  ASSUME NEW s \in Seq(Locks), Distinct(s), NEW r \in Seq(Locks), NEW p, IsCut(r, s, p)
  PROVE  Distinct(r) /\ ToSet(r) = ToSet(s) \ {s[p]} /\ s[p] \in ToSet(s)
<1> DEFINE n == Len(s)
<1>1. /\ n \in Nat /\ p \in 1 .. n /\ Len(r) = n - 1
      /\ \A i \in 1 .. n - 1 : r[i] = IF i < p THEN s[i] ELSE s[i + 1]
      /\ \A i, j \in 1 .. n : s[i] = s[j] => i = j
  BY DEF IsCut, Distinct
<1>2. ToSet(s) = {s[i] : i \in 1 .. n} /\ ToSet(r) = {r[i] : i \in 1 .. n - 1}
  <2>1. DOMAIN s = 1 .. n /\ DOMAIN r = 1 .. n - 1
    BY <1>1
  <2> QED
    BY <2>1 DEF ToSet
<1> HIDE DEF n
<1>3. Distinct(r)
  <2> SUFFICES ASSUME NEW i \in 1 .. n - 1, NEW j \in 1 .. n - 1, r[i] = r[j]
               PROVE  i = j
    BY <1>1 DEF Distinct
  <2> DEFINE a == IF i < p THEN i ELSE i + 1
             b == IF j < p THEN j ELSE j + 1
  <2>1. a \in 1 .. n /\ b \in 1 .. n /\ (a = b => i = j)
    BY <1>1
  <2>2. r[i] = s[a] /\ r[j] = s[b]
    BY <1>1
  <2> HIDE DEF a, b
  <2>3. a = b
    BY <1>1, <2>1, <2>2
  <2> QED
    BY <2>1, <2>3
<1>4. ASSUME NEW x \in ToSet(s), x # s[p] PROVE x \in ToSet(r)
  <2>1. PICK i \in 1 .. n : x = s[i]
    BY <1>2
  <2>2. CASE i < p
    <3>1. i \in 1 .. n - 1 /\ r[i] = s[i]
      BY <1>1, <2>2
    <3> QED
      BY <1>2, <2>1, <3>1
  <2>3. CASE i > p
    <3>1. i - 1 \in 1 .. n - 1 /\ r[i - 1] = s[i]
      BY <1>1, <2>3
    <3> QED
      BY <1>2, <2>1, <3>1
  <2> QED
    BY <1>1, <1>4, <2>1, <2>2, <2>3
<1>5. ASSUME NEW x \in ToSet(r) PROVE x \in ToSet(s) /\ x # s[p]
  <2>1. PICK i \in 1 .. n - 1 : x = r[i]
    BY <1>2
  <2> DEFINE a == IF i < p THEN i ELSE i + 1
  <2>2. a \in 1 .. n /\ a # p /\ r[i] = s[a]
    BY <1>1
  <2> HIDE DEF a
  <2>3. s[a] # s[p]
    BY <1>1, <2>2
  <2> QED
    BY <1>2, <2>1, <2>2, <2>3
<1> QED
  BY <1>1, <1>2, <1>3, <1>4, <1>5

LEMMA CutLayered ==
  ASSUME NEW f, NEW s \in Seq(Locks), Distinct(s), NEW r \in Seq(Locks), NEW p,
         IsCut(r, s, p), NEW set, NEW less, less \subseteq set, s[p] \notin less,
         Layered(f, s, set)
  PROVE  Layered(f, r, less)
<1>1. ToSet(r) = ToSet(s) \ {s[p]}
  BY CutSet
<1>2. Len(s) \in Nat /\ p \in 1 .. Len(s) /\ Len(r) = Len(s) - 1
  BY DEF IsCut
<1> SUFFICES ASSUME NEW n \in 0 .. Len(f)
             PROVE  /\ \A i, j \in 1 .. Len(r) :
                         (i < j /\ r[j] \in Named(f, n)) => r[i] \in Named(f, n)
                    /\ (\E y \in less : y \in Named(f, n) /\ y \notin ToSet(r))
                         => ToSet(r) \subseteq Named(f, n)
  BY DEF Layered
<1>3. /\ \A i, j \in 1 .. Len(s) :
            (i < j /\ s[j] \in Named(f, n)) => s[i] \in Named(f, n)
      /\ (\E y \in set : y \in Named(f, n) /\ y \notin ToSet(s))
            => ToSet(s) \subseteq Named(f, n)
  BY DEF Layered
<1>4. ASSUME NEW i \in 1 .. Len(r), NEW j \in 1 .. Len(r), i < j, r[j] \in Named(f, n)
      PROVE  r[i] \in Named(f, n)
  <2> DEFINE a == IF i < p THEN i ELSE i + 1
             b == IF j < p THEN j ELSE j + 1
  <2>1. a \in 1 .. Len(s) /\ b \in 1 .. Len(s) /\ a < b
    BY <1>2, <1>4
  <2>2. i \in 1 .. Len(s) - 1 /\ j \in 1 .. Len(s) - 1
    BY <1>2
  <2>3. r[i] = s[a] /\ r[j] = s[b]
    BY <2>2 DEF IsCut
  <2> HIDE DEF a, b
  <2> QED
    BY <1>3, <1>4, <2>1, <2>3
<1>5. ASSUME NEW y \in less, y \in Named(f, n), y \notin ToSet(r)
      PROVE  ToSet(r) \subseteq Named(f, n)
  BY <1>1, <1>3, <1>5
<1> QED
  BY <1>4, <1>5

\* A stack of held locks that is as long as they are many names all of them.
LEMMA Full ==
  ASSUME NEW s \in Seq(Locks), Distinct(s), NEW H, IsFiniteSet(H), ToSet(s) \subseteq H,
         Cardinality(H) = Len(s)
  PROVE  ToSet(s) = H
<1>1. IsFiniteSet(ToSet(s)) /\ Cardinality(ToSet(s)) = Len(s)
  BY StackCard
<1> QED
  BY <1>1, FS_Subset

-----------------------------------------------------------------------------
(* One thread moves: what the others have on record stays. *)

OthersStack(t) ==
    \A u \in Threads \ {t} :
        /\ held'[u] = held[u] /\ heldCount'[u] = heldCount[u]
        /\ HeldLocks(u)' = HeldLocks(u)

LEMMA KeepStack ==
  ASSUME StackInv, NEW t \in Threads, OthersKeep(t), OthersStack(t), StackTypes', StackOK(t)'
  PROVE  StackInv'
<1>1. ASSUME NEW u \in Threads \ {t} PROVE StackOK(u)'
  <2>1. StackOK(u)
    BY DEF StackInv
  <2>2. /\ frames'[u] = frames[u] /\ todo'[u] = todo[u] /\ pc'[u] = pc[u]
        /\ held'[u] = held[u] /\ heldCount'[u] = heldCount[u]
        /\ HeldLocks(u)' = HeldLocks(u)
    BY DEF OthersKeep, OthersStack
  <2>3. OnStack(u)' = OnStack(u) /\ \A l : Want(u, l)' = Want(u, l)
    BY <2>2 DEF OnStack, Want
  <2>4. Fits(u)' <=> Fits(u)
    BY <2>2, <2>3 DEF Fits
  <2>5. Crossed(u)' <=> Crossed(u)
    BY <2>2, <2>3 DEF Crossed
  <2> QED
    BY <2>1, <2>2, <2>3, <2>4, <2>5 DEF StackOK
<1> QED
  BY <1>1 DEF StackInv

\* A step that leaves the words and the record alone.
LEMMA QuietStack ==
  ASSUME StackInv, NEW t \in Threads, OthersKeep(t), UNCHANGED <<holder, record, frames>>,
         pc[t] # "word", pc'[t] # "word", Crossed(t) => Crossed(t)'
  PROVE  StackInv'
<1>1. /\ StackTypes /\ StackOK(t) /\ UNCHANGED <<held, heldCount>>
      /\ \A u : HeldLocks(u)' = HeldLocks(u)
  BY DEF StackInv, HeldLocks, record
<1>2. OthersStack(t) /\ StackTypes'
  BY <1>1 DEF OthersStack, StackTypes
<1>3. OnStack(t)' = OnStack(t)
  BY <1>1 DEF OnStack
<1>4. Fits(t)' <=> Fits(t)
  BY <1>1, <1>3 DEF Fits
<1>5. StackOK(t)'
  BY <1>1, <1>3, <1>4 DEF StackOK
<1> QED
  BY <1>2, <1>5, KeepStack

LEMMA QuietSteps ==
  ASSUME LockInv, StackInv, NEW t \in Threads,
         Enter(t) \/ Own(t) \/ LeaveInner(t) \/ LeaveClear(t)
  PROVE  StackInv'
<1>1. LockTypes /\ Matches(t) /\ \A l : Want(t, l) \in Nat
  BY WantNat DEF LockInv
<1>2. CASE Enter(t) \/ Own(t)
  <2>1. pc[t] \in Taking /\ pc[t] # "word" /\ Onward(t, "ask") /\ frames' = frames
        /\ UNCHANGED <<holder, record>>
    BY <1>2 DEF Enter, Own, Taking
  <2>2. OthersKeep(t) /\ pc'[t] \in {"ask", "run"}
    BY <2>1, OnwardTake
  <2>3. ~Crossed(t)
    BY <2>1 DEF Crossed, Taking, Giving
  <2> QED
    BY <2>1, <2>2, <2>3, QuietStack
<1>3. CASE LeaveInner(t)
  <2> DEFINE l0 == Head(todo[t])
  <2>1. /\ pc[t] = "leave" /\ l0 \in Objs /\ depth[l0] > 1 /\ Onward(t, "leave")
        /\ UNCHANGED <<holder, record, frames>>
    BY <1>3 DEF LeaveInner
  <2>2. OthersKeep(t) /\ pc'[t] \in {"leave", "run"} /\ Want(t, l0) >= 1
    BY <2>1, OnwardGive DEF Giving
  <2> HIDE DEF l0
  <2>3. depth[l0] = Want(t, l0)
    BY <1>1, <2>1, <2>2 DEF Matches, OwnersMatch
  <2>4. ~Crossed(t)
    BY <1>1, <2>1, <2>3 DEF Crossed, l0
  <2> QED
    BY <2>1, <2>2, <2>4, QuietStack
<1>4. CASE LeaveClear(t)
  <2>1. /\ pc[t] = "leave" /\ pc' = [pc EXCEPT ![t] = "free"] /\ Head(todo[t]) \in Objs
        /\ UNCHANGED <<holder, record, frames, todo>>
    BY <1>4 DEF LeaveClear, GoTo
  <2>2. OthersKeep(t) /\ pc'[t] = "free"
    BY <1>1, <2>1 DEF LockTypes, OthersKeep
  <2>3. SameCall(t)
    BY <2>1, <2>2 DEF SameCall, Giving
  <2>4. \A l : Want(t, l)' = Want(t, l)
    BY <2>3, PlaceStep
  <2>5. HeldLocks(t)' = HeldLocks(t)
    BY <2>1 DEF HeldLocks
  <2>6. Crossed(t) => Crossed(t)'
    BY <2>1, <2>2, <2>4, <2>5 DEF Crossed, Giving, record
  <2> QED
    BY <2>1, <2>2, <2>6, QuietStack
<1> QED
  BY <1>2, <1>3, <1>4

\* All that a thread holds is named by its blocks, but for what it is giving back.
LEMMA HeldNamed ==
  ASSUME LockInv, NEW t \in Threads, NEW l \in HeldLocks(t), pc[t] \in Giving => l \notin ToSet(todo[t])
  PROVE  l \in Named(frames[t], Len(frames[t]))
<1>1. LockTypes /\ Matches(t) /\ l \in Locks /\ holder[l] = t
  BY DEF LockInv, HeldLocks
<1> DEFINE f == frames[t]
           d == todo[t]
<1>2. f \in Seq(Frames) /\ Shape(f, d, pc[t])
  BY <1>1 DEF LockTypes, Matches
<1> HIDE DEF f, d
<1>3. Count(f, l) \in Nat /\ (Count(f, l) > 0 <=> l \in Named(f, Len(f)))
  BY <1>1, <1>2, CountNamed
<1>4. CASE pc[t] = "own" /\ l = Head(d)
  <2>1. f # <<>> /\ LeftToTake(ToSet(Last(f)), d)
    BY <1>2, <1>4 DEF Shape, Taking
  <2>2. l \in ToSet(Last(f))
    BY <1>4, <2>1, ToSetOf DEF LeftToTake
  <2>3. /\ Len(f) \in Nat \ {0}
        /\ Named(f, Len(f)) = Named(f, Len(f) - 1) \cup (Locks \cap ToSet(Last(f)))
    BY <1>2, <2>1, NamedFront
  <2> QED
    BY <1>1, <2>2, <2>3 DEF f
<1>5. CASE Due(f, d, pc[t], l) > 0
  <2>1. pc[t] = "run" => d = <<>>
    BY <1>2 DEF Shape
  <2>2. Count(f, l) > 0
    BY <1>1, <1>3, <1>5, <2>1, ToSetOf DEF Due, LockTypes, Places, Taking, Giving, d
  <2> QED
    BY <1>3, <2>2 DEF f
<1> QED
  BY <1>1, <1>4, <1>5 DEF Matches, WordsMatch, Want, f, d

\* A thread that is not giving locks back has a stack of what it holds.
LEMMA NotGiving ==
  ASSUME StackInv, NEW t \in Threads, pc[t] \notin Giving
  PROVE  StackOK(t) /\ Fits(t)
  BY DEF StackInv, StackOK, Crossed

LEMMA SyncStack ==
  ASSUME LockInv, StackInv, NEW t \in Threads, NEW x \in Frames, Sync(t, x)
  PROVE  StackInv'
<1> DEFINE f == frames[t]
           s == held[t]
           H == HeldLocks(t)
<1>1. /\ frames' = [frames EXCEPT ![t] = Append(f, x)]
      /\ pc' = [pc EXCEPT ![t] = "ask"] /\ pc[t] = "run"
      /\ UNCHANGED <<holder, held, heldCount>>
  BY DEF Sync, GoTo, record
<1>2. LockTypes /\ f \in Seq(Frames) /\ StackTypes
  BY DEF LockInv, LockTypes, StackInv
<1>3. frames'[t] = Append(f, x) /\ pc'[t] = "ask" /\ OthersKeep(t)
  BY <1>1, <1>2 DEF LockTypes, OthersKeep, Sync
<1>4. (\A u : HeldLocks(u)' = HeldLocks(u)) /\ OthersStack(t) /\ StackTypes'
  BY <1>1, <1>2 DEF HeldLocks, OthersStack, StackTypes
<1>5. OnStack(t) = H /\ OnStack(t)' = H
  BY <1>1, <1>3, <1>4 DEF OnStack
<1>6. StackOK(t) /\ Fits(t)
  BY <1>1, NotGiving DEF Giving
<1>7. H \subseteq Named(f, Len(f))
  BY <1>1, HeldNamed DEF Giving
<1> HIDE DEF f, s, H
<1>8. Layered(Append(f, x), s, H)
  <2>1. /\ Len(Append(f, x)) = Len(f) + 1
        /\ \A n \in 0 .. Len(f) : Named(Append(f, x), n) = Named(f, n)
        /\ Named(Append(f, x), Len(f) + 1) = Named(f, Len(f)) \cup (Locks \cap ToSet(x))
    BY <1>2, NamedAppend
  <2> DEFINE m == Len(f)
             g == Append(f, x)
  <2>2. m \in Nat /\ Layered(f, s, H) /\ ToSet(s) \subseteq H /\ s \in Seq(Locks)
    BY <1>2, <1>5, <1>6 DEF StackOK, Fits, f, s, H
  <2> HIDE DEF m, g
  <2>3. ASSUME NEW n \in 0 .. m
        PROVE  /\ \A i, j \in 1 .. Len(s) :
                    (i < j /\ s[j] \in Named(g, n)) => s[i] \in Named(g, n)
               /\ (\E y \in H : y \in Named(g, n) /\ y \notin ToSet(s))
                    => ToSet(s) \subseteq Named(g, n)
    BY <2>1, <2>2 DEF Layered, m, g
  <2>4. ToSet(s) \subseteq Named(g, m + 1)
    BY <1>7, <2>1, <2>2 DEF m, g
  <2>5. \A i \in 1 .. Len(s) : s[i] \in ToSet(s)
    BY <2>2 DEF ToSet
  <2>6. \A n \in 0 .. m + 1 : n \in 0 .. m \/ n = m + 1
    BY <2>2
  <2>7. ASSUME NEW n \in 0 .. m + 1
        PROVE  /\ \A i, j \in 1 .. Len(s) :
                    (i < j /\ s[j] \in Named(g, n)) => s[i] \in Named(g, n)
               /\ (\E y \in H : y \in Named(g, n) /\ y \notin ToSet(s))
                    => ToSet(s) \subseteq Named(g, n)
    BY <2>3, <2>4, <2>5, <2>6
  <2> QED
    BY <2>1, <2>7 DEF Layered, m, g
<1>9. Fits(t)'
  BY <1>1, <1>5, <1>6 DEF Fits
<1>10. StackOK(t)'
  BY <1>1, <1>3, <1>4, <1>5, <1>6, <1>8, <1>9 DEF StackOK, s, H
<1> QED
  BY <1>3, <1>4, <1>10, KeepStack

LEMMA EndStack ==
  ASSUME LockInv, StackInv, NEW t \in Threads, EndSync(t)
  PROVE  StackInv'
<1> DEFINE f == frames[t]
           s == held[t]
           H == HeldLocks(t)
<1>1. /\ frames' = [frames EXCEPT ![t] = Front(f)] /\ f # <<>>
      /\ pc' = [pc EXCEPT ![t] = "leave"] /\ pc[t] = "run"
      /\ UNCHANGED <<holder, held, heldCount>>
  BY DEF EndSync, GoTo, record
<1>2. LockTypes /\ f \in Seq(Frames) /\ StackTypes
  BY DEF LockInv, LockTypes, StackInv
<1>3. frames'[t] = Front(f) /\ pc'[t] = "leave" /\ OthersKeep(t)
  BY <1>1, <1>2 DEF LockTypes, OthersKeep, EndSync
<1>4. (\A u : HeldLocks(u)' = HeldLocks(u)) /\ OthersStack(t) /\ StackTypes'
  BY <1>1, <1>2 DEF HeldLocks, OthersStack, StackTypes
<1>5. OnStack(t) = H /\ OnStack(t)' = H
  BY <1>1, <1>3, <1>4 DEF OnStack
<1>6. StackOK(t) /\ Fits(t)
  BY <1>1, NotGiving DEF Giving
<1> HIDE DEF f, s, H
<1>7. Layered(Front(f), s, H)
  <2>1. /\ Len(f) \in Nat \ {0} /\ Len(Front(f)) = Len(f) - 1
        /\ \A n \in 0 .. Len(f) - 1 : Named(Front(f), n) = Named(f, n)
    BY <1>1, <1>2, NamedFront
  <2> DEFINE m == Len(f)
             g == Front(f)
  <2>2. Layered(f, s, H) /\ m \in Nat \ {0}
    BY <1>5, <1>6, <2>1 DEF StackOK, f, s, H
  <2> HIDE DEF m, g
  <2>3. \A n \in 0 .. m - 1 : n \in 0 .. m
    BY <2>2
  <2>4. ASSUME NEW n \in 0 .. m - 1
        PROVE  /\ \A i, j \in 1 .. Len(s) :
                    (i < j /\ s[j] \in Named(g, n)) => s[i] \in Named(g, n)
               /\ (\E y \in H : y \in Named(g, n) /\ y \notin ToSet(s))
                    => ToSet(s) \subseteq Named(g, n)
    BY <2>1, <2>2, <2>3 DEF Layered, m, g
  <2> QED
    BY <2>1, <2>4 DEF Layered, m, g
<1>8. Fits(t)'
  BY <1>1, <1>5, <1>6 DEF Fits
<1>9. StackOK(t)'
  BY <1>1, <1>3, <1>4, <1>5, <1>6, <1>7, <1>8 DEF StackOK, s, H
<1> QED
  BY <1>3, <1>4, <1>9, KeepStack

LEMMA WordStack ==
  ASSUME LockInv, StackInv, NEW t \in Threads, Word(t)
  PROVE  StackInv'
<1> DEFINE l0 == Head(todo[t])
           H == HeldLocks(t)
<1>1. /\ pc[t] = "word" /\ holder[l0] = NoThread
      /\ holder' = [holder EXCEPT ![l0] = t]
      /\ UNCHANGED <<held, heldCount, frames>>
  BY DEF Word, record
<1>2. LockTypes /\ Matches(t) /\ StackTypes
  BY DEF LockInv, StackInv
<1>3. OthersKeep(t) /\ pc'[t] # "word"
  <2>1. CASE l0 \in Objs
    BY <1>1, <1>2, <2>1 DEF Word, GoTo, OthersKeep, LockTypes
  <2>2. CASE l0 \notin Objs
    <3>1. Onward(t, "ask")
      BY <2>2 DEF Word
    <3>2. OthersKeep(t) /\ pc'[t] \in {"ask", "run"}
      BY <1>1, <3>1, OnwardTake DEF Taking
    <3> QED
      BY <3>2
  <2> QED
    BY <2>1, <2>2
<1>4. l0 \in Locks
  BY <1>1, <1>2 DEF Matches, Shape, Taking, LeftToTake, Locks
<1>5. l0 \notin H /\ HeldLocks(t)' = H \cup {l0} /\ \A u \in Threads \ {t} : HeldLocks(u)' = HeldLocks(u)
  <2> HIDE DEF l0
  <2> QED
    BY <1>1, <1>2, <1>4, LocksAssumption DEF HeldLocks, LockTypes
<1>6. OthersStack(t) /\ StackTypes'
  BY <1>1, <1>2, <1>5 DEF OthersStack, StackTypes
<1>7. OnStack(t) = H \cup {l0} /\ OnStack(t)' = H \cup {l0}
  BY <1>1, <1>3, <1>5 DEF OnStack
<1>8. StackOK(t) /\ Fits(t)
  BY <1>1, NotGiving DEF Giving
<1> HIDE DEF l0, H
<1>9. IsFiniteSet(H \cup {l0}) /\ Cardinality(H \cup {l0}) = Cardinality(H) + 1
      /\ Cardinality(H) \in Nat
  <2>1. IsFiniteSet(H)
    BY <1>8 DEF StackOK, H
  <2> QED
    BY <1>5, <2>1, FS_AddElement, FS_CardinalityType
<1>10. Fits(t)'
  BY <1>1, <1>7, <1>8 DEF Fits
<1>11. StackOK(t)'
  BY <1>1, <1>3, <1>5, <1>7, <1>8, <1>9, <1>10 DEF StackOK, H
<1> QED
  BY <1>3, <1>6, <1>11, KeepStack

\* A lock that is to be taken, is named by a block before the last and is asked
\* for again is held.
LEMMA AskedAgain ==
  ASSUME LockInv, NEW t \in Threads, pc[t] = "ask",
         NEW n \in 0 .. Len(frames[t]) - 1, Head(todo[t]) \in Named(frames[t], n)
  PROVE  Head(todo[t]) \in HeldLocks(t)
<1> DEFINE f == frames[t]
           d == todo[t]
           l0 == Head(d)
<1>1. LockTypes /\ Matches(t) /\ f \in Seq(Frames) /\ f # <<>> /\ LeftToTake(ToSet(Last(f)), d)
  BY DEF LockInv, LockTypes, Matches, Shape, Taking
<1> HIDE DEF f, d
<1>2. l0 \in Locks /\ l0 \in ToSet(d) /\ l0 \in ToSet(Last(f))
  BY <1>1, ToSetOf DEF LeftToTake, Locks
<1> HIDE DEF l0
<1>3. n \in 0 .. Len(f) - 1 /\ l0 \in Named(f, n)
  BY DEF f, l0, d
<1>4. Count(f, l0) >= 2 /\ Count(f, l0) \in Nat
  BY <1>1, <1>2, <1>3, CountTwo, CountNat
<1>5. Due(f, d, "ask", l0) > 0
  BY <1>2, <1>4 DEF Due, Taking
<1> QED
  BY <1>1, <1>2, <1>5 DEF Matches, WordsMatch, Want, HeldLocks, f, d, l0

\* The lock that is asked for is not on the stack.
LEMMA AskedNew ==
  ASSUME LockInv, StackInv, NEW t \in Threads, Ask(t)
  PROVE  Head(todo[t]) \in Locks /\ Head(todo[t]) \notin ToSet(held[t])
<1> DEFINE l0 == Head(todo[t])
<1>1. pc[t] = "ask" /\ IF l0 \in Objs THEN owner[l0] # t ELSE l0 \notin ToSet(held[t])
  BY DEF Ask
<1>2. Matches(t)
  BY DEF LockInv
<1>3. l0 \in Locks
  BY <1>1, <1>2 DEF Matches, Shape, Taking, LeftToTake, Locks
<1>4. ToSet(held[t]) \subseteq HeldLocks(t)
  <2>1. Fits(t)
    BY <1>1, NotGiving DEF Giving
  <2> QED
    BY <1>1, <2>1 DEF Fits, OnStack
<1>5. l0 \in Objs => l0 \notin HeldLocks(t)
  BY <1>1, <1>2 DEF Matches, OwnersMatch, WordsMatch, HeldLocks
<1> QED
  BY <1>1, <1>3, <1>4, <1>5

LEMMA PushLayered ==
  ASSUME NEW f, NEW s \in Seq(Locks), NEW H, NEW l0 \in Locks, Layered(f, s, H),
         Len(f) \in Nat, H \subseteq Named(f, Len(f)), l0 \in Named(f, Len(f)),
         ToSet(s) \subseteq H, l0 \notin ToSet(s),
         \A n \in 0 .. Len(f) - 1 : l0 \in Named(f, n) => l0 \in H
  PROVE  /\ Layered(f, s, H \cup {l0})
         /\ H = ToSet(s) => Layered(f, Append(s, l0), H \cup {l0})
<1> DEFINE m == Len(f)
           k == Len(s)
           r == Append(s, l0)
<1>1. /\ m \in Nat /\ k \in Nat /\ r \in Seq(Locks) /\ Len(r) = k + 1
      /\ (\A i \in 1 .. k : r[i] = s[i] /\ s[i] \in ToSet(s)) /\ r[k + 1] = l0
  BY DEF ToSet
<1>2. ToSet(r) = ToSet(s) \cup {l0}
  <2>1. DOMAIN s = 1 .. k /\ DOMAIN r = 1 .. k + 1
    BY <1>1
  <2>2. ToSet(s) = {s[i] : i \in 1 .. k} /\ ToSet(r) = {r[i] : i \in 1 .. k + 1}
    BY <2>1 DEF ToSet
  <2>3. \A i : i \in 1 .. k + 1 <=> i \in 1 .. k \/ i = k + 1
    BY <1>1
  <2> HIDE DEF r, k
  <2> QED
    BY <1>1, <2>2, <2>3
<1> HIDE DEF m, k, r
<1>3. ASSUME NEW n \in 0 .. m
      PROVE  /\ \A i, j \in 1 .. k : (i < j /\ s[j] \in Named(f, n)) => s[i] \in Named(f, n)
             /\ (\E y \in H : y \in Named(f, n) /\ y \notin ToSet(s))
                   => ToSet(s) \subseteq Named(f, n)
  BY DEF Layered, m, k
<1>4. ASSUME NEW n \in 0 .. m, l0 \in Named(f, n) PROVE ToSet(s) \subseteq Named(f, n)
  <2>1. CASE n = m
    BY <2>1 DEF m
  <2>2. CASE n \in 0 .. m - 1
    <3>1. l0 \in H
      BY <1>4, <2>2 DEF m
    <3> QED
      BY <1>3, <1>4, <3>1
  <2> QED
    BY <1>1, <2>1, <2>2
<1>5. Layered(f, s, H \cup {l0})
  <2>1. ASSUME NEW n \in 0 .. m
        PROVE  /\ \A i, j \in 1 .. k : (i < j /\ s[j] \in Named(f, n)) => s[i] \in Named(f, n)
               /\ (\E y \in H \cup {l0} : y \in Named(f, n) /\ y \notin ToSet(s))
                     => ToSet(s) \subseteq Named(f, n)
    BY <1>3, <1>4
  <2> QED
    BY <2>1 DEF Layered, m, k
<1>6. ASSUME H = ToSet(s) PROVE Layered(f, r, H \cup {l0})
  <2>1. ASSUME NEW n \in 0 .. m, NEW i \in 1 .. k + 1, NEW j \in 1 .. k + 1,
               i < j, r[j] \in Named(f, n)
        PROVE  r[i] \in Named(f, n)
    <3>1. i \in 1 .. k /\ r[i] = s[i] /\ s[i] \in ToSet(s)
      BY <1>1, <2>1
    <3>2. CASE j = k + 1
      BY <1>1, <1>4, <2>1, <3>1, <3>2
    <3>3. CASE j \in 1 .. k
      BY <1>1, <1>3, <2>1, <3>1, <3>3
    <3> QED
      BY <1>1, <3>2, <3>3
  <2>2. ASSUME NEW n \in 0 .. m, \E y \in H \cup {l0} : y \in Named(f, n) /\ y \notin ToSet(r)
        PROVE  ToSet(r) \subseteq Named(f, n)
    BY <1>2, <1>6, <2>2
  <2> QED
    BY <1>1, <2>1, <2>2 DEF Layered, m
<1> QED
  BY <1>5, <1>6 DEF r

LEMMA AskStack ==
  ASSUME LockInv, StackInv, NEW t \in Threads, Ask(t)
  PROVE  StackInv'
<1> DEFINE l0 == Head(todo[t])
           H == HeldLocks(t)
           f == frames[t]
           s == held[t]
           c == heldCount[t]
           r == IF c < HeldMax THEN Append(s, l0) ELSE s
<1>1. /\ pc[t] = "ask" /\ pc' = [pc EXCEPT ![t] = "word"]
      /\ held' = [held EXCEPT ![t] = r] /\ heldCount' = [heldCount EXCEPT ![t] = c + 1]
      /\ UNCHANGED <<holder, frames, todo>>
  BY DEF Ask, GoTo, OrderTake, Pushed
<1>2. LockTypes /\ Matches(t) /\ StackTypes /\ f \in Seq(Frames)
  BY DEF LockInv, StackInv, LockTypes
<1>3. /\ OthersKeep(t) /\ pc'[t] = "word" /\ frames'[t] = f /\ Head(todo'[t]) = l0
      /\ held'[t] = r /\ heldCount'[t] = c + 1
  BY <1>1, <1>2 DEF OthersKeep, LockTypes, StackTypes
<1>4. \A u : HeldLocks(u)' = HeldLocks(u)
  BY <1>1 DEF HeldLocks
<1>5. OthersStack(t) /\ StackTypes'
  <2> HIDE DEF r, c
  <2>1. c \in Nat
    BY <1>2 DEF StackTypes, c
  <2>2. heldCount' \in [Threads -> Nat]
    BY <1>1, <1>2, <2>1 DEF StackTypes
  <2>3. held' = [u \in Threads |-> held'[u]]
    BY <1>1, <1>2 DEF StackTypes
  <2> QED
    BY <1>1, <1>2, <1>4, <2>2, <2>3 DEF OthersStack, StackTypes
<1>6. OnStack(t) = H /\ OnStack(t)' = H \cup {l0}
  BY <1>1, <1>3, <1>4 DEF OnStack
<1>7. StackOK(t) /\ Fits(t)
  BY <1>1, NotGiving DEF Giving
<1>8. l0 \in Locks /\ l0 \notin ToSet(s)
  BY AskedNew
<1>9. H \subseteq Named(f, Len(f))
  BY <1>1, HeldNamed DEF Giving
<1>10. l0 \in Named(f, Len(f))
  <2>1. f # <<>> /\ LeftToTake(ToSet(Last(f)), todo[t])
    BY <1>1, <1>2 DEF Matches, Shape, Taking
  <2>2. l0 \in ToSet(Last(f))
    BY <2>1, ToSetOf DEF LeftToTake
  <2>3. Named(f, Len(f)) = Named(f, Len(f) - 1) \cup (Locks \cap ToSet(Last(f)))
    BY <1>2, <2>1, NamedFront
  <2> QED
    BY <1>8, <2>2, <2>3
<1>11. \A n \in 0 .. Len(f) - 1 : l0 \in Named(f, n) => l0 \in H
  BY <1>1, AskedAgain
<1>12. /\ s \in Seq(Locks) /\ Distinct(s) /\ Layered(f, s, H) /\ IsFiniteSet(H)
       /\ c = Cardinality(H) /\ c \in Nat /\ ToSet(s) \subseteq H
       /\ Len(s) = IF c < HeldMax THEN c ELSE HeldMax
  <2>1. Cardinality(H) \in Nat
    BY <1>7, FS_CardinalityType DEF StackOK
  <2>2. c = Cardinality(H) + 0
    BY <1>1, <1>7 DEF StackOK
  <2> QED
    BY <1>6, <1>7, <2>1, <2>2 DEF StackOK, Fits
<1> HIDE DEF l0, H, f, s, c
<1>13. HeldMax \in Nat /\ Len(s) \in Nat /\ Len(f) \in Nat
  BY <1>2, <1>12, LocksAssumption
<1>14. /\ Layered(f, s, H \cup {l0})
       /\ H = ToSet(s) => Layered(f, Append(s, l0), H \cup {l0})
  BY <1>8, <1>9, <1>10, <1>11, <1>12, <1>13, PushLayered
<1>15. /\ r \in Seq(Locks) /\ Distinct(r) /\ Layered(f, r, H \cup {l0})
       /\ ToSet(r) \subseteq H \cup {l0}
       /\ Len(r) = IF c + 1 < HeldMax THEN c + 1 ELSE HeldMax
  <2>1. CASE c < HeldMax
    <3>1. r = Append(s, l0)
      BY <2>1
    <3>2. ToSet(s) = H
      BY <1>12, <2>1, Full
    <3> HIDE DEF r
    <3> DEFINE k == Len(s)
    <3>3. /\ k \in Nat /\ r \in Seq(Locks) /\ Len(r) = k + 1 /\ r[k + 1] = l0
          /\ (\A i \in 1 .. k : r[i] = s[i] /\ s[i] \in ToSet(s))
          /\ DOMAIN r = 1 .. k + 1
      BY <1>8, <1>12, <3>1 DEF ToSet
    <3>4. \A i, j \in 1 .. k : s[i] = s[j] => i = j
      BY <1>12 DEF Distinct
    <3>5. k = c
      BY <1>12, <2>1
    <3> HIDE DEF k
    <3>6. \A i : i \in 1 .. k + 1 <=> i \in 1 .. k \/ i = k + 1
      BY <3>3
    <3>7. Distinct(r)
      BY <1>8, <3>3, <3>4, <3>6 DEF Distinct
    <3>8. ToSet(r) \subseteq H \cup {l0}
      BY <1>12, <3>3, <3>6 DEF ToSet
    <3>9. Len(r) = IF c + 1 < HeldMax THEN c + 1 ELSE HeldMax
      BY <1>12, <1>13, <2>1, <3>3, <3>5
    <3> QED
      BY <1>14, <3>1, <3>2, <3>3, <3>7, <3>8, <3>9
  <2>2. CASE ~(c < HeldMax)
    BY <1>12, <1>13, <1>14, <2>2
  <2> QED
    BY <2>1, <2>2
<1> HIDE DEF r
<1>16. Fits(t)'
  BY <1>3, <1>6, <1>15 DEF Fits
<1>17. StackOK(t)'
  BY <1>3, <1>4, <1>6, <1>12, <1>15, <1>16 DEF StackOK, H
<1> QED
  BY <1>3, <1>5, <1>17, KeepStack

\* The lock is given back for good: no block names it any more.
GivesBack(t) ==
    /\ pc[t] \in Giving /\ Want(t, Head(todo[t])) = 1
    /\ holder' = [holder EXCEPT ![Head(todo[t])] = NoThread]
    /\ OrderGive(t, Head(todo[t])) /\ Onward(t, "leave") /\ frames' = frames

LEMMA GivenUnnamed ==
  ASSUME LockInv, NEW t \in Threads, GivesBack(t)
  PROVE  /\ Head(todo[t]) \in HeldLocks(t) /\ Head(todo[t]) \in ToSet(todo[t])
         /\ Head(todo[t]) \notin Named(frames[t], Len(frames[t]))
         /\ \A y \in HeldLocks(t) :
              y \notin Named(frames[t], Len(frames[t])) => y \in ToSet(todo[t])
<1> DEFINE f == frames[t]
           d == todo[t]
           l0 == Head(d)
<1>1. LockTypes /\ Matches(t) /\ f \in Seq(Frames) /\ LeftToGive(d) /\ pc[t] \in Giving
  BY DEF LockInv, LockTypes, Matches, Shape, GivesBack
<1>2. l0 \in Locks /\ l0 \in ToSet(d)
  <2> HIDE DEF d
  <2> QED
    BY <1>1, ToSetOf DEF LeftToGive, Locks
<1>3. Due(f, d, pc[t], l0) = 1
  BY DEF GivesBack, Want
<1>4. \A y \in HeldLocks(t) : y \notin Named(f, Len(f)) => y \in ToSet(d)
  BY HeldNamed
<1> HIDE DEF f, d, l0
<1>5. Count(f, l0) \in Nat /\ (Count(f, l0) > 0 <=> l0 \in Named(f, Len(f)))
  BY <1>1, <1>2, CountNamed
<1>6. l0 \notin Named(f, Len(f))
  BY <1>1, <1>2, <1>3, <1>5 DEF Due, Taking, Giving
<1>7. l0 \in HeldLocks(t)
  BY <1>1, <1>2 DEF Matches, WordsMatch, GivesBack, HeldLocks, l0, d
<1> QED
  BY <1>2, <1>4, <1>6, <1>7 DEF f, d, l0

\* Past the end of the array a lock on the stack is given back: it is the last
\* entry, and the one lock that is not on the stack goes next.
LEMMA CrossesEnd ==
  ASSUME NEW f, NEW d, LeftToGive(d), NEW s \in Seq(Locks), Distinct(s), NEW H, NEW m \in Nat, m = Len(f),
         IsFiniteSet(H), ToSet(s) \subseteq H, Cardinality(H) > Len(s), Layered(f, s, H),
         Head(d) \in ToSet(s), Head(d) \notin Named(f, m),
         \A y \in H : y \notin Named(f, m) => y \in ToSet(d)
  PROVE  /\ \E b \in Locks : /\ d = <<Head(d), b>> /\ b # Head(d) /\ b \notin ToSet(s) /\ b \in H
                             /\ b \notin Named(f, m)
         /\ Cardinality(H) = Len(s) + 1 /\ Len(s) > 0
         /\ s[Len(s)] = Head(d)
<1> DEFINE k == Len(s)
           l0 == Head(d)
<1>1. /\ k \in Nat /\ k > 0 /\ (\A i \in 1 .. k : s[i] \in ToSet(s))
      /\ \E i \in 1 .. k : s[i] = l0
  BY DEF ToSet
<1>2. /\ IsFiniteSet(ToSet(s)) /\ Cardinality(ToSet(s)) = k
  BY StackCard
<1>3. /\ \A i, j \in 1 .. k : (i < j /\ s[j] \in Named(f, m)) => s[i] \in Named(f, m)
      /\ (\E y \in H : y \in Named(f, m) /\ y \notin ToSet(s)) => ToSet(s) \subseteq Named(f, m)
  BY DEF Layered
<1>4. \A i, j \in 1 .. k : s[i] = s[j] => i = j
  BY DEF Distinct
<1>5. Cardinality(H) > k
  OBVIOUS
<1>6. l0 \in ToSet(s) /\ l0 \notin Named(f, m) /\ l0 = Head(d)
  OBVIOUS
<1> HIDE DEF k, l0
<1>7. PICK b \in H : b \notin ToSet(s)
  <2>1. H # ToSet(s)
    BY <1>1, <1>2, <1>5
  <2> QED
    BY <2>1
<1>8. \A y \in H : y \notin ToSet(s) => y \notin Named(f, m) /\ y \in ToSet(d)
  BY <1>3, <1>6
<1>9. d = <<l0, b>> /\ b \in Locks /\ b # l0 /\ ToSet(d) = {l0, b}
  BY <1>6, <1>7, <1>8, ToSetOf DEF LeftToGive, Locks
<1>10. H = ToSet(s) \cup {b}
  BY <1>6, <1>7, <1>8, <1>9
<1>11. Cardinality(H) = k + 1
  BY <1>2, <1>7, <1>10, FS_AddElement
<1>12. s[k] = l0
  <2>1. PICK i \in 1 .. k : s[i] = l0
    BY <1>1
  <2>2. CASE i < k
    <3>1. k \in 1 .. k /\ s[k] \in H
      BY <1>1
    <3>2. s[k] \notin Named(f, m)
      BY <1>3, <1>6, <2>1, <2>2, <3>1
    <3>3. s[k] \in {l0, b}
      BY <1>9, <3>1, <3>2
    <3> QED
      BY <1>1, <1>7, <3>1, <3>3
  <2> QED
    BY <1>1, <2>1, <2>2
<1> QED
  BY <1>1, <1>6, <1>7, <1>8, <1>9, <1>11, <1>12 DEF k

LEMMA GiveStack ==
  ASSUME LockInv, StackInv, NEW t \in Threads, GivesBack(t)
  PROVE  StackInv'
<1> DEFINE d == todo[t]
           l0 == Head(d)
           H == HeldLocks(t)
           f == frames[t]
           s == held[t]
           c == heldCount[t]
           r == IF c = 0 \/ c > HeldMax THEN s
                ELSE IF Topmost(t, l0) # 0 THEN RemoveAt(s, Topmost(t, l0)) ELSE Front(s)
           m == Len(f)
<1>1. /\ pc[t] \in Giving /\ Want(t, l0) = 1 /\ holder' = [holder EXCEPT ![l0] = NoThread]
      /\ Onward(t, "leave") /\ frames' = frames
      /\ held' = [held EXCEPT ![t] = r]
      /\ heldCount' = [heldCount EXCEPT ![t] = IF c = 0 THEN 0 ELSE c - 1]
  BY DEF GivesBack, OrderGive
<1>2. LockTypes /\ Matches(t) /\ StackTypes /\ f \in Seq(Frames) /\ StackOK(t) /\ m \in Nat
  BY DEF LockInv, StackInv, LockTypes
<1>3. LeftToGive(d)
  BY <1>1, <1>2 DEF Matches, Shape
<1>4. /\ l0 \in H /\ l0 \notin Named(f, m) /\ l0 \in ToSet(d)
      /\ \A y \in H : y \notin Named(f, m) => y \in ToSet(d)
  BY GivenUnnamed
<1>5. /\ OthersKeep(t) /\ pc'[t] \in {"leave", "run"}
      /\ \A l : Want(t, l)' = IF l = l0 THEN Want(t, l) - 1 ELSE Want(t, l)
  BY <1>1, OnwardGive
<1>6. todo'[t] = Tail(d) /\ (Len(d) > 1 => pc'[t] = "leave")
  BY <1>1, <1>2 DEF Onward, GoTo, LockTypes
<1>7. HeldLocks(t)' = H \ {l0} /\ \A u \in Threads \ {t} : HeldLocks(u)' = HeldLocks(u)
  <2>1. l0 \in Locks /\ holder[l0] = t
    BY <1>4 DEF HeldLocks
  <2> HIDE DEF l0
  <2> QED
    BY <1>1, <1>2, <2>1, LocksAssumption DEF HeldLocks, LockTypes
<1>8. c \in Nat /\ held'[t] = r /\ heldCount'[t] = IF c = 0 THEN 0 ELSE c - 1
  BY <1>1, <1>2 DEF StackTypes
<1>9. OthersStack(t) /\ StackTypes'
  <2> HIDE DEF r, c
  <2>1. (IF c = 0 THEN 0 ELSE c - 1) \in Nat
    BY <1>8
  <2>2. heldCount' \in [Threads -> Nat]
    BY <1>1, <1>2, <2>1 DEF StackTypes
  <2>3. held' = [u \in Threads |-> held'[u]]
    BY <1>1, <1>2 DEF StackTypes
  <2> QED
    BY <1>1, <1>2, <1>7, <2>2, <2>3 DEF OthersStack, StackTypes
<1>10. OnStack(t) = H /\ OnStack(t)' = H \ {l0} /\ pc[t] # "word" /\ pc'[t] # "word"
  BY <1>1, <1>5, <1>7 DEF OnStack, Giving
<1>11. /\ s \in Seq(Locks) /\ Distinct(s) /\ Layered(f, s, H) /\ IsFiniteSet(H)
       /\ c = Cardinality(H) /\ c > 0 /\ Len(s) \in Nat
  <2>1. Cardinality(H) \in Nat /\ IsFiniteSet(H) /\ (Cardinality(H) = 0 <=> H = {})
    BY <1>2, FS_CardinalityType, FS_EmptySet DEF StackOK
  <2>2. c = Cardinality(H) + 0
    BY <1>2, <1>10 DEF StackOK
  <2> HIDE DEF H, c, s, f
  <2>3. H # {}
    BY <1>4
  <2>4. s \in Seq(Locks) /\ Distinct(s) /\ Layered(f, s, H)
    BY <1>2, <1>10 DEF StackOK, H, s, f
  <2> QED
    BY <2>1, <2>2, <2>3, <2>4
<1>12. IsFiniteSet(H \ {l0}) /\ Cardinality(H \ {l0}) = c - 1
  <2> HIDE DEF H, c, l0
  <2> QED
    BY <1>4, <1>11, FS_RemoveElement
<1>13. Layered(f, s, H \ {l0})
  <2> HIDE DEF H, f, s, l0
  <2> QED
    BY <1>11 DEF Layered
<1>14. HeldMax \in Nat
  BY LocksAssumption
<1>15. CASE c > HeldMax
  <2>1. r = s /\ heldCount'[t] = c - 1 /\ c - 1 \in Nat
    BY <1>8, <1>11, <1>15
  <2>2. Fits(t)
    BY <1>2, <1>8, <1>14, <1>15 DEF StackOK, Crossed
  <2>3. ToSet(s) \subseteq H /\ Len(s) = HeldMax
    BY <1>8, <1>10, <1>14, <1>15, <2>2 DEF Fits
  <2>4. CASE l0 \notin ToSet(s)
    <3> HIDE DEF H, f, s, l0, c, r
    <3>1. ToSet(s) \subseteq H \ {l0} /\ ~(c - 1 < HeldMax)
      BY <1>8, <1>14, <1>15, <2>3, <2>4
    <3>2. Fits(t)'
      BY <1>8, <1>10, <2>1, <2>3, <3>1 DEF Fits
    <3>3. StackOK(t)'
      BY <1>1, <1>7, <1>8, <1>10, <1>11, <1>12, <1>13, <2>1, <3>2 DEF StackOK, f
    <3> QED
      BY <1>5, <1>9, <3>3, KeepStack
  <2>5. CASE l0 \in ToSet(s)
    <3> HIDE DEF H, f, s, l0, c, d, r, m
    <3>1. /\ \E b \in Locks : /\ d = <<Head(d), b>> /\ b # Head(d) /\ b \notin ToSet(s)
                              /\ b \in H /\ b \notin Named(f, m)
          /\ Cardinality(H) = Len(s) + 1 /\ Len(s) > 0
          /\ s[Len(s)] = Head(d)
      BY <1>2, <1>3, <1>4, <1>11, <1>15, <2>3, <2>5, CrossesEnd DEF m, l0
    <3>2. PICK b \in Locks : /\ d = <<Head(d), b>> /\ b # Head(d) /\ b \notin ToSet(s)
                             /\ b \in H /\ b \notin Named(f, m)
      BY <3>1
    <3>3. Tail(d) = <<b>> /\ Len(d) = 2 /\ ToSet(d) = {l0, b}
      <4>1. d = <<l0, b>>
        BY <3>2 DEF l0
      <4> QED
        BY <4>1, ToSetOf
    <3>4. pc'[t] = "leave" /\ todo'[t] = <<b>> /\ Head(todo'[t]) = b
      <4>1. Len(d) > 1
        BY <3>3
      <4>2. pc'[t] = "leave" /\ todo'[t] = <<b>>
        BY <1>6, <3>3, <4>1
      <4>3. Head(<<b>>) = b
        OBVIOUS
      <4> QED
        BY <4>2, <4>3
    <3>5. Want(t, b)' = 1
      <4>1. Count(f, b) \in Nat /\ (Count(f, b) > 0 <=> b \in Named(f, Len(f)))
        BY <1>2, CountNamed
      <4>2. Due(f, d, pc[t], b) = 1
        BY <1>1, <3>2, <3>3, <4>1 DEF Due, Taking, Giving, m
      <4> QED
        BY <1>5, <3>2, <4>2 DEF Want, f, d, l0
    <3>6. /\ HeldMax > 0 /\ c - 1 = HeldMax /\ s[HeldMax] = l0
      BY <1>11, <1>14, <2>3, <3>1 DEF l0
    <3>7. \A i \in 1 .. HeldMax - 1 : s[i] \in H \ {l0}
      <4> SUFFICES ASSUME NEW i \in 1 .. HeldMax - 1 PROVE s[i] \in H /\ s[i] # l0
        OBVIOUS
      <4>1. i \in 1 .. Len(s) /\ HeldMax \in 1 .. Len(s) /\ i # HeldMax
        BY <1>14, <2>3, <3>6
      <4>2. s[i] # s[HeldMax]
        BY <1>11, <4>1 DEF Distinct
      <4>3. s[i] \in ToSet(s)
        BY <1>11, <4>1 DEF ToSet
      <4> QED
        BY <2>3, <3>6, <4>2, <4>3
    <3>8. Crossed(t)'
      BY <1>7, <1>8, <2>1, <2>3, <3>2, <3>4, <3>5, <3>6, <3>7 DEF Crossed, Giving
    <3>9. StackOK(t)'
      BY <1>1, <1>7, <1>8, <1>10, <1>11, <1>12, <1>13, <2>1, <3>8 DEF StackOK, f
    <3> QED
      BY <1>5, <1>9, <3>9, KeepStack
  <2> QED
    BY <2>4, <2>5
<1>16. CASE c <= HeldMax
  <2>1. heldCount'[t] = c - 1 /\ c - 1 \in Nat /\ c - 1 < HeldMax
    BY <1>8, <1>11, <1>14, <1>16
  <2>2. \E p \in 1 .. Len(s) : /\ r \in Seq(Locks) /\ IsCut(r, s, p) /\ s[p] \notin H \ {l0}
                               /\ ToSet(s) \ {s[p]} \subseteq H \ {l0} /\ Len(s) = c
    <3>1. CASE Fits(t)
      <4>1. ToSet(s) = H /\ Len(s) = c
        <5>1. ToSet(s) \subseteq H /\ Len(s) = c
          BY <1>8, <1>10, <1>14, <1>16, <3>1 DEF Fits
        <5> HIDE DEF s, H, c
        <5> QED
          BY <1>11, <5>1, Full
      <4>2. Topmost(t, l0) \in 1 .. Len(s) /\ s[Topmost(t, l0)] = l0
        <5> DEFINE P == {i \in DOMAIN s : s[i] = l0}
        <5>1. PICK i \in 1 .. Len(s) : s[i] = l0
          BY <1>4, <1>11, <4>1 DEF ToSet
        <5>2. P = {i} /\ DOMAIN s = 1 .. Len(s) /\ i \in Nat
          BY <1>11, <5>1 DEF Distinct
        <5>3. Topmost(t, l0) = IF P = {} THEN 0 ELSE CHOOSE k \in P : \A j \in P : j <= k
          BY DEF Topmost
        <5> HIDE DEF P, s, l0
        <5>4. (CHOOSE k \in P : \A j \in P : j <= k) = i
          BY <5>2
        <5> QED
          BY <5>1, <5>2, <5>3, <5>4
      <4> DEFINE p == Topmost(t, l0)
      <4>3. p # 0 /\ p \in 1 .. Len(s) /\ r = RemoveAt(s, p)
        BY <1>8, <1>11, <1>14, <1>16, <4>2
      <4> HIDE DEF p, r, s, H, l0
      <4>4. r \in Seq(Locks) /\ IsCut(r, s, p)
        BY <1>11, <4>3, RemoveAtCut
      <4> QED
        BY <4>1, <4>2, <4>3, <4>4 DEF p
    <3>2. CASE Crossed(t)
      <4>1. /\ HeldMax > 0 /\ c = HeldMax /\ Len(s) = HeldMax /\ l0 \notin ToSet(s)
            /\ (\A i \in 1 .. HeldMax - 1 : s[i] \in H) /\ s[HeldMax] \notin H
        BY <3>2 DEF Crossed
      <4>2. Topmost(t, l0) = 0
        <5>1. {i \in DOMAIN s : s[i] = l0} = {}
          BY <4>1 DEF ToSet
        <5> QED
          BY <5>1 DEF Topmost
      <4>3. r = Front(s)
        BY <1>8, <1>11, <1>14, <1>16, <4>2
      <4> HIDE DEF r, s, H, l0, c
      <4>4. s # <<>> /\ Len(s) \in 1 .. Len(s)
        BY <1>11, <1>14, <4>1
      <4>5. r \in Seq(Locks) /\ IsCut(r, s, Len(s))
        BY <1>11, <4>3, <4>4, FrontCut
      <4>6. ToSet(s) \ {s[Len(s)]} \subseteq H \ {l0}
        <5> SUFFICES ASSUME NEW x \in ToSet(s), x # s[Len(s)] PROVE x \in H \ {l0}
          OBVIOUS
        <5>1. PICK i \in 1 .. Len(s) : x = s[i]
          BY <1>11 DEF ToSet
        <5>2. i \in 1 .. HeldMax - 1
          BY <1>14, <4>1, <5>1
        <5> QED
          BY <4>1, <5>1, <5>2
      <4> QED
        BY <4>1, <4>4, <4>5, <4>6
    <3> QED
      BY <1>2, <3>1, <3>2 DEF StackOK
  <2>3. PICK p \in 1 .. Len(s) : /\ r \in Seq(Locks) /\ IsCut(r, s, p) /\ s[p] \notin H \ {l0}
                                 /\ ToSet(s) \ {s[p]} \subseteq H \ {l0} /\ Len(s) = c
    BY <2>2
  <2> HIDE DEF H, f, s, l0, c, r
  <2>4. Distinct(r) /\ ToSet(r) = ToSet(s) \ {s[p]}
    BY <1>11, <2>3, CutSet
  <2>5. Layered(f, r, H \ {l0})
    <3>1. H \ {l0} \subseteq H
      OBVIOUS
    <3> QED
      BY <1>11, <2>3, <3>1, CutLayered
  <2>6. Fits(t)'
    <3>1. Len(r) = c - 1
      BY <2>3 DEF IsCut
    <3> QED
      BY <1>8, <1>10, <2>1, <2>3, <2>4, <3>1 DEF Fits
  <2>7. StackOK(t)'
    BY <1>1, <1>7, <1>8, <1>10, <1>12, <2>1, <2>3, <2>4, <2>5, <2>6 DEF StackOK, f
  <2> QED
    BY <1>5, <1>9, <2>7, KeepStack
<1> QED
  BY <1>8, <1>14, <1>15, <1>16

LEMMA SameStack ==
  ASSUME StackInv, UNCHANGED <<holder, held, heldCount, frames, todo, pc>>
  PROVE  StackInv'
<1>1. ASSUME NEW u \in Threads PROVE StackOK(u)'
  <2>1. StackOK(u) /\ HeldLocks(u)' = HeldLocks(u) /\ \A l : Want(u, l)' = Want(u, l)
    BY DEF StackInv, HeldLocks, Want
  <2>2. OnStack(u)' = OnStack(u)
    BY <2>1 DEF OnStack
  <2>3. (Fits(u)' <=> Fits(u)) /\ (Crossed(u)' <=> Crossed(u))
    BY <2>1, <2>2 DEF Fits, Crossed
  <2> QED
    BY <2>1, <2>2, <2>3 DEF StackOK
<1> QED
  BY <1>1 DEF StackInv, StackTypes

LEMMA StackInvInit == Init => StackInv
<1> SUFFICES ASSUME Init PROVE StackInv
  OBVIOUS
<1>1. StackTypes
  BY DEF Init, StackTypes
<1>2. ASSUME NEW t \in Threads PROVE StackOK(t)
  <2>1. frames[t] = <<>> /\ pc[t] = "run" /\ held[t] = <<>> /\ heldCount[t] = 0
    BY DEF Init
  <2>2. HeldLocks(t) = {}
    BY LocksAssumption DEF Init, HeldLocks
  <2>3. OnStack(t) = {}
    BY <2>1, <2>2 DEF OnStack
  <2>4. Layered(<<>>, <<>>, {}) /\ Distinct(<<>>) /\ <<>> \in Seq(Locks)
    BY DEF Layered, Distinct
  <2>5. IsFiniteSet({}) /\ Cardinality({}) = 0
    BY FS_EmptySet
  <2>6. Fits(t)
    BY <2>1, <2>3, ToSetOf, LocksAssumption DEF Fits
  <2> QED
    BY <2>1, <2>2, <2>3, <2>4, <2>5, <2>6 DEF StackOK
<1> QED
  BY <1>1, <1>2 DEF StackInv

LEMMA GivesBackSteps ==
  ASSUME LockInv, NEW t \in Threads, UnlockMutex(t) \/ LeaveFree(t)
  PROVE  GivesBack(t)
<1> DEFINE l0 == Head(todo[t])
<1>1. /\ pc[t] \in Giving /\ holder' = [holder EXCEPT ![l0] = NoThread] /\ OrderGive(t, l0)
      /\ Onward(t, "leave") /\ frames' = frames
  BY DEF UnlockMutex, LeaveFree, Giving
<1>2. Matches(t) /\ Want(t, l0) \in Nat
  BY WantNat DEF LockInv
<1>3. Want(t, l0) >= 1
  BY <1>1, OnwardGive
<1>4. (pc[t] = "free" /\ l0 \in Objs) \/ l0 \in Mutexes
  BY <1>2 DEF UnlockMutex, LeaveFree, Matches, Shape
<1>5. Want(t, l0) = 1
  <2> HIDE DEF l0
  <2>1. l0 \in Mutexes => Want(t, l0) <= 1
    BY <1>2 DEF Matches, MutexOnce
  <2>2. pc[t] = "free" /\ l0 \in Objs => Want(t, l0) = 1
    BY <1>2 DEF Matches, OwnersMatch, l0
  <2> QED
    BY <1>2, <1>3, <1>4, <2>1, <2>2
<1> QED
  BY <1>1, <1>5 DEF GivesBack

LEMMA StackInvStep == LockInv /\ StackInv /\ [Next]_vars => StackInv'
<1> SUFFICES ASSUME LockInv, StackInv, [Next]_vars PROVE StackInv'
  OBVIOUS
<1>1. CASE UNCHANGED vars
  BY <1>1, SameStack DEF vars, record
<1>2. ASSUME NEW t \in Threads, Step(t) PROVE StackInv'
  <2>1. CASE \E x \in Frames : Sync(t, x)
    BY <2>1, SyncStack
  <2>2. CASE HeldAlready(t) \/ (\E l \in Mutexes : Destroy(t, l))
             \/ \E l \in Objs : Remake(t, l)
    BY <2>2, SameStack DEF HeldAlready, Destroy, Remake, record
  <2>3. CASE UnlockMutex(t) \/ LeaveFree(t)
    BY <2>3, GivesBackSteps, GiveStack
  <2> QED
    BY <1>2, <2>1, <2>2, <2>3, QuietSteps, AskStack, WordStack, EndStack DEF Step, Inside
<1> QED
  BY <1>1, <1>2 DEF Next

LEMMA StackInvHolds == Spec => []StackInv
  BY LockInvHolds, StackInvInit, StackInvStep, PTL DEF Spec

\* For any HELD_MAX, the stack of a thread in its program counts the locks the
\* thread holds and names only such locks, also after it went past HELD_MAX and
\* gave locks back in the order it took them: order_give takes the right entry
\* out, and held_already stops no thread that does not hold the Mutex.
THEOREM RecordAlwaysTrue == Spec => []RecordTrue
<1>1. LockInv /\ StackInv => RecordTrue
  <2> SUFFICES ASSUME StackInv, NEW t \in Threads, pc[t] = "run"
               PROVE  /\ heldCount[t] = Cardinality(HeldLocks(t))
                      /\ ToSet(held[t]) \subseteq HeldLocks(t)
                      /\ Len(held[t]) = IF heldCount[t] < HeldMax THEN heldCount[t]
                                        ELSE HeldMax
    BY DEF RecordTrue
  <2>1. StackOK(t) /\ Fits(t)
    BY NotGiving DEF Giving
  <2>2. Cardinality(HeldLocks(t)) \in Nat
    BY <2>1, FS_CardinalityType DEF StackOK
  <2> QED
    BY <2>1, <2>2 DEF StackOK, Fits, OnStack
<1> QED
  BY <1>1, LockInvHolds, StackInvHolds, PTL

-----------------------------------------------------------------------------
(* The table of orders, in a program that frees no object.  A report stays   *)
(* with its two marks, and both orders of a pair are on record only with a   *)
(* report.  That an order on record was taken is why a report is true.       *)

Paired(rs, a, b) == \E r \in rs : r.pair = {a, b}

\* Orders os, the marked ones ms, the orders tk that were taken and reports rs.
Table(os, ms, tk, rs) ==
    /\ os \subseteq Locks \X Locks /\ ms \subseteq os
    /\ \A a, b \in Locks : <<a, b>> \in os => (a # b /\ <<a, b>> \in tk)
    /\ \A a, b \in Locks : <<a, b>> \in ms <=> Paired(rs, a, b)
    /\ \A a, b \in Locks : (<<a, b>> \in os /\ <<b, a>> \in os) => Paired(rs, a, b)
    /\ \A r \in rs : r.true /\ ~r.again

TableOK == Table(orders, reported, taken, reports)

\* What a thread holds while it waits is on record before what it waits for.
WaitRecorded(t) ==
    (pc[t] = "word" /\ heldCount[t] <= HeldMax) =>
        \A b \in HeldLocks(t) \ {Head(todo[t])} : <<b, Head(todo[t])>> \in orders

TableInv == TableOK /\ \A t \in Threads : WaitRecorded(t)

\* What order_take does to the table, with the locks of before on the stack.
Took(l, before, os, ms, tk, rs, os2, ms2, tk2, rs2) ==
    LET conflicts == {h \in before : <<l, h>> \in os \ ms}
        marked == {h \in before : <<l, h>> \in os /\ (h \in conflicts \/ <<h, l>> \notin os)}
    IN
    /\ os2 = os \cup {<<h, l>> : h \in before}
    /\ ms2 = ms \cup {<<h, l>> : h \in marked} \cup {<<l, h>> : h \in conflicts}
    /\ tk \subseteq tk2 /\ \A h \in before : <<h, l>> \in tk2
    /\ rs2 = rs \cup {[pair |-> {h, l}, again |-> \E r \in rs : r.pair = {h, l},
                       true |-> <<l, h>> \in tk] : h \in conflicts}

LEMMA TakeTable ==
  ASSUME NEW os, NEW ms, NEW tk, NEW rs, Table(os, ms, tk, rs),
         NEW l \in Locks, NEW before \in SUBSET Locks, l \notin before,
         NEW os2, NEW ms2, NEW tk2, NEW rs2, Took(l, before, os, ms, tk, rs, os2, ms2, tk2, rs2)
  PROVE  Table(os2, ms2, tk2, rs2)
<1> SUFFICES ASSUME
         NEW conflicts, conflicts = {h \in before : <<l, h>> \in os \ ms},
         NEW marked,
         marked = {h \in before : <<l, h>> \in os /\ (h \in conflicts \/ <<h, l>> \notin os)},
         os2 = os \cup {<<h, l>> : h \in before},
         ms2 = ms \cup {<<h, l>> : h \in marked} \cup {<<l, h>> : h \in conflicts},
         tk \subseteq tk2, \A h \in before : <<h, l>> \in tk2,
         rs2 = rs \cup {[pair |-> {h, l}, again |-> \E r \in rs : r.pair = {h, l},
                        true |-> <<l, h>> \in tk] : h \in conflicts}
             PROVE  Table(os2, ms2, tk2, rs2)
  BY DEF Took
<1>1. /\ os \subseteq Locks \X Locks /\ ms \subseteq os
      /\ \A a, b \in Locks : <<a, b>> \in os => (a # b /\ <<a, b>> \in tk)
      /\ \A a, b \in Locks : <<a, b>> \in ms <=> Paired(rs, a, b)
      /\ \A a, b \in Locks : (<<a, b>> \in os /\ <<b, a>> \in os) => Paired(rs, a, b)
      /\ \A r \in rs : r.true /\ ~r.again
  BY DEF Table
<1>2. \A a, b \in Locks : <<a, b>> \in os2 <=> <<a, b>> \in os \/ (a \in before /\ b = l)
  OBVIOUS
<1>3. \A a, b \in Locks : <<a, b>> \in ms2 <=>
         <<a, b>> \in ms \/ (a \in marked /\ b = l) \/ (a = l /\ b \in conflicts)
  OBVIOUS
<1>4. conflicts \subseteq marked /\ marked \subseteq before /\ before \subseteq Locks
  OBVIOUS
<1> DEFINE Rep(h) == [pair |-> {h, l}, again |-> \E r \in rs : r.pair = {h, l},
                      true |-> <<l, h>> \in tk]
<1>5. \A a, b \in Locks : Paired(rs2, a, b) <=>
         Paired(rs, a, b) \/ \E h \in conflicts : {a, b} = {h, l}
  <2>1. rs2 = rs \cup {Rep(h) : h \in conflicts} /\ \A h : Rep(h).pair = {h, l}
    OBVIOUS
  <2> HIDE DEF Rep
  <2>2. ASSUME NEW a \in Locks, NEW b \in Locks
        PROVE  (\E r \in rs2 : r.pair = {a, b}) <=>
                 (\E r \in rs : r.pair = {a, b}) \/ \E h \in conflicts : {a, b} = {h, l}
    BY <2>1
  <2> QED
    BY <2>2 DEF Paired
<1>6. \A a, b : {a, b} = {b, a}
  OBVIOUS
<1>7. \A a, b \in Locks : Paired(rs, a, b) <=> Paired(rs, b, a)
  BY <1>6 DEF Paired
<1>8. \A h \in before : <<l, h>> \in os => h \in conflicts \/ Paired(rs, h, l)
  BY <1>1, <1>4, <1>7
<1>9. os2 \subseteq Locks \X Locks /\ ms2 \subseteq os2
  <2>1. {<<h, l>> : h \in before} \subseteq Locks \X Locks
    BY <1>4
  <2>2. {<<h, l>> : h \in marked} \subseteq {<<h, l>> : h \in before}
    BY <1>4
  <2>3. {<<l, h>> : h \in conflicts} \subseteq os
    OBVIOUS
  <2> QED
    BY <1>1, <2>1, <2>2, <2>3
<1>10. \A a, b \in Locks : <<a, b>> \in os2 => (a # b /\ <<a, b>> \in tk2)
  BY <1>1, <1>2
<1>11. ASSUME NEW a \in Locks, NEW b \in Locks
       PROVE  <<a, b>> \in ms2 <=> Paired(rs2, a, b)
  <2>1. ASSUME <<a, b>> \in ms2 PROVE Paired(rs2, a, b)
    <3>1. CASE <<a, b>> \in ms
      BY <1>1, <1>5, <3>1
    <3>2. CASE a \in marked /\ b = l
      BY <1>4, <1>5, <1>8, <3>2
    <3>3. CASE a = l /\ b \in conflicts
      BY <1>5, <1>6, <3>3
    <3> QED
      BY <1>3, <2>1, <3>1, <3>2, <3>3
  <2>2. ASSUME Paired(rs2, a, b) PROVE <<a, b>> \in ms2
    <3>1. CASE Paired(rs, a, b)
      BY <1>1, <1>3, <3>1
    <3>2. CASE \E h \in conflicts : {a, b} = {h, l}
      <4>1. PICK h \in conflicts : {a, b} = {h, l}
        BY <3>2
      <4>2. (a = h /\ b = l) \/ (a = l /\ b = h)
        BY <4>1
      <4> QED
        BY <1>3, <1>4, <4>2
    <3> QED
      BY <1>5, <2>2, <3>1, <3>2
  <2> QED
    BY <2>1, <2>2
<1>12. ASSUME NEW a \in Locks, NEW b \in Locks, <<a, b>> \in os2, <<b, a>> \in os2
       PROVE  Paired(rs2, a, b)
  <2>1. CASE <<a, b>> \in os /\ <<b, a>> \in os
    BY <1>1, <1>5, <2>1
  <2>2. CASE a \in before /\ b = l /\ <<b, a>> \in os
    BY <1>5, <1>8, <2>2
  <2>3. CASE b \in before /\ a = l /\ <<a, b>> \in os
    BY <1>5, <1>6, <1>7, <1>8, <2>3
  <2> QED
    BY <1>2, <1>12, <2>1, <2>2, <2>3
<1>13. ASSUME NEW r \in rs2 PROVE r.true /\ ~r.again
  <2>1. CASE r \in rs
    BY <1>1, <2>1
  <2>2. CASE r \notin rs
    <3>1. PICK h \in conflicts : r = [pair |-> {h, l}, again |-> \E q \in rs : q.pair = {h, l},
                                      true |-> <<l, h>> \in tk]
      BY <2>2
    <3>2. h \in Locks /\ <<l, h>> \in os /\ <<l, h>> \notin ms
      BY <1>4
    <3>3. <<l, h>> \in tk /\ ~Paired(rs, h, l)
      BY <1>1, <1>7, <3>2
    <3>4. ~\E q \in rs : q.pair = {h, l}
      BY <3>3 DEF Paired
    <3> QED
      BY <3>1, <3>3, <3>4
  <2> QED
    BY <2>1, <2>2
<1> QED
  BY <1>9, <1>10, <1>11, <1>12, <1>13 DEF Table

\* anti_rt_mutex_destroy takes every order that names l out.
LEMMA DropTable ==
  ASSUME NEW os, NEW ms, NEW tk, NEW rs, Table(os, ms, tk, rs), NEW l \in Locks,
         NEW os2, os2 = {o \in os : l \notin ToSet(o)},
         NEW ms2, ms2 = {o \in ms : l \notin ToSet(o)},
         NEW tk2, tk2 = {o \in tk : l \notin ToSet(o)},
         NEW rs2, rs2 = {r \in rs : l \notin r.pair}
  PROVE  Table(os2, ms2, tk2, rs2)
<1>1. /\ os \subseteq Locks \X Locks /\ ms \subseteq os
      /\ \A a, b \in Locks : <<a, b>> \in os => (a # b /\ <<a, b>> \in tk)
      /\ \A a, b \in Locks : <<a, b>> \in ms <=> Paired(rs, a, b)
      /\ \A a, b \in Locks : (<<a, b>> \in os /\ <<b, a>> \in os) => Paired(rs, a, b)
      /\ \A r \in rs : r.true /\ ~r.again
  BY DEF Table
<1>2. \A a, b : ToSet(<<a, b>>) = {a, b}
  BY ToSetOf
<1>3. \A a, b \in Locks : /\ <<a, b>> \in os2 <=> <<a, b>> \in os /\ a # l /\ b # l
                          /\ <<a, b>> \in ms2 <=> <<a, b>> \in ms /\ a # l /\ b # l
                          /\ <<a, b>> \in tk2 <=> <<a, b>> \in tk /\ a # l /\ b # l
  BY <1>2
<1>4. \A a, b \in Locks : Paired(rs2, a, b) <=> Paired(rs, a, b) /\ a # l /\ b # l
  BY DEF Paired
<1>5. os2 \subseteq Locks \X Locks /\ ms2 \subseteq os2
  BY <1>1
<1>6. \A r \in rs2 : r.true /\ ~r.again
  BY <1>1
<1>7. \A a, b \in Locks : <<a, b>> \in os2 => (a # b /\ <<a, b>> \in tk2)
  BY <1>1, <1>3
<1>8. \A a, b \in Locks : <<a, b>> \in ms2 <=> Paired(rs2, a, b)
  BY <1>1, <1>3, <1>4
<1>9. \A a, b \in Locks : (<<a, b>> \in os2 /\ <<b, a>> \in os2) => Paired(rs2, a, b)
  BY <1>1, <1>3, <1>4
<1> QED
  BY <1>5, <1>6, <1>7, <1>8, <1>9 DEF Table

-----------------------------------------------------------------------------
(* The steps on the table *)

\* What the other threads wait for and hold stays.
LEMMA OthersWait ==
  ASSUME LockInv, StackInv, NEW t \in Threads, Step(t), NEW u \in Threads \ {t}
  PROVE  /\ pc'[u] = pc[u] /\ todo'[u] = todo[u] /\ heldCount'[u] = heldCount[u]
         /\ HeldLocks(u)' = HeldLocks(u)
<1>1. LockTypes /\ StackTypes /\ Matches(t)
  BY DEF LockInv, StackInv
<1>2. pc'[u] = pc[u] /\ todo'[u] = todo[u]
  BY <1>1 DEF Step, Inside, Sync, Enter, HeldAlready, Ask, Word, Own, EndSync, UnlockMutex,
              LeaveInner, LeaveClear, LeaveFree, Destroy, Remake, Onward, GoTo, LockTypes
<1>3. heldCount'[u] = heldCount[u]
  BY <1>1 DEF Step, Inside, Sync, Enter, HeldAlready, Ask, Word, Own, EndSync, UnlockMutex,
              LeaveInner, LeaveClear, LeaveFree, Destroy, Remake, OrderTake, OrderGive, Pushed,
              record, StackTypes
<1> DEFINE l0 == Head(todo[t])
<1>4. CASE holder' = holder
  BY <1>2, <1>3, <1>4 DEF HeldLocks
<1>5. CASE Word(t)
  <2>1. holder[l0] = NoThread /\ holder' = [holder EXCEPT ![l0] = t]
    BY <1>5 DEF Word
  <2> HIDE DEF l0
  <2>2. HeldLocks(u)' = HeldLocks(u)
    BY <1>1, <2>1, LocksAssumption DEF HeldLocks, LockTypes
  <2> QED
    BY <1>2, <1>3, <2>2
<1>6. CASE UnlockMutex(t) \/ LeaveFree(t)
  <2>1. GivesBack(t)
    BY <1>6, GivesBackSteps
  <2>2. holder' = [holder EXCEPT ![l0] = NoThread] /\ holder[l0] = t
    BY <2>1, GivenUnnamed DEF GivesBack, HeldLocks
  <2> HIDE DEF l0
  <2>3. HeldLocks(u)' = HeldLocks(u)
    BY <1>1, <2>2, LocksAssumption DEF HeldLocks, LockTypes
  <2> QED
    BY <1>2, <1>3, <2>3
<1> QED
  BY <1>4, <1>5, <1>6 DEF Step, Inside, Sync, Enter, HeldAlready, Ask, Own, EndSync,
     LeaveInner, LeaveClear, Destroy, Remake

LEMMA AskTable ==
  ASSUME LockInv, StackInv, TableInv, NEW t \in Threads, Ask(t)
  PROVE  TableInv'
<1> DEFINE l0 == Head(todo[t])
           s == held[t]
           H == HeldLocks(t)
           before == ToSet(s) \ {l0}
           conflicts == {h \in before : <<l0, h>> \in orders \ reported}
           marked == {g \in before : <<l0, g>> \in orders
                                       /\ (g \in conflicts \/ <<g, l0>> \notin orders)}
<1>1. /\ pc[t] = "ask" /\ pc' = [pc EXCEPT ![t] = "word"] /\ UNCHANGED <<holder, todo>>
      /\ orders' = orders \cup {<<h, l0>> : h \in before}
      /\ reported' = reported \cup {<<h, l0>> : h \in marked} \cup {<<l0, h>> : h \in conflicts}
      /\ taken' = taken \cup {<<h, l0>> : h \in H \ {l0}}
      /\ reports' = reports \cup
            {[pair |-> {h, l0}, again |-> \E r \in reports : r.pair = {h, l0},
              true |-> <<l0, h>> \in taken] : h \in conflicts}
      /\ heldCount' = [heldCount EXCEPT ![t] = heldCount[t] + 1]
  BY DEF Ask, GoTo, OrderTake, Pushed
<1>2. LockTypes /\ StackTypes
  BY DEF LockInv, StackInv
<1>3. StackOK(t) /\ Fits(t)
  BY <1>1, NotGiving DEF Giving
<1>4. /\ l0 \in Locks /\ l0 \notin ToSet(s)
  BY AskedNew
<1>5. /\ ToSet(s) \subseteq H /\ H \subseteq Locks
  BY <1>1, <1>3 DEF Fits, OnStack, HeldLocks
<1>6. Table(orders, reported, taken, reports)
  BY DEF TableInv, TableOK
<1>7. before \in SUBSET Locks /\ l0 \notin before /\ taken \subseteq taken'
      /\ \A h \in before : <<h, l0>> \in taken'
  BY <1>1, <1>4, <1>5
<1>10. heldCount[t] < HeldMax => ToSet(s) = H
  <2>1. ASSUME heldCount[t] < HeldMax PROVE Len(s) = Cardinality(H)
    <3>1. Cardinality(H) \in Nat
      BY <1>3, FS_CardinalityType DEF StackOK
    <3>2. Len(s) = heldCount[t] /\ heldCount[t] = Cardinality(H) + 0
      BY <1>1, <1>3, <2>1 DEF StackOK, Fits
    <3> QED
      BY <3>1, <3>2
  <2>2. s \in Seq(Locks) /\ Distinct(s) /\ IsFiniteSet(H)
    BY <1>3 DEF StackOK
  <2> HIDE DEF s, H
  <2> QED
    BY <1>5, <2>1, <2>2, Full
<1> HIDE DEF l0, H, s, before, conflicts, marked
<1>11. TableOK'
  <2>1. Took(l0, before, orders, reported, taken, reports, orders', reported', taken', reports')
    BY <1>1, <1>7 DEF Took, conflicts, marked
  <2> QED
    BY <1>4, <1>6, <1>7, <2>1, TakeTable DEF TableOK
<1>12. WaitRecorded(t)'
  <2> SUFFICES ASSUME heldCount'[t] <= HeldMax, NEW b \in HeldLocks(t)', b # Head(todo'[t])
               PROVE  <<b, Head(todo'[t])>> \in orders'
    BY DEF WaitRecorded
  <2>1. b \in H /\ Head(todo'[t]) = l0
    BY <1>1 DEF HeldLocks, H, l0
  <2>2. heldCount[t] < HeldMax
    <3>1. heldCount'[t] = heldCount[t] + 1 /\ heldCount[t] \in Nat /\ HeldMax \in Nat
      BY <1>1, <1>2, LocksAssumption DEF StackTypes
    <3> QED
      BY <3>1
  <2>3. b \in before
    BY <1>10, <2>1, <2>2 DEF before
  <2> QED
    BY <1>1, <2>1, <2>3
<1>13. ASSUME NEW u \in Threads \ {t} PROVE WaitRecorded(u)'
  <2>1. /\ pc'[u] = pc[u] /\ todo'[u] = todo[u] /\ heldCount'[u] = heldCount[u]
        /\ HeldLocks(u)' = HeldLocks(u)
    BY OthersWait DEF Step, Inside
  <2> QED
    BY <1>1, <2>1 DEF WaitRecorded, TableInv
<1> QED
  BY <1>11, <1>12, <1>13 DEF TableInv

LEMMA DestroyTable ==
  ASSUME LockInv, StackInv, TableInv, NEW t \in Threads, NEW l \in Mutexes, Destroy(t, l)
  PROVE  TableInv'
<1>1. /\ Unused(l) /\ UNCHANGED <<holder, heldCount, pc, todo>>
      /\ orders' = {o \in orders : l \notin ToSet(o)}
      /\ reported' = {o \in reported : l \notin ToSet(o)}
      /\ taken' = {o \in taken : l \notin ToSet(o)}
      /\ reports' = {r \in reports : l \notin r.pair}
  BY DEF Destroy, NewLife, record
<1>2. l \in Locks
  BY DEF Locks
<1>3. TableOK'
  BY <1>1, <1>2, DropTable DEF TableInv, TableOK
<1>4. ASSUME NEW u \in Threads PROVE WaitRecorded(u)'
  <2> SUFFICES ASSUME pc[u] = "word", heldCount[u] <= HeldMax,
                      NEW b \in HeldLocks(u), b # Head(todo[u])
               PROVE  <<b, Head(todo[u])>> \in orders'
    BY <1>1 DEF WaitRecorded, HeldLocks
  <2> DEFINE d == todo[u]
             f == frames[u]
  <2>1. <<b, Head(d)>> \in orders
    BY DEF TableInv, WaitRecorded
  <2>2. Matches(u) /\ f \in Seq(Frames)
    BY DEF LockInv, LockTypes
  <2>3. l \notin ToSet(d) /\ \A i \in DOMAIN f : l \notin ToSet(f[i])
    BY <1>1 DEF Unused
  <2>4. LeftToTake(ToSet(Last(f)), d)
    BY <2>2 DEF Matches, Shape, Taking
  <2>5. b \in Named(f, Len(f))
    BY HeldNamed DEF Giving
  <2> HIDE DEF d, f
  <2>6. Head(d) \in ToSet(d)
    BY <2>4, ToSetOf DEF LeftToTake
  <2>7. b # l
    BY <2>2, <2>3, <2>5 DEF Named
  <2>8. ToSet(<<b, Head(d)>>) = {b, Head(d)}
    BY ToSetOf
  <2> QED
    BY <1>1, <2>1, <2>3, <2>6, <2>7, <2>8 DEF d
<1> QED
  BY <1>3, <1>4 DEF TableInv

LEMMA TableInvInit == Init => TableInv
<1> SUFFICES ASSUME Init PROVE TableInv
  OBVIOUS
<1>1. TableOK
  BY DEF Init, TableOK, Table, Paired
<1>2. \A t \in Threads : WaitRecorded(t)
  BY DEF Init, WaitRecorded
<1> QED
  BY <1>1, <1>2 DEF TableInv

LEMMA TableInvStep ==
  ASSUME Reuse = FALSE
  PROVE  LockInv /\ StackInv /\ TableInv /\ [Next]_vars => TableInv'
<1> SUFFICES ASSUME LockInv, StackInv, TableInv, [Next]_vars PROVE TableInv'
  OBVIOUS
<1>1. CASE UNCHANGED vars
  <2>1. UNCHANGED <<holder, heldCount, pc, todo, orders, reported, taken, reports>>
    BY <1>1 DEF vars, record, table
  <2>2. \A t \in Threads : HeldLocks(t)' = HeldLocks(t)
    BY <2>1 DEF HeldLocks
  <2> QED
    BY <2>1, <2>2 DEF TableInv, TableOK, WaitRecorded
<1>2. ASSUME NEW t \in Threads, Step(t) PROVE TableInv'
  <2>1. CASE Ask(t)
    BY <2>1, AskTable
  <2>2. CASE \E l \in Mutexes : Destroy(t, l)
    BY <2>2, DestroyTable
  <2>3. CASE \/ \E x \in Frames : Sync(t, x)
             \/ Enter(t) \/ HeldAlready(t) \/ Word(t) \/ Own(t) \/ EndSync(t)
             \/ UnlockMutex(t) \/ LeaveInner(t) \/ LeaveClear(t) \/ LeaveFree(t)
    <3>1. UNCHANGED <<orders, reported, taken, reports>>
      BY <2>3 DEF Sync, Enter, HeldAlready, Word, Own, EndSync, UnlockMutex, LeaveInner,
                  LeaveClear, LeaveFree, table
    <3>2. TableOK'
      BY <3>1 DEF TableInv, TableOK
    <3>3. LockTypes
      BY DEF LockInv
    <3>4. pc'[t] # "word" \/ UNCHANGED <<holder, heldCount, pc, todo>>
      BY <2>3, <3>3 DEF Sync, Enter, HeldAlready, Word, Own, EndSync, UnlockMutex,
                  LeaveInner, LeaveClear, LeaveFree, Onward, GoTo, LockTypes, record
    <3>5. WaitRecorded(t)'
      <4>1. CASE pc'[t] # "word"
        BY <4>1 DEF WaitRecorded
      <4>2. CASE UNCHANGED <<holder, heldCount, pc, todo>>
        <5>1. HeldLocks(t)' = HeldLocks(t)
          BY <4>2 DEF HeldLocks
        <5> QED
          BY <3>1, <4>2, <5>1 DEF WaitRecorded, TableInv
      <4> QED
        BY <3>4, <4>1, <4>2
    <3>6. ASSUME NEW u \in Threads \ {t} PROVE WaitRecorded(u)'
      <4>1. /\ pc'[u] = pc[u] /\ todo'[u] = todo[u] /\ heldCount'[u] = heldCount[u]
            /\ HeldLocks(u)' = HeldLocks(u)
        BY <1>2, OthersWait
      <4> QED
        BY <3>1, <4>1 DEF WaitRecorded, TableInv
    <3> QED
      BY <3>2, <3>5, <3>6 DEF TableInv
  <2> QED
    BY <1>2, <2>1, <2>2, <2>3 DEF Step, Inside, Remake
<1> QED
  BY <1>1, <1>2 DEF Next

LEMMA TableInvHolds ==
  ASSUME Reuse = FALSE
  PROVE  Spec => []TableInv
<1>1. LockInv /\ StackInv /\ TableInv /\ [Next]_vars => TableInv'
  BY TableInvStep
<1> QED
  BY <1>1, LockInvHolds, StackInvHolds, TableInvInit, PTL DEF Spec

\* In a program that makes no object in the memory of a freed one, and for any
\* threads, locks and HELD_MAX: two threads that wait for each other were
\* reported by order_take before, as long as no stack is past HELD_MAX.
THEOREM DeadlockAlwaysReported ==
  ASSUME Reuse = FALSE
  PROVE  Spec => []DeadlockReported
<1>1. LockInv /\ TableInv => DeadlockReported
  <2> SUFFICES ASSUME LockInv, TableInv, NEW t \in Threads, NEW u \in Threads, t # u,
                      WaitsFor(t, u), WaitsFor(u, t),
                      heldCount[t] <= HeldMax, heldCount[u] <= HeldMax
               PROVE  \E r \in reports : r.pair = {Head(todo[t]), Head(todo[u])}
    BY DEF DeadlockReported
  <2> DEFINE a == Head(todo[t])
             b == Head(todo[u])
  <2>1. pc[t] = "word" /\ pc[u] = "word" /\ holder[a] = u /\ holder[b] = t
    BY DEF WaitsFor
  <2>2. Matches(t) /\ Matches(u)
    BY DEF LockInv
  <2>3. a \in Locks /\ b \in Locks
    BY <2>1, <2>2 DEF Matches, Shape, Taking, LeftToTake, Locks
  <2>4. <<b, a>> \in orders /\ <<a, b>> \in orders
    BY <2>1, <2>3 DEF TableInv, WaitRecorded, HeldLocks
  <2> QED
    BY <2>3, <2>4 DEF TableInv, TableOK, Table, Paired
<1> QED
  BY <1>1, LockInvHolds, TableInvHolds, PTL

-----------------------------------------------------------------------------
(* The bounds of the model *)

Bounded(t) ==
    /\ Len(frames[t]) <= MaxFrames
    /\ pc[t] \in Giving => Len(frames[t]) < MaxFrames
    /\ \A n \in 0 .. Len(frames[t]) :
          IsFiniteSet(Named(frames[t], n)) /\ Cardinality(Named(frames[t], n)) <= 2 * n

BoundInv ==
    /\ \A t \in Threads : Bounded(t)
    /\ \A l \in Objs : owner[l] = NoThread => depth[l] = 0
    /\ aborted \in BOOLEAN

\* A block and what is left of it names one lock or two.
LEMMA TwoLocks ==
  /\ \A x \in Frames : \E a, b \in Locks : ToSet(x) = {a, b}
  /\ \A d : LeftToGive(d) => \E a, b \in Locks : ToSet(d) = {a, b}
<1>1. \A a : ToSet(<<a>>) = {a, a}
  BY ToSetOf
<1>2. \A a, b : ToSet(<<a, b>>) = {a, b}
  BY ToSetOf
<1> QED
  BY <1>1, <1>2 DEF Frames, LeftToGive, Locks

LEMMA AddTwo ==
  ASSUME NEW S, IsFiniteSet(S), NEW a, NEW b
  PROVE  IsFiniteSet(S \cup {a, b}) /\ Cardinality(S \cup {a, b}) <= Cardinality(S) + 2
<1>1. /\ Cardinality(S) \in Nat /\ IsFiniteSet(S \cup {a})
      /\ Cardinality(S \cup {a}) <= Cardinality(S) + 1
  <2>1. Cardinality(S) \in Nat
    BY FS_CardinalityType
  <2>2. /\ IsFiniteSet(S \cup {a})
        /\ Cardinality(S \cup {a}) = IF a \in S THEN Cardinality(S) ELSE Cardinality(S) + 1
    BY FS_AddElement
  <2> QED
    BY <2>1, <2>2
<1> DEFINE T == S \cup {a}
<1> HIDE DEF T
<1>2. IsFiniteSet(T) /\ Cardinality(T) \in Nat /\ Cardinality(T) <= Cardinality(S) + 1
  BY <1>1, FS_CardinalityType DEF T
<1>3. IsFiniteSet(T \cup {b}) /\ Cardinality(T \cup {b}) <= Cardinality(T) + 1
  BY <1>2, FS_AddElement
<1>4. S \cup {a, b} = T \cup {b}
  BY DEF T
<1>5. Cardinality(T \cup {b}) \in Nat
  BY <1>3, FS_CardinalityType
<1> QED
  BY <1>1, <1>2, <1>3, <1>4, <1>5

LEMMA CountAtMost ==
  ASSUME NEW f \in Seq(Frames), NEW l
  PROVE  Count(f, l) \in Nat /\ Count(f, l) <= Len(f)
<1> DEFINE A == {i \in DOMAIN f : l \in ToSet(f[i])}
<1>1. Len(f) \in Nat /\ A \in SUBSET (1 .. Len(f))
  OBVIOUS
<1>2. IsFiniteSet(1 .. Len(f)) /\ Cardinality(1 .. Len(f)) = Len(f)
  BY <1>1, FS_Interval
<1> QED
  BY <1>1, <1>2, FS_Subset, FS_CardinalityType DEF Count

LEMMA BoundInvInit == Init => BoundInv
<1> SUFFICES ASSUME Init PROVE BoundInv
  OBVIOUS
<1>1. ASSUME NEW t \in Threads PROVE Bounded(t)
  <2>1. frames[t] = <<>> /\ pc[t] = "run" /\ Len(<<>>) = 0
    BY DEF Init
  <2>2. Named(<<>>, 0) = {}
    BY DEF Named
  <2>3. IsFiniteSet({}) /\ Cardinality({}) = 0
    BY FS_EmptySet
  <2>4. \A n \in 0 .. 0 : IsFiniteSet(Named(<<>>, n)) /\ Cardinality(Named(<<>>, n)) <= 2 * n
    <3> SUFFICES ASSUME NEW n \in 0 .. 0
                 PROVE  IsFiniteSet(Named(<<>>, n)) /\ Cardinality(Named(<<>>, n)) <= 2 * n
      OBVIOUS
    <3>1. n = 0
      OBVIOUS
    <3>2. Named(<<>>, n) = {}
      BY <2>2, <3>1
    <3>3. IsFiniteSet(Named(<<>>, n)) /\ Cardinality(Named(<<>>, n)) = 0
      BY <2>3, <3>2
    <3>4. 0 <= 2 * n
      BY <3>1
    <3> QED
      BY <3>3, <3>4
  <2>5. MaxFrames \in Nat
    BY LocksAssumption
  <2> QED
    BY <2>1, <2>4, <2>5 DEF Bounded, Giving
<1> QED
  BY <1>1 DEF Init, BoundInv

LEMMA BoundInvStep == LockInv /\ BoundInv /\ [Next]_vars => BoundInv'
<1> SUFFICES ASSUME LockInv, BoundInv, [Next]_vars PROVE BoundInv'
  OBVIOUS
<1>1. CASE UNCHANGED vars
  BY <1>1 DEF BoundInv, Bounded, vars
<1>2. ASSUME NEW t \in Threads, Step(t) PROVE BoundInv'
  <2>1. LockTypes /\ Matches(t) /\ MaxFrames \in Nat
    BY LocksAssumption DEF LockInv
  <2>2. aborted' \in BOOLEAN
    BY <1>2 DEF Step, Inside, Sync, Enter, HeldAlready, Ask, Word, Own, EndSync, UnlockMutex,
                LeaveInner, LeaveClear, LeaveFree, Destroy, Remake, BoundInv
  <2>3. ASSUME NEW u \in Threads \ {t} PROVE Bounded(u)'
    <3>1. pc'[u] = pc[u] /\ frames'[u] = frames[u]
      BY <1>2, <2>1 DEF Step, Inside, Sync, Enter, HeldAlready, Ask, Word, Own, EndSync,
         UnlockMutex, LeaveInner, LeaveClear, LeaveFree, Destroy, Remake, Onward, GoTo, LockTypes
    <3> QED
      BY <3>1 DEF BoundInv, Bounded
  <2>4. Bounded(t)'
    <3> DEFINE f == frames[t]
               m == Len(f)
    <3>1. f \in Seq(Frames) /\ m \in Nat /\ m <= MaxFrames /\ Bounded(t)
      BY <2>1 DEF LockTypes, BoundInv, Bounded
    <3>2. CASE \E x \in Frames : Sync(t, x)
      <4>1. PICK x \in Frames : Sync(t, x)
        BY <3>2
      <4>2. frames'[t] = Append(f, x) /\ pc'[t] = "ask" /\ m < MaxFrames
        BY <2>1, <4>1 DEF Sync, GoTo, LockTypes
      <4>3. /\ Len(Append(f, x)) = m + 1
            /\ \A n \in 0 .. m : Named(Append(f, x), n) = Named(f, n)
            /\ Named(Append(f, x), m + 1) = Named(f, m) \cup (Locks \cap ToSet(x))
        BY <3>1, NamedAppend
      <4>4. PICK a \in Locks, b \in Locks : ToSet(x) = {a, b}
        BY TwoLocks
      <4>5. Locks \cap ToSet(x) = {a, b}
        BY <4>4
      <4>6. \A n \in 0 .. m : IsFiniteSet(Named(f, n)) /\ Cardinality(Named(f, n)) <= 2 * n
        BY <3>1 DEF Bounded
      <4> DEFINE N == Named(f, m)
                 g == Append(f, x)
      <4>7. IsFiniteSet(N) /\ Cardinality(N) <= 2 * m /\ Cardinality(N) \in Nat
        BY <3>1, <4>6, FS_CardinalityType
      <4> HIDE DEF N, m, f, g
      <4>8. IsFiniteSet(N \cup {a, b}) /\ Cardinality(N \cup {a, b}) <= Cardinality(N) + 2
        BY <4>7, AddTwo
      <4>9. Cardinality(N \cup {a, b}) \in Nat
        BY <4>8, FS_CardinalityType
      <4>10. Cardinality(N \cup {a, b}) <= 2 * (m + 1)
        BY <3>1, <4>7, <4>8, <4>9
      <4>11. ASSUME NEW n \in 0 .. m + 1
             PROVE  IsFiniteSet(Named(g, n)) /\ Cardinality(Named(g, n)) <= 2 * n
        <5>1. CASE n = m + 1
          BY <4>3, <4>5, <4>8, <4>10, <5>1 DEF g, N
        <5>2. CASE n \in 0 .. m
          BY <4>3, <4>6, <5>2 DEF g
        <5> QED
          BY <3>1, <5>1, <5>2
      <4>12. Len(g) = m + 1 /\ m + 1 <= MaxFrames
        BY <2>1, <3>1, <4>2, <4>3 DEF g
      <4> QED
        BY <4>2, <4>11, <4>12 DEF Bounded, Giving, g
    <3>3. CASE EndSync(t)
      <4>1. frames'[t] = Front(f) /\ f # <<>>
        BY <2>1, <3>3 DEF EndSync, GoTo, LockTypes
      <4>2. /\ m \in Nat \ {0} /\ Len(Front(f)) = m - 1
            /\ \A n \in 0 .. m - 1 : Named(Front(f), n) = Named(f, n)
        BY <3>1, <4>1, NamedFront
      <4>3. \A n \in 0 .. m : IsFiniteSet(Named(f, n)) /\ Cardinality(Named(f, n)) <= 2 * n
        BY <3>1 DEF Bounded
      <4> HIDE DEF m, f
      <4>4. m - 1 < MaxFrames /\ m - 1 <= MaxFrames /\ \A n \in 0 .. m - 1 : n \in 0 .. m
        BY <2>1, <3>1, <4>2
      <4> QED
        BY <4>1, <4>2, <4>3, <4>4 DEF Bounded
    <3>4. CASE frames' = frames
      <4>1. pc'[t] \in Giving => pc[t] \in Giving \/ EndSync(t)
        BY <1>2, <2>1 DEF Step, Inside, Sync, Enter, HeldAlready, Ask, Word, Own,
           UnlockMutex, LeaveInner, LeaveClear, LeaveFree, Destroy, Remake, Onward, GoTo,
           LockTypes, Giving
      <4> QED
        BY <3>1, <3>3, <3>4, <4>1 DEF Bounded
    <3> QED
      BY <1>2, <3>2, <3>3, <3>4 DEF Step, Inside, Enter, HeldAlready, Ask, Word, Own,
         UnlockMutex, LeaveInner, LeaveClear, LeaveFree, Destroy, Remake
  <2>5. ASSUME NEW l \in Objs, owner'[l] = NoThread PROVE depth'[l] = 0
    <3> DEFINE l0 == Head(todo[t])
    <3>1. owner[l] = NoThread => depth[l] = 0
      BY DEF BoundInv
    <3>2. t # NoThread
      BY LocksAssumption
    <3>3. CASE Enter(t) \/ Own(t)
      <4>1. (Enter(t) /\ owner[l0] = t /\ owner' = owner /\ depth' = [depth EXCEPT ![l0] = @ + 1])
            \/ (owner' = [owner EXCEPT ![l0] = t] /\ depth' = [depth EXCEPT ![l0] = 1])
        BY <3>3 DEF Enter, Own
      <4> HIDE DEF l0
      <4> QED
        BY <2>1, <2>5, <3>1, <3>2, <4>1 DEF LockTypes
    <3>4. CASE LeaveInner(t) \/ LeaveClear(t)
      <4>1. pc[t] = "leave" /\ l0 \in Objs
        BY <3>4 DEF LeaveInner, LeaveClear
      <4>2. Want(t, l0) >= 1 /\ Want(t, l0) \in Nat
        <5>1. frames[t] \in Seq(Frames) /\ LeftToGive(todo[t]) /\ pc[t] \in Giving
          BY <2>1, <4>1 DEF LockTypes, Matches, Shape, Giving
        <5> QED
          BY <5>1, DueGive, WantNat DEF Want
      <4>3. owner[l0] = t /\ depth[l0] = Want(t, l0)
        <5> HIDE DEF l0
        <5> QED
          BY <2>1, <4>1, <4>2 DEF Matches, OwnersMatch
      <4>4. \/ owner' = owner /\ depth' = [depth EXCEPT ![l0] = depth[l0] - 1]
            \/ /\ owner' = [owner EXCEPT ![l0] = NoThread] /\ depth[l0] <= 1
               /\ depth' = [depth EXCEPT ![l0] = depth[l0] - 1]
        BY <3>4 DEF LeaveInner, LeaveClear
      <4> HIDE DEF l0
      <4> QED
        BY <2>1, <2>5, <3>1, <3>2, <4>1, <4>2, <4>3, <4>4 DEF LockTypes
    <3>5. CASE UNCHANGED <<owner, depth>>
      BY <2>5, <3>1, <3>5
    <3> QED
      BY <1>2, <3>3, <3>4, <3>5 DEF Step, Inside, Sync, HeldAlready, Ask, Word, EndSync,
         UnlockMutex, LeaveFree, Destroy, Remake
  <2> QED
    BY <2>2, <2>3, <2>4, <2>5 DEF BoundInv
<1> QED
  BY <1>1, <1>2 DEF Next

LEMMA BoundInvHolds == Spec => []BoundInv
  BY LockInvHolds, BoundInvInit, BoundInvStep, PTL DEF Spec

LEMMA DepthBound ==
  ASSUME LockInv, BoundInv, NEW l \in Objs
  PROVE  depth[l] \in 0 .. 2 * MaxFrames
<1>1. LockTypes /\ MaxFrames \in Nat /\ depth[l] \in Nat
  BY LocksAssumption DEF LockInv, LockTypes
<1>2. CASE owner[l] = NoThread
  BY <1>1, <1>2 DEF BoundInv
<1>3. ASSUME NEW t \in Threads, owner[l] = t PROVE depth[l] <= MaxFrames
  <2> DEFINE f == frames[t]
             m == Len(f)
  <2>1. Matches(t) /\ Bounded(t) /\ f \in Seq(Frames) /\ m \in Nat
    BY <1>1 DEF LockInv, LockTypes, BoundInv
  <2>2. depth[l] = Due(f, todo[t], pc[t], l)
    BY <1>3, <2>1 DEF Matches, OwnersMatch, Want
  <2>3. m <= MaxFrames /\ (pc[t] \in Giving => m < MaxFrames)
    BY <2>1 DEF Bounded
  <2>4. pc[t] = "run" => ToSet(todo[t]) = {}
    BY <2>1, ToSetOf DEF Matches, Shape
  <2>5. pc[t] \in Taking \cup Giving \cup {"run"}
    BY <1>1 DEF LockTypes, Places, Taking, Giving
  <2> HIDE DEF f
  <2>6. Count(f, l) \in Nat /\ Count(f, l) <= m
    BY <2>1, CountAtMost
  <2> HIDE DEF m
  <2> QED
    BY <1>1, <2>1, <2>2, <2>3, <2>4, <2>5, <2>6 DEF Due
<1> QED
  BY <1>1, <1>2, <1>3 DEF LockTypes

LEMMA CountBound ==
  ASSUME LockInv, StackInv, BoundInv, NEW t \in Threads
  PROVE  heldCount[t] \in 0 .. 2 * MaxFrames
<1> DEFINE f == frames[t]
           m == Len(f)
           N == Named(f, m)
           H == HeldLocks(t)
           c == heldCount[t]
           d == todo[t]
           l0 == Head(d)
<1>1. /\ LockTypes /\ Matches(t) /\ MaxFrames \in Nat /\ c \in Nat /\ f \in Seq(Frames)
      /\ m \in Nat /\ StackOK(t) /\ Bounded(t)
  BY LocksAssumption DEF LockInv, LockTypes, StackInv, StackTypes, BoundInv
<1>2. /\ m <= MaxFrames /\ (pc[t] \in Giving => m < MaxFrames)
      /\ \A n \in 0 .. m : IsFiniteSet(Named(f, n)) /\ Cardinality(Named(f, n)) <= 2 * n
  BY <1>1 DEF Bounded
<1>3. IsFiniteSet(N) /\ Cardinality(N) <= 2 * m /\ Cardinality(N) \in Nat
  BY <1>1, <1>2, FS_CardinalityType
<1>4. IsFiniteSet(H) /\ Cardinality(H) \in Nat
  BY <1>1, FS_CardinalityType DEF StackOK
<1>5. CASE pc[t] \in Giving
  <2>1. c = Cardinality(H) + 0
    BY <1>1, <1>5 DEF StackOK, Giving
  <2>2. LeftToGive(d)
    BY <1>1, <1>5 DEF Matches, Shape
  <2>3. PICK a \in Locks, b \in Locks : ToSet(d) = {a, b}
    BY <2>2, TwoLocks
  <2>4. H \subseteq N \cup {a, b}
    BY <2>3, HeldNamed
  <2> HIDE DEF H, N, c, m
  <2>5. IsFiniteSet(N \cup {a, b}) /\ Cardinality(N \cup {a, b}) <= Cardinality(N) + 2
    BY <1>3, AddTwo
  <2>6. Cardinality(H) <= Cardinality(N \cup {a, b}) /\ Cardinality(N \cup {a, b}) \in Nat
    BY <2>4, <2>5, FS_Subset, FS_CardinalityType
  <2>7. c <= 2 * MaxFrames
    BY <1>1, <1>2, <1>3, <1>4, <1>5, <2>1, <2>5, <2>6
  <2> QED
    BY <1>1, <2>7 DEF c
<1>6. ASSUME pc[t] \notin Giving PROVE H \subseteq N
  BY <1>6, HeldNamed
<1>7. CASE pc[t] \notin Giving /\ pc[t] # "word"
  <2>1. c = Cardinality(H) + 0
    BY <1>1, <1>7 DEF StackOK
  <2>2. Cardinality(H) <= Cardinality(N)
    <3> HIDE DEF H, N
    <3> QED
      BY <1>3, <1>6, <1>7, FS_Subset
  <2> HIDE DEF H, N, c, m
  <2>3. c <= 2 * MaxFrames
    BY <1>1, <1>2, <1>3, <1>4, <2>1, <2>2
  <2> QED
    BY <1>1, <2>3 DEF c
<1>8. CASE pc[t] = "word"
  <2>1. c = Cardinality(H) + 1
    BY <1>1, <1>8 DEF StackOK
  <2>2. f # <<>> /\ LeftToTake(ToSet(Last(f)), d)
    BY <1>1, <1>8 DEF Matches, Shape, Taking
  <2>3. /\ m \in Nat \ {0}
        /\ N = Named(f, m - 1) \cup (Locks \cap ToSet(Last(f)))
    BY <1>1, <2>2, NamedFront
  <2>4. l0 \in Locks /\ l0 \in ToSet(Last(f))
    <3> HIDE DEF d
    <3> QED
      BY <2>2, ToSetOf DEF LeftToTake, Locks
  <2>5. H \subseteq N
    BY <1>6, <1>8 DEF Giving
  <2>6. CASE l0 \notin H
    <3>1. H \cup {l0} \subseteq N
      BY <2>3, <2>4, <2>5
    <3> HIDE DEF H, N, c, m, l0
    <3>2. Cardinality(H \cup {l0}) = Cardinality(H) + 1
      BY <1>4, <2>6, FS_AddElement
    <3>3. Cardinality(H \cup {l0}) <= Cardinality(N)
      BY <1>3, <3>1, FS_Subset
    <3>4. c <= 2 * MaxFrames
      BY <1>1, <1>2, <1>3, <1>4, <2>1, <3>2, <3>3
    <3> QED
      BY <1>1, <3>4 DEF c
  <2>7. CASE l0 \in H
    <3>1. l0 \notin Objs
      BY <1>1, <1>8, <2>7 DEF Matches, OwnersMatch, WordsMatch, HeldLocks
    <3>2. ToSet(Last(f)) = {l0}
      <4> HIDE DEF d, f
      <4> QED
        BY <2>2, <3>1 DEF LeftToTake
    <3> DEFINE M == Named(f, m - 1)
    <3>3. N = M \cup {l0}
      BY <2>3, <2>4, <3>2
    <3>4. IsFiniteSet(M) /\ Cardinality(M) <= 2 * (m - 1) /\ Cardinality(M) \in Nat
      <4>1. m - 1 \in 0 .. m
        BY <2>3
      <4> HIDE DEF m
      <4> QED
        BY <1>2, <4>1, FS_CardinalityType
    <3> HIDE DEF H, N, M, c, m, l0
    <3>5. Cardinality(N) <= Cardinality(M) + 1
      BY <3>3, <3>4, FS_AddElement
    <3>6. Cardinality(H) <= Cardinality(N)
      BY <1>3, <2>5, FS_Subset
    <3>7. c <= 2 * MaxFrames
      BY <1>1, <1>2, <1>3, <1>4, <2>1, <2>3, <3>4, <3>5, <3>6
    <3> QED
      BY <1>1, <3>7 DEF c
  <2> QED
    BY <2>6, <2>7
<1> QED
  BY <1>5, <1>7, <1>8

\* In a program that makes no object in the memory of a freed one, and for any
\* threads, locks, nesting and HELD_MAX, the record of a dev build is right: its
\* array never overflows, it names the locks a thread holds, and every conflict
\* it reports is true and is said once.
THEOREM RecordAlwaysSound ==
  ASSUME Reuse = FALSE
  PROVE  Spec => []RecordSound
<1>1. LockInv /\ StackInv /\ TableInv /\ BoundInv => TypeOK
  <2> SUFFICES ASSUME LockInv, StackInv, TableInv, BoundInv PROVE TypeOK
    OBVIOUS
  <2>1. LockTypes /\ TableOK /\ aborted \in BOOLEAN
    BY DEF LockInv, TableInv, BoundInv
  <2>2. depth \in [Objs -> 0 .. 2 * MaxFrames]
    BY <2>1, DepthBound DEF LockTypes
  <2>3. ASSUME NEW t \in Threads PROVE held[t] \in Seq(Locks) /\ Len(held[t]) <= HeldMax
    <3>1. StackOK(t) /\ heldCount[t] \in Nat /\ HeldMax \in Nat
      BY LocksAssumption DEF StackInv, StackTypes
    <3> QED
      BY <3>1 DEF StackOK, Fits, Crossed
  <2>4. \A t \in Threads : heldCount[t] \in 0 .. 2 * MaxFrames
    BY CountBound
  <2>5. reported \subseteq orders /\ orders \subseteq Locks \X Locks
    BY <2>1 DEF TableOK, Table
  <2> QED
    BY <2>1, <2>2, <2>3, <2>4, <2>5 DEF TypeOK, LockTypes
<1>2. TableInv => ReportsTrue /\ ReportedOnce
  BY DEF TableInv, TableOK, Table, ReportsTrue, ReportedOnce
<1> QED
  BY <1>1, <1>2, LockInvHolds, StackInvHolds, BoundInvHolds, TableInvHolds, RecordAlwaysTrue,
     PTL DEF RecordSound
==============================================================================
