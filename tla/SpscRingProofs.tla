---------------------------- MODULE SpscRingProofs ----------------------------
(***************************************************************************)
(* The ring between one producer and one consumer, for any number of slots *)
(* and any pushes: no element is lost, doubled, reordered or torn down     *)
(* twice, and no slot is in use on both sides.                             *)
(*                                                                         *)
(* Each side decides by a copy of the other's counter that may be old.     *)
(* What makes that safe is that the copies lag on one side only: takenSeen *)
(* <= taken <= givenSeen <= given <= takenSeen + N.  The positions in use  *)
(* then span at most N, so no two of them share a slot.                    *)
(***************************************************************************)
EXTENDS SpscRing, WellFoundedInduction, TLAPS

-----------------------------------------------------------------------------
(* The invariant *)

\* The slot of a position.
Place(p) == p % N

\* What stands in the positions from a up to b.
Row(r, a, b) == {r[Place(p)] : p \in a .. b - 1}
Rising(r, a, b) == \A p, q \in a .. b - 1 : p < q => r[Place(p)] < r[Place(q)]

\* A slot of no position from a up to b and not in x is zero.
Clear(r, a, b, x) ==
    \A s \in 0 .. N - 1 : r[s] = 0 \/ (\E p \in a .. b - 1 : Place(p) = s) \/ s \in x

\* The slots of r and w differ at positions from a up to b alone, and those of w are
\* empty there.
Within(r, w, a, b) ==
    \A s \in 0 .. N - 1 : (\A p \in a .. b - 1 : Place(p) # s) => w[s] = r[s]
Emptied(w, a, b) == \A p \in a .. b - 1 : w[Place(p)] = 0

\* The slot that is written and not yet given.
Written == IF producer = "store" THEN {Place(given)} ELSE {}

TypesOK ==
    /\ room \in [0 .. N - 1 -> 0 .. MaxPush]
    /\ producer \in {"rest", "reload", "write", "store"}
    /\ pushed \in 0 .. MaxPush /\ inside \in SUBSET (1 .. pushed)

\* The counters and their copies.
CountsOK ==
    /\ given \in Nat /\ taken \in Nat /\ takenSeen \in Nat /\ givenSeen \in Nat
    /\ takenSeen <= taken /\ taken <= givenSeen /\ givenSeen <= given
    /\ given - takenSeen <= N
    /\ producer \in {"write", "store"} => given - takenSeen < N
    /\ producer # "rest" => pushed < MaxPush

ConsumerOK ==
    \/ consumer = Rest
    \/ consumer = [at |-> "reload"]
    \/ consumer = [at |-> "take"] /\ taken < givenSeen
    \/ consumer = [at |-> "view", head |-> taken, tail |-> givenSeen]
    \/ \E h \in taken .. givenSeen : consumer = [at |-> "store", head |-> h]

\* The slots.
SlotsOK ==
    /\ Row(room, Oldest, given) = inside
    /\ Rising(room, Oldest, given)
    /\ Clear(room, Oldest, given, Written)
    /\ producer = "store" => room[Place(given)] = pushed + 1

RingInv == TypesOK /\ CountsOK /\ ConsumerOK /\ SlotsOK

-----------------------------------------------------------------------------
(* Numbers. *)

\* A set of naturals has a least member.
LEMMA LeastOf ==
    ASSUME NEW S, S \subseteq Nat, S # {}
    PROVE  \E x \in S : \A y \in S : x <= y
<1>1. IsWellFoundedOn(OpToRel(<, Nat), Nat)
  BY NatLessThanWellFounded
<1>2. PICK x \in S : \A y \in S : ~(<<y, x>> \in OpToRel(<, Nat))
  BY <1>1, WFMin
<1>3. ASSUME NEW y \in S
      PROVE  x <= y
  <2>1. x \in Nat /\ y \in Nat
    OBVIOUS
  <2>2. y < x => <<y, x>> \in OpToRel(<, Nat)
    BY <2>1 DEF OpToRel
  <2>3. ~(y < x)
    BY <1>2, <2>2
  <2> QED
    BY <2>1, <2>3
<1> QED
  BY <1>3

\* A multiple of d that is positive is d at least.
LEMMA Multiple ==
    ASSUME NEW d \in Nat, d > 0, NEW k \in Int, k * d > 0
    PROVE  k * d >= d
<1>1. k >= 1
  <2>1. ASSUME k <= 0
        PROVE  k * d <= 0
    BY <2>1
  <2> QED
    BY <2>1
<1>2. PICK j \in Nat : k = 1 + j
  <2>1. k - 1 \in Nat /\ k = 1 + (k - 1)
    BY <1>1
  <2> QED
    BY <2>1
<1>3. k * d = d + (j * d)
  BY <1>2
<1>4. j * d >= 0
  OBVIOUS
<1>5. j * d \in Int
  OBVIOUS
<1> QED
  BY <1>3, <1>4, <1>5

\* The parts of a division.
LEMMA DivMod ==
    ASSUME NEW x \in Nat, NEW d \in Nat, d > 0
    PROVE  /\ x \div d \in Int /\ (x % d) \in Int
           /\ x = ((x \div d) * d) + (x % d)
OBVIOUS

\* Positions less than N apart have different slots.
LEMMA PlaceApart ==
    ASSUME NEW p \in Nat, NEW q \in Nat, p < q, q - p < N
    PROVE  Place(p) # Place(q)
<1> SUFFICES ASSUME Place(p) = Place(q)
             PROVE  FALSE
  OBVIOUS
<1>1. N \in Nat /\ N > 0
  BY RingAssumption
<1> DEFINE x == p \div N
           y == q \div N
           r == p % N
           k == y - x
<1>2. x \in Int /\ y \in Int /\ r \in Int /\ p = (x * N) + r /\ q = (y * N) + r
  BY <1>1, DivMod DEF Place
<1> HIDE DEF x, y, r
<1>3. k \in Int /\ k * N = (y * N) - (x * N)
  BY <1>1, <1>2
<1>4. (x * N) \in Int /\ (y * N) \in Int
  BY <1>1, <1>2
<1>5. q - p = (y * N) - (x * N)
  BY <1>2, <1>4
<1> HIDE DEF k
<1>6. k * N > 0 /\ k * N < N
  BY <1>3, <1>5
<1> QED
  BY <1>1, <1>3, <1>6, Multiple

\* A slot is one of the room, and of the first N positions it is the position.
LEMMA PlaceIs ==
    /\ \A p \in Nat : Place(p) \in 0 .. N - 1
    /\ \A p \in 0 .. N - 1 : Place(p) = p
BY RingAssumption DEF Place

\* In a span of N positions the slot tells the position.
LEMMA PlaceTells ==
    ASSUME NEW a \in Nat, NEW b \in Nat, b <= a + N,
           NEW p \in a .. b - 1, NEW q \in a .. b - 1, Place(p) = Place(q)
    PROVE  p = q
<1>1. N \in Nat /\ p \in Nat /\ q \in Nat
  BY RingAssumption
<1>2. ~(p < q)
  <2>1. p < q => q - p < N
    BY <1>1
  <2> QED
    BY <1>1, <2>1, PlaceApart
<1>3. ~(q < p)
  <2>1. q < p => p - q < N
    BY <1>1
  <2> QED
    BY <1>1, <2>1, PlaceApart
<1> QED
  BY <1>1, <1>2, <1>3

-----------------------------------------------------------------------------
(* What the steps do to the slots. *)

\* The producer writes the slot behind the newest element.
LEMMA WriteKeeps ==
    ASSUME NEW r, NEW a \in Nat, NEW b \in Nat, a <= b, b - a < N,
           NEW w, Within(r, w, b, b + 1)
    PROVE  /\ Row(w, a, b) = Row(r, a, b)
           /\ Rising(r, a, b) => Rising(w, a, b)
           /\ Clear(r, a, b, {}) => Clear(w, a, b, {Place(b)})
<1>1. N \in Nat /\ Place(b) \in 0 .. N - 1
  BY RingAssumption, PlaceIs
<1>2. \A s \in 0 .. N - 1 : s # Place(b) => w[s] = r[s]
  <2>1. \A p : p \in b .. (b + 1) - 1 <=> p = b
    OBVIOUS
  <2> QED
    BY <2>1 DEF Within
<1>3. ASSUME NEW p \in a .. b - 1
      PROVE  w[Place(p)] = r[Place(p)]
  <2>1. p \in Nat /\ p < b /\ b - p < N
    BY <1>1
  <2>2. Place(p) # Place(b) /\ Place(p) \in 0 .. N - 1
    BY <2>1, PlaceApart, PlaceIs
  <2> QED
    BY <1>2, <2>2
<1>4. Row(w, a, b) = Row(r, a, b)
  BY <1>3 DEF Row
<1>5. Rising(r, a, b) => Rising(w, a, b)
  BY <1>3 DEF Rising
<1>6. Clear(r, a, b, {}) => Clear(w, a, b, {Place(b)})
  BY <1>2 DEF Clear
<1> QED
  BY <1>1, <1>4, <1>5, <1>6

\* The store of given makes the written slot part of the row.
LEMMA GiveKeeps ==
    ASSUME NEW r, NEW a \in Nat, NEW b \in Nat, a <= b, NEW X, NEW e,
           Row(r, a, b) = X, Rising(r, a, b), Clear(r, a, b, {Place(b)}),
           r[Place(b)] = e, \A x \in X : x < e
    PROVE  /\ Row(r, a, b + 1) = X \cup {e} /\ Rising(r, a, b + 1)
           /\ Clear(r, a, b + 1, {})
<1>1. \A p : p \in a .. (b + 1) - 1 <=> p \in a .. b - 1 \/ p = b
  OBVIOUS
<1>2. Row(r, a, b + 1) = X \cup {e}
  BY <1>1 DEF Row
<1>3. ASSUME NEW p \in a .. (b + 1) - 1, NEW q \in a .. (b + 1) - 1, p < q
      PROVE  r[Place(p)] < r[Place(q)]
  <2>1. p \in a .. b - 1
    BY <1>3
  <2>2. CASE q \in a .. b - 1
    BY <1>3, <2>1, <2>2 DEF Rising
  <2>3. CASE q = b
    <3>1. r[Place(p)] \in X
      BY <2>1 DEF Row
    <3> QED
      BY <2>3, <3>1
  <2> QED
    BY <1>1, <2>2, <2>3
<1>4. Clear(r, a, b + 1, {})
  <2> SUFFICES ASSUME NEW s \in 0 .. N - 1, r[s] # 0
               PROVE  \E p \in a .. (b + 1) - 1 : Place(p) = s
    BY DEF Clear
  <2>1. (\E p \in a .. b - 1 : Place(p) = s) \/ s = Place(b)
    BY DEF Clear
  <2> QED
    BY <1>1, <2>1
<1> QED
  BY <1>2, <1>3, <1>4 DEF Rising

\* The consumer changes the slots of the positions from a up to c: those up to h are
\* empty after it, the others hold a part of what stood there.
LEMMA ChangeKeeps ==
    ASSUME NEW r \in [0 .. N - 1 -> Int], NEW w, NEW a \in Nat, NEW h \in Nat,
           NEW c \in Nat, NEW b \in Nat,
           a <= h, h <= c, c <= b, b <= a + N, NEW x,
           Rising(r, a, b), Clear(r, a, b, x), Within(r, w, a, c), Emptied(w, a, h),
           Rising(w, h, c), Row(w, h, c) \subseteq Row(r, a, c)
    PROVE  /\ Row(w, h, b) = (Row(r, a, b) \ Row(r, a, c)) \cup Row(w, h, c)
           /\ Rising(w, h, b) /\ Clear(w, h, b, x) /\ Within(r, w, a, b)
<1>1. N \in Nat
  BY RingAssumption
<1>2. ASSUME NEW q \in c .. b - 1
      PROVE  w[Place(q)] = r[Place(q)]
  <2>1. ASSUME NEW p \in a .. c - 1
        PROVE  Place(p) # Place(q)
    <3>1. p \in a .. b - 1 /\ q \in a .. b - 1 /\ p # q
      OBVIOUS
    <3> QED
      BY <3>1, PlaceTells
  <2>2. q \in Nat
    OBVIOUS
  <2>3. Place(q) \in 0 .. N - 1
    BY <2>2, PlaceIs
  <2> QED
    BY <2>1, <2>3 DEF Within
<1>3. /\ \A p : p \in h .. b - 1 <=> p \in h .. c - 1 \/ p \in c .. b - 1
      /\ \A p : p \in a .. b - 1 <=> p \in a .. c - 1 \/ p \in c .. b - 1
  OBVIOUS
<1>4. ASSUME NEW p \in a .. c - 1, NEW q \in c .. b - 1
      PROVE  r[Place(p)] < r[Place(q)]
  <2>1. p \in a .. b - 1 /\ q \in a .. b - 1 /\ p < q
    OBVIOUS
  <2> QED
    BY <2>1 DEF Rising
<1>5. Rising(w, h, b)
  <2> SUFFICES ASSUME NEW p \in h .. b - 1, NEW q \in h .. b - 1, p < q
               PROVE  w[Place(p)] < w[Place(q)]
    BY DEF Rising
  <2>1. CASE q \in h .. c - 1
    <3>1. p \in h .. c - 1
      BY <2>1
    <3> QED
      BY <2>1, <3>1 DEF Rising
  <2>2. CASE q \in c .. b - 1 /\ p \in c .. b - 1
    <3>1. p \in a .. b - 1 /\ q \in a .. b - 1
      BY <2>2
    <3> QED
      BY <1>2, <2>2, <3>1 DEF Rising
  <2>3. CASE q \in c .. b - 1 /\ p \in h .. c - 1
    <3>1. w[Place(p)] \in Row(r, a, c)
      BY <2>3 DEF Row
    <3>2. PICK i \in a .. c - 1 : w[Place(p)] = r[Place(i)]
      BY <3>1 DEF Row
    <3> QED
      BY <1>2, <1>4, <2>3, <3>2
  <2> QED
    BY <1>3, <2>1, <2>2, <2>3
<1>6. Row(w, h, b) = (Row(r, a, b) \ Row(r, a, c)) \cup Row(w, h, c)
  <2> DEFINE New == {r[Place(q)] : q \in c .. b - 1}
  <2>1. Row(w, h, b) = Row(w, h, c) \cup New
    BY <1>2, <1>3 DEF Row
  <2>2. Row(r, a, b) = Row(r, a, c) \cup New
    BY <1>3 DEF Row
  <2>3. ASSUME NEW q \in c .. b - 1
        PROVE  r[Place(q)] \notin Row(r, a, c)
    <3> SUFFICES ASSUME NEW p \in a .. c - 1, r[Place(p)] = r[Place(q)]
                 PROVE  FALSE
      BY DEF Row
    <3>1. r[Place(p)] < r[Place(q)]
      BY <1>4
    <3>2. q \in Nat
      OBVIOUS
    <3>3. r[Place(q)] \in Int
      BY <3>2, PlaceIs
    <3> QED
      BY <3>1, <3>3
  <2> QED
    BY <2>1, <2>2, <2>3
<1>7. Clear(w, h, b, x)
  <2> SUFFICES ASSUME NEW s \in 0 .. N - 1, w[s] # 0, s \notin x
               PROVE  \E p \in h .. b - 1 : Place(p) = s
    BY DEF Clear
  <2>1. CASE \E p \in a .. c - 1 : Place(p) = s
    <3>1. PICK p \in a .. c - 1 : Place(p) = s
      BY <2>1
    <3>2. p \notin a .. h - 1
      BY <3>1 DEF Emptied
    <3>3. p \in h .. b - 1
      BY <3>2
    <3> QED
      BY <3>1, <3>3
  <2>2. CASE \A p \in a .. c - 1 : Place(p) # s
    <3>1. r[s] # 0
      BY <2>2 DEF Within
    <3>2. PICK p \in a .. b - 1 : Place(p) = s
      BY <3>1 DEF Clear
    <3>3. p \in h .. b - 1
      BY <1>3, <2>2, <3>2
    <3> QED
      BY <3>2, <3>3
  <2> QED
    BY <2>1, <2>2
<1>8. Within(r, w, a, b)
  BY <1>3 DEF Within
<1> QED
  BY <1>5, <1>6, <1>7, <1>8

\* The oldest element goes.
LEMMA PopKeeps ==
    ASSUME NEW r \in [0 .. N - 1 -> Int], NEW a \in Nat,
           NEW b \in Nat, a < b, b <= a + N, NEW x, NEW X,
           Row(r, a, b) = X, Rising(r, a, b), Clear(r, a, b, x),
           NEW w, Within(r, w, a, a + 1), w[Place(a)] = 0
    PROVE  /\ Within(r, w, a, b)
           /\ Row(w, a + 1, b) = {e \in X : \E older \in X : older < e}
           /\ Rising(w, a + 1, b) /\ Clear(w, a + 1, b, x)
<1> DEFINE c == a + 1
           h == a + 1
<1>1. N \in Nat /\ Place(a) \in 0 .. N - 1 /\ r \in [0 .. N - 1 -> Int]
  BY RingAssumption, PlaceIs
<1>2. c \in Nat /\ h \in Nat /\ a <= h /\ h <= c /\ c <= b
  OBVIOUS
<1>3. \A p : p \in a .. c - 1 <=> p = a
  OBVIOUS
<1>4. Row(w, h, c) = {} /\ Rising(w, h, c) /\ Row(w, h, c) \subseteq Row(r, a, c)
  BY DEF Row, Rising
<1>5. Within(r, w, a, c)
  BY <1>3 DEF Within
<1>6. Emptied(w, a, h)
  BY <1>1, <1>3 DEF Emptied
<1>7. Row(r, a, c) = {r[Place(a)]}
  BY <1>3 DEF Row
<1> HIDE DEF c, h
<1>8. /\ Row(w, h, b) = (Row(r, a, b) \ Row(r, a, c)) \cup Row(w, h, c)
      /\ Rising(w, h, b) /\ Clear(w, h, b, x) /\ Within(r, w, a, b)
  BY <1>1, <1>2, <1>4, <1>5, <1>6, ChangeKeeps
<1>9. X \ {r[Place(a)]} = {e \in X : \E older \in X : older < e}
  <2>1. a \in a .. b - 1 /\ r[Place(a)] \in X /\ r[Place(a)] \in Int
    BY <1>1 DEF Row
  <2>2. ASSUME NEW e \in X, e # r[Place(a)]
        PROVE  r[Place(a)] < e
    <3>1. PICK p \in a .. b - 1 : e = r[Place(p)]
      BY DEF Row
    <3>2. a < p
      BY <2>2, <3>1
    <3> QED
      BY <2>1, <3>1, <3>2 DEF Rising
  <2>3. \A e \in X : e \in Int
    <3>1. \A p \in a .. b - 1 : Place(p) \in 0 .. N - 1
      BY PlaceIs
    <3> QED
      BY <1>1, <3>1 DEF Row
  <2>4. ASSUME NEW older \in X
        PROVE  ~(older < r[Place(a)])
    BY <2>1, <2>2, <2>3
  <2> QED
    BY <2>1, <2>2, <2>4
<1>10. Row(w, h, b) = {e \in X : \E older \in X : older < e}
  BY <1>4, <1>7, <1>8, <1>9
<1> QED
  BY <1>8, <1>10 DEF h

\* take_place of the element at a position: the elements before it move on, and the
\* row is without it.
Shifted(r, w, a, k) ==
    \A p \in a .. k : w[Place(p)] = IF p = a THEN 0 ELSE r[Place(p - 1)]
Without(S, T, e) == S = T \ {e}

LEMMA TakeKeeps ==
    ASSUME NEW r \in [0 .. N - 1 -> Int], NEW a \in Nat,
           NEW b \in Nat, NEW k \in Nat, a <= k, k < b, b <= a + N, NEW x,
           Rising(r, a, b), Clear(r, a, b, x),
           NEW w, Within(r, w, a, k + 1), Shifted(r, w, a, k)
    PROVE  /\ Within(r, w, a, b)
           /\ Without(Row(w, a + 1, b), Row(r, a, b), r[Place(k)])
           /\ Rising(w, a + 1, b) /\ Clear(w, a + 1, b, x)
<1> DEFINE c == k + 1
           h == a + 1
           Y == Row(r, a, k)
<1>1. N \in Nat /\ r \in [0 .. N - 1 -> Int]
  BY RingAssumption
<1>2. c \in Nat /\ h \in Nat /\ a <= h /\ h <= c /\ c <= b /\ k \in Nat
  OBVIOUS
<1>3. /\ \A p : p \in a .. c - 1 <=> p \in a .. k
      /\ \A p : p \in a .. h - 1 <=> p = a
      /\ \A p : p \in a .. k => p \in a .. b - 1
      /\ \A p : p \in h .. c - 1 => p \in a .. k /\ p # a /\ p - 1 \in a .. k - 1
      /\ \A p : p \in a .. k - 1 => p + 1 \in h .. c - 1 /\ (p + 1) - 1 = p
      /\ \A p : p \in a .. k - 1 => p \in a .. c - 1
      /\ \A p : p \in a .. c - 1 <=> p \in a .. k - 1 \/ p = k
  OBVIOUS
<1>4. Within(r, w, a, c)
  OBVIOUS
<1>5. Emptied(w, a, h)
  BY <1>3 DEF Emptied, Shifted
<1>6. \A p \in h .. c - 1 : w[Place(p)] = r[Place(p - 1)]
  BY <1>3 DEF Shifted
<1>7. Row(w, h, c) = Y
  <2>1. \A p \in h .. c - 1 : w[Place(p)] \in Y
    BY <1>3, <1>6 DEF Row
  <2>2. \A p \in a .. k - 1 : r[Place(p)] = w[Place(p + 1)] /\ p + 1 \in h .. c - 1
    BY <1>3, <1>6
  <2> HIDE DEF h, c
  <2>3. \A p \in a .. k - 1 : r[Place(p)] \in Row(w, h, c)
    BY <2>2 DEF Row
  <2>4. Row(w, h, c) \subseteq Y
    BY <2>1 DEF Row
  <2>5. Y \subseteq Row(w, h, c)
    BY <2>3 DEF Row
  <2> QED
    BY <2>4, <2>5
<1>8. Rising(w, h, c)
  <2> SUFFICES ASSUME NEW p \in h .. c - 1, NEW q \in h .. c - 1, p < q
               PROVE  w[Place(p)] < w[Place(q)]
    BY DEF Rising
  <2>1. p - 1 \in a .. b - 1 /\ q - 1 \in a .. b - 1 /\ p - 1 < q - 1
    OBVIOUS
  <2>2. r[Place(p - 1)] < r[Place(q - 1)]
    BY <2>1 DEF Rising
  <2> QED
    BY <1>6, <2>2
<1>9. Y \subseteq Row(r, a, c)
  BY <1>3 DEF Row
<1> HIDE DEF c, h, Y
<1>10. /\ Row(w, h, b) = (Row(r, a, b) \ Row(r, a, c)) \cup Row(w, h, c)
       /\ Rising(w, h, b) /\ Clear(w, h, b, x) /\ Within(r, w, a, b)
  BY <1>1, <1>2, <1>4, <1>5, <1>7, <1>8, <1>9, ChangeKeeps
<1>11. Row(r, a, c) = Y \cup {r[Place(k)]}
  BY <1>3 DEF Row, Y
<1>12. r[Place(k)] \notin Y
  <2> SUFFICES ASSUME NEW p \in a .. k - 1, r[Place(p)] = r[Place(k)]
               PROVE  FALSE
    BY DEF Row, Y
  <2>1. p \in a .. b - 1 /\ p < k
    OBVIOUS
  <2>2. r[Place(p)] < r[Place(k)]
    BY <2>1 DEF Rising
  <2>3. r[Place(k)] \in Int
    BY <1>1, <1>2, PlaceIs
  <2> QED
    BY <2>2, <2>3
<1>13. Y \subseteq Row(r, a, b)
  <2>1. \A p \in a .. k - 1 : p \in a .. b - 1
    OBVIOUS
  <2> QED
    BY <2>1 DEF Row, Y
<1>14. Row(w, h, b) = Row(r, a, b) \ {r[Place(k)]}
  BY <1>7, <1>10, <1>11, <1>12, <1>13
<1> QED
  BY <1>10, <1>14 DEF h, Without

-----------------------------------------------------------------------------
(* The loop of remove_all. *)

\* The loop over the positions from c down to p has left the room r as w, with the
\* elements that stay from k up to c.
Looped(r, w, k, p, c, gone) ==
    /\ k \in p .. c
    /\ Within(r, w, p, c)
    /\ Emptied(w, p, k)
    /\ Row(w, k, c) = Row(r, p, c) \ gone
    /\ Rising(w, k, c)

\* A turn of the loop finds its element where it was.
LEMMA TurnFinds ==
    ASSUME NEW r, NEW w, NEW p \in Nat, NEW c \in Nat, p < c, c <= p + N,
           Within(r, w, p + 1, c)
    PROVE  w[Place(p)] = r[Place(p)]
<1>1. \A q \in p + 1 .. c - 1 : q \in p .. c - 1 /\ p \in p .. c - 1 /\ p # q
  OBVIOUS
<1>2. \A q \in p + 1 .. c - 1 : Place(q) # Place(p)
  BY <1>1, PlaceTells
<1>3. Place(p) \in 0 .. N - 1
  BY PlaceIs
<1> QED
  BY <1>2, <1>3 DEF Within

\* The turn that takes its element out.
LEMMA TurnDrops ==
    ASSUME NEW r, NEW w, NEW k, NEW p \in Nat, NEW c \in Nat, p < c, c <= p + N,
           NEW gone, Looped(r, w, k, p + 1, c, gone), r[Place(p)] \in gone,
           NEW v, \A s \in 0 .. N - 1 : s # Place(p) => v[s] = w[s], v[Place(p)] = 0
    PROVE  Looped(r, v, k, p, c, gone)
<1>1. k \in Nat /\ p + 1 <= k /\ k <= c /\ k \in p .. c
  BY DEF Looped
<1>2. \A q \in p + 1 .. c - 1 : q \in Nat /\ q \in p .. c - 1 /\ p \in p .. c - 1 /\ p # q
  OBVIOUS
<1>3. \A q \in p + 1 .. c - 1 : Place(q) # Place(p) /\ Place(q) \in 0 .. N - 1
  BY <1>2, PlaceTells, PlaceIs
<1>4. \A q \in p + 1 .. c - 1 : v[Place(q)] = w[Place(q)]
  BY <1>3
<1>5. /\ \A q : q \in k .. c - 1 => q \in p + 1 .. c - 1
      /\ \A q : q \in p .. k - 1 <=> q = p \/ q \in p + 1 .. k - 1
      /\ \A q : q \in p + 1 .. k - 1 => q \in p + 1 .. c - 1
      /\ \A q : q \in p .. c - 1 <=> q = p \/ q \in p + 1 .. c - 1
  BY <1>1
<1>6. Within(r, v, p, c)
  <2> SUFFICES ASSUME NEW s \in 0 .. N - 1, \A q \in p .. c - 1 : Place(q) # s
               PROVE  v[s] = r[s]
    BY DEF Within
  <2>1. s # Place(p) /\ \A q \in p + 1 .. c - 1 : Place(q) # s
    BY <1>5
  <2> QED
    BY <2>1 DEF Looped, Within
<1>7. Emptied(v, p, k)
  BY <1>4, <1>5 DEF Looped, Emptied
<1>8. Row(v, k, c) = Row(w, k, c)
  BY <1>4, <1>5 DEF Row
<1>9. Row(r, p, c) = Row(r, p + 1, c) \cup {r[Place(p)]}
  BY <1>5 DEF Row
<1>10. Row(v, k, c) = Row(r, p, c) \ gone
  BY <1>8, <1>9 DEF Looped
<1>11. Rising(v, k, c)
  BY <1>4, <1>5 DEF Looped, Rising
<1> QED
  BY <1>1, <1>6, <1>7, <1>10, <1>11 DEF Looped

\* The turn whose element stays and moves up to the last one that stays.
LEMMA TurnMoves ==
    ASSUME NEW r, NEW w, NEW k, NEW p \in Nat, NEW c \in Nat, p < c, c <= p + N,
           NEW gone, Looped(r, w, k, p + 1, c, gone), r[Place(p)] \notin gone,
           Rising(r, p, c), NEW t, t = k - 1,
           NEW v, \A s \in 0 .. N - 1 : s # Place(p) /\ s # Place(t) => v[s] = w[s],
           v[Place(t)] = r[Place(p)], t # p => v[Place(p)] = 0
    PROVE  Looped(r, v, t, p, c, gone)
<1>1. k \in Nat /\ p + 1 <= k /\ k <= c
  BY DEF Looped
<1>2. t \in Nat /\ t + 1 = k /\ t \in p .. c /\ t \in p .. c - 1
  BY <1>1
<1>3. \A q \in p + 1 .. c - 1 : q \in Nat /\ q \in p .. c - 1 /\ p \in p .. c - 1 /\ p # q
  OBVIOUS
<1>4. \A q \in p + 1 .. c - 1 : Place(q) # Place(p) /\ Place(q) \in 0 .. N - 1
  BY <1>3, PlaceTells, PlaceIs
<1>5. \A q \in p + 1 .. c - 1 : q # t => Place(q) # Place(t)
  BY <1>2, <1>3, PlaceTells
<1>6. \A q \in p + 1 .. c - 1 : q # t => v[Place(q)] = w[Place(q)]
  BY <1>4, <1>5
<1>7. /\ \A q : q \in k .. c - 1 => q \in p + 1 .. c - 1 /\ q # t
      /\ \A q : q \in t .. c - 1 <=> q = t \/ q \in k .. c - 1
      /\ \A q : q \in p .. t - 1 => t # p /\ (q = p \/ (q \in p + 1 .. k - 1 /\ q # t))
      /\ \A q : q \in p + 1 .. k - 1 => q \in p + 1 .. c - 1
      /\ \A q : q \in p .. c - 1 <=> q = p \/ q \in p + 1 .. c - 1
  BY <1>1, <1>2
<1>8. Within(r, v, p, c)
  <2> SUFFICES ASSUME NEW s \in 0 .. N - 1, \A q \in p .. c - 1 : Place(q) # s
               PROVE  v[s] = r[s]
    BY DEF Within
  <2>1. s # Place(p) /\ s # Place(t) /\ \A q \in p + 1 .. c - 1 : Place(q) # s
    BY <1>2, <1>7
  <2> QED
    BY <2>1 DEF Looped, Within
<1>9. Emptied(v, p, t)
  <2> SUFFICES ASSUME NEW q \in p .. t - 1
               PROVE  v[Place(q)] = 0
    BY DEF Emptied
  <2>1. t # p /\ (q = p \/ (q \in p + 1 .. k - 1 /\ q # t))
    BY <1>7
  <2>2. CASE q \in p + 1 .. k - 1 /\ q # t
    BY <1>6, <1>7, <2>2 DEF Looped, Emptied
  <2> QED
    BY <2>1, <2>2
<1>10. \A q \in k .. c - 1 : v[Place(q)] = w[Place(q)]
  BY <1>6, <1>7
<1>11. Row(v, t, c) = Row(w, k, c) \cup {r[Place(p)]}
  BY <1>7, <1>10 DEF Row
<1>12. Row(r, p, c) = Row(r, p + 1, c) \cup {r[Place(p)]}
  BY <1>7 DEF Row
<1>13. Row(v, t, c) = Row(r, p, c) \ gone
  BY <1>11, <1>12 DEF Looped
<1>14. Rising(v, t, c)
  <2> SUFFICES ASSUME NEW i \in t .. c - 1, NEW j \in t .. c - 1, i < j
               PROVE  v[Place(i)] < v[Place(j)]
    BY DEF Rising
  <2>1. j \in k .. c - 1
    BY <1>2, <1>7
  <2>2. CASE i \in k .. c - 1
    BY <1>10, <2>1, <2>2 DEF Looped, Rising
  <2>3. CASE i = t
    <3>1. w[Place(j)] \in Row(r, p + 1, c)
      BY <2>1 DEF Looped, Row
    <3>2. PICK q \in p + 1 .. c - 1 : w[Place(j)] = r[Place(q)]
      BY <3>1 DEF Row
    <3>3. p \in p .. c - 1 /\ q \in p .. c - 1 /\ p < q
      OBVIOUS
    <3>4. r[Place(p)] < r[Place(q)]
      BY <3>3 DEF Rising
    <3> QED
      BY <1>10, <2>1, <2>3, <3>2, <3>4
  <2> QED
    BY <1>7, <2>2, <2>3
<1> QED
  BY <1>2, <1>8, <1>9, <1>13, <1>14 DEF Looped

\* A turn keeps the loop's invariant.
LEMMA TurnKeeps ==
    ASSUME NEW V, 0 \in V, NEW r, NEW p \in Nat, NEW c \in Nat, p < c, c <= p + N,
           NEW gone, NEW d, d.slots \in [0 .. N - 1 -> V],
           Looped(r, d.slots, d.keep, p + 1, c, gone), Rising(r, p, c)
    PROVE  /\ Turn(d, p, gone).slots \in [0 .. N - 1 -> V]
           /\ Looped(r, Turn(d, p, gone).slots, Turn(d, p, gone).keep, p, c, gone)
<1> DEFINE w == d.slots
           k == d.keep
           t == k - 1
           v == Turn(d, p, gone).slots
           n == Turn(d, p, gone).keep
<1>1. w[Place(p)] = r[Place(p)]
  <2>1. Within(r, w, p + 1, c)
    BY DEF Looped
  <2> HIDE DEF w
  <2> QED
    BY <2>1, TurnFinds
<1>2. k \in p + 1 .. c
  BY DEF Looped
<1>3. t \in Nat
  BY <1>2
<1>4. Place(p) \in 0 .. N - 1 /\ Place(t) \in 0 .. N - 1
  BY <1>3, PlaceIs
<1>5. w[Place(p)] \in V
  BY <1>4
<1>6. CASE r[Place(p)] \in gone
  <2>1. n = k /\ v = [w EXCEPT ![Place(p)] = 0]
    BY <1>1, <1>6 DEF Turn, Place
  <2>2. /\ v \in [0 .. N - 1 -> V] /\ v[Place(p)] = 0
        /\ \A s \in 0 .. N - 1 : s # Place(p) => v[s] = w[s]
    BY <1>4, <2>1
  <2>3. Looped(r, w, k, p + 1, c, gone)
    OBVIOUS
  <2> HIDE DEF v, n, w, k
  <2>4. Looped(r, v, k, p, c, gone)
    BY <1>6, <2>2, <2>3, TurnDrops
  <2>5. v \in [0 .. N - 1 -> V] /\ Looped(r, v, n, p, c, gone)
    BY <2>1, <2>2, <2>4
  <2> QED
    BY <2>5 DEF v, n
<1>7. CASE r[Place(p)] \notin gone
  <2>1. /\ n = t
        /\ v = IF t = p THEN w ELSE [w EXCEPT ![Place(t)] = w[Place(p)], ![Place(p)] = 0]
    BY <1>1, <1>7 DEF Turn, Place
  <2>2. t # p => Place(t) # Place(p)
    <3>1. p \in p .. c - 1 /\ t \in p .. c - 1
      BY <1>2
    <3> QED
      BY <3>1, PlaceTells
  <2>3. Looped(r, w, k, p + 1, c, gone)
    OBVIOUS
  <2> HIDE DEF v, n, w, t
  <2>4. /\ v \in [0 .. N - 1 -> V] /\ v[Place(t)] = w[Place(p)]
        /\ t # p => v[Place(p)] = 0
        /\ \A s \in 0 .. N - 1 : s # Place(p) /\ s # Place(t) => v[s] = w[s]
    <3>1. CASE t = p
      BY <1>4, <1>5, <2>1, <3>1, w \in [0 .. N - 1 -> V] DEF w
    <3>2. CASE t # p
      BY <1>4, <1>5, <2>1, <2>2, <3>2, w \in [0 .. N - 1 -> V] DEF w
    <3> QED
      BY <3>1, <3>2
  <2>5. t = k - 1
    BY DEF t
  <2> HIDE DEF k
  <2>6. Looped(r, v, t, p, c, gone)
    BY <1>1, <1>7, <2>3, <2>4, <2>5, TurnMoves
  <2>7. v \in [0 .. N - 1 -> V] /\ Looped(r, v, n, p, c, gone)
    BY <2>1, <2>4, <2>6
  <2> QED
    BY <2>7 DEF v, n
<1> QED
  BY <1>6, <1>7

\* The turns of the loop: f[i] is what it has done after i of them.
IsTurns(f, r, c, n, gone) ==
    f = [i \in 0 .. n |-> IF i = 0 THEN [keep |-> c, slots |-> r]
                          ELSE Turn(f[i - 1], c - i, gone)]

\* The recursive function exists.
LEMMA TurnsExist ==
    ASSUME NEW r, NEW c, NEW m \in Nat, NEW gone
    PROVE  \E f : IsTurns(f, r, c, m, gone)
<1> DEFINE Bad == {n \in Nat : ~(\E f : IsTurns(f, r, c, n, gone))}
<1>1. CASE Bad = {}
  BY <1>1
<1>2. CASE Bad # {}
  <2>1. Bad \subseteq Nat
    OBVIOUS
  <2>2. PICK n \in Bad : \A y \in Bad : n <= y
    <3> HIDE DEF Bad
    <3> QED
      BY <1>2, <2>1, LeastOf
  <2>3. n # 0
    <3>1. IsTurns([i \in 0 .. 0 |-> [keep |-> c, slots |-> r]], r, c, 0, gone)
      <4> DEFINE g == [i \in 0 .. 0 |-> [keep |-> c, slots |-> r]]
      <4>1. \A i \in 0 .. 0 : i = 0
        OBVIOUS
      <4>2. g = [i \in 0 .. 0 |-> IF i = 0 THEN [keep |-> c, slots |-> r]
                          ELSE Turn(g[i - 1], c - i, gone)]
        BY <4>1
      <4> QED
        BY <4>2 DEF IsTurns
    <3> QED
      BY <3>1, <2>2
  <2>4. n \in Nat /\ n - 1 \in Nat /\ n - 1 \notin Bad
    BY <2>2, <2>3
  <2>5. PICK f : IsTurns(f, r, c, n - 1, gone)
    BY <2>4
  <2> DEFINE g == [i \in 0 .. n |-> IF i < n THEN f[i] ELSE Turn(f[n - 1], c - n, gone)]
  <2>6. ASSUME NEW i \in 0 .. n
        PROVE  g[i] = IF i = 0 THEN [keep |-> c, slots |-> r]
                      ELSE Turn(g[i - 1], c - i, gone)
    <3>1. \A j \in 0 .. n - 1 : f[j] = IF j = 0 THEN [keep |-> c, slots |-> r]
                                  ELSE Turn(f[j - 1], c - j, gone)
      BY <2>5, <2>4 DEF IsTurns
    <3>2. CASE i < n
      <4>1. i \in 0 .. n - 1 /\ g[i] = f[i] /\ (i # 0 => g[i - 1] = f[i - 1])
        BY <2>4, <3>2
      <4> HIDE DEF g
      <4> QED
        BY <3>1, <4>1
    <3>3. CASE i = n
      <4>1. i # 0 /\ g[i] = Turn(f[n - 1], c - n, gone) /\ g[i - 1] = f[n - 1]
        BY <2>3, <2>4, <3>3
      <4> HIDE DEF g
      <4> QED
        BY <3>3, <4>1
    <3> QED
      BY <2>4, <3>2, <3>3
  <2>7. g = [i \in 0 .. n |-> g[i]]
    OBVIOUS
  <2>8. IsTurns(g, r, c, n, gone)
    <3> HIDE DEF g
    <3> QED
      BY <2>6, <2>7 DEF IsTurns
  <2> QED
    BY <2>2, <2>8
<1> QED
  BY <1>1, <1>2

\* Every turn keeps the loop's invariant.
LEMMA TurnsKeep ==
    ASSUME NEW V, 0 \in V, NEW r \in [0 .. N - 1 -> V], NEW a \in Nat, NEW c \in Nat,
           a <= c, c <= a + N, Rising(r, a, c), NEW gone,
           NEW n, n = c - a, NEW f, IsTurns(f, r, c, n, gone)
    PROVE  /\ f[n].slots \in [0 .. N - 1 -> V]
           /\ Looped(r, f[n].slots, f[n].keep, a, c, gone)
<1> DEFINE Good(i) == /\ f[i].slots \in [0 .. N - 1 -> V]
                      /\ Looped(r, f[i].slots, f[i].keep, c - i, c, gone)
           Bad == {i \in 0 .. n : ~Good(i)}
<1>1. n \in Nat /\ N \in Nat
  BY RingAssumption
<1>2. \A i \in 0 .. n : f[i] = IF i = 0 THEN [keep |-> c, slots |-> r]
                               ELSE Turn(f[i - 1], c - i, gone)
  BY DEF IsTurns
<1>3. Good(0)
  <2>1. f[0].keep = c /\ f[0].slots = r
    BY <1>1, <1>2
  <2>2. Looped(r, r, c, c, c, gone)
    BY DEF Looped, Within, Emptied, Row, Rising
  <2> QED
    BY <2>1, <2>2
<1>4. ASSUME NEW i \in 0 .. n, i # 0, Good(i - 1)
      PROVE  Good(i)
  <2> DEFINE p == c - i
             d == f[i - 1]
  <2>1. p \in Nat /\ p < c /\ c <= p + N /\ p + 1 = c - (i - 1) /\ a <= p
    BY <1>1, <1>4
  <2>2. f[i] = Turn(d, p, gone)
    BY <1>2, <1>4
  <2>3. Rising(r, p, c)
    <3>1. \A q : q \in p .. c - 1 => q \in a .. c - 1
      BY <2>1
    <3> QED
      BY <3>1 DEF Rising
  <2>4. d.slots \in [0 .. N - 1 -> V] /\ Looped(r, d.slots, d.keep, p + 1, c, gone)
    BY <1>4, <2>1
  <2>5. /\ Turn(d, p, gone).slots \in [0 .. N - 1 -> V]
        /\ Looped(r, Turn(d, p, gone).slots, Turn(d, p, gone).keep, p, c, gone)
    <3> HIDE DEF p, d
    <3> QED
      BY <2>1, <2>3, <2>4, TurnKeeps
  <2> QED
    BY <2>2, <2>5
<1>5. Bad = {}
  <2> SUFFICES ASSUME Bad # {}
               PROVE  FALSE
    OBVIOUS
  <2>1. Bad \subseteq Nat
    BY <1>1
  <2>2. PICK i \in Bad : \A y \in Bad : i <= y
    <3> HIDE DEF Bad
    <3> QED
      BY <2>1, LeastOf
  <2>3. i \in 0 .. n /\ ~Good(i)
    BY <2>2
  <2>4. i # 0
    BY <1>3, <2>3
  <2>5. i - 1 \in 0 .. n /\ ~(i <= i - 1)
    BY <1>1, <2>3, <2>4
  <2>6. i - 1 \notin Bad
    BY <2>2, <2>5
  <2>7. Good(i - 1)
    <3> HIDE DEF Good
    <3> QED
      BY <2>5, <2>6
  <2> HIDE DEF Good
  <2> QED
    BY <1>4, <2>3, <2>4, <2>7
<1>6. n \in 0 .. n /\ c - n = a
  BY <1>1
<1>7. Good(n)
  <2> HIDE DEF Good
  <2> QED
    BY <1>5, <1>6
<1> QED
  BY <1>6, <1>7

\* Held.remove_all is the last of the turns.
LEMMA CompactIs ==
    ASSUME NEW gone, NEW n \in Nat, n = consumer.tail - consumer.head
    PROVE  \E f : IsTurns(f, room, consumer.tail, n, gone) /\ Compact(gone) = f[n]
<1> DEFINE f == CHOOSE g : IsTurns(g, room, consumer.tail, n, gone)
<1>1. \E g : IsTurns(g, room, consumer.tail, n, gone)
  BY TurnsExist
<1>2. IsTurns(f, room, consumer.tail, n, gone)
  BY <1>1
<1>3. Compact(gone) = f[n]
  BY DEF Compact, IsTurns
<1> QED
  BY <1>2, <1>3

\* remove_all of the elements of a set.
LEMMA CompactKeeps ==
    ASSUME NEW r \in [0 .. N - 1 -> Int], NEW a \in Nat,
           NEW b \in Nat, NEW c \in Nat, a <= c, c <= b, b <= a + N, NEW x, NEW X,
           Row(r, a, b) = X, Rising(r, a, b), Clear(r, a, b, x),
           NEW gone, gone \subseteq Row(r, a, c),
           NEW w, NEW h, Looped(r, w, h, a, c, gone)
    PROVE  /\ h \in a .. c /\ Within(r, w, a, b)
           /\ Row(w, h, b) = X \ gone
           /\ Rising(w, h, b) /\ Clear(w, h, b, x)
<1>1. N \in Nat /\ r \in [0 .. N - 1 -> Int]
  BY RingAssumption
<1>2. h \in Nat /\ a <= h /\ h <= c /\ h \in a .. c
  BY DEF Looped
<1>3. /\ Within(r, w, a, c) /\ Emptied(w, a, h) /\ Rising(w, h, c)
      /\ Row(w, h, c) = Row(r, a, c) \ gone
  BY DEF Looped
<1>4. Row(w, h, c) \subseteq Row(r, a, c)
  BY <1>3
<1>5. /\ Row(w, h, b) = (Row(r, a, b) \ Row(r, a, c)) \cup Row(w, h, c)
      /\ Rising(w, h, b) /\ Clear(w, h, b, x) /\ Within(r, w, a, b)
  BY <1>1, <1>2, <1>3, <1>4, ChangeKeeps
<1>6. Row(r, a, c) \subseteq X
  <2>1. \A p \in a .. c - 1 : p \in a .. b - 1
    OBVIOUS
  <2> QED
    BY <2>1 DEF Row
<1> QED
  BY <1>2, <1>3, <1>5, <1>6

\* The copy holds the elements of the view from its first slot on.
Copied(r, w, a, n) ==
    w = [s \in 0 .. N - 1 |-> IF s < n THEN r[Place(a + s)] ELSE 0]

LEMMA CopyKeeps ==
    ASSUME NEW V, 0 \in V, NEW r \in [0 .. N - 1 -> V], NEW a \in Nat, NEW c \in Nat,
           a <= c, c <= a + N, Rising(r, a, c), NEW n, n = c - a,
           NEW w, Copied(r, w, a, n)
    PROVE  /\ w \in [0 .. N - 1 -> V]
           /\ Row(w, 0, n) = Row(r, a, c)
           /\ Rising(w, 0, n) /\ Clear(w, 0, n, {})
<1>1. N \in Nat /\ n \in Nat /\ n <= N
  BY RingAssumption
<1>2. /\ \A p : p \in 0 .. n - 1 => p \in 0 .. N - 1 /\ p < n /\ a + p \in a .. c - 1
      /\ \A q : q \in a .. c - 1 => q \in Nat /\ q - a \in 0 .. n - 1 /\ a + (q - a) = q
  BY <1>1
<1>3. \A p \in 0 .. n - 1 : Place(p) = p /\ w[Place(p)] = r[Place(a + p)]
  BY <1>2, PlaceIs DEF Copied
<1>4. w \in [0 .. N - 1 -> V]
  <2>1. \A s \in 0 .. N - 1 : Place(a + s) \in 0 .. N - 1
    BY PlaceIs
  <2> QED
    BY <2>1 DEF Copied
<1>5. Row(w, 0, n) = Row(r, a, c)
  <2>1. \A p \in 0 .. n - 1 : w[Place(p)] \in Row(r, a, c)
    BY <1>2, <1>3 DEF Row
  <2>2. \A q \in a .. c - 1 : r[Place(q)] = w[Place(q - a)] /\ q - a \in 0 .. n - 1
    BY <1>2, <1>3
  <2>3. ASSUME NEW q \in a .. c - 1
        PROVE  r[Place(q)] \in {w[Place(p)] : p \in 0 .. n - 1}
    BY <2>2
  <2> QED
    BY <2>1, <2>3 DEF Row
<1>6. Rising(w, 0, n)
  <2> SUFFICES ASSUME NEW p \in 0 .. n - 1, NEW q \in 0 .. n - 1, p < q
               PROVE  w[Place(p)] < w[Place(q)]
    BY DEF Rising
  <2>1. a + p \in a .. c - 1 /\ a + q \in a .. c - 1 /\ a + p < a + q
    BY <1>2
  <2>2. r[Place(a + p)] < r[Place(a + q)]
    BY <2>1 DEF Rising
  <2> QED
    BY <1>3, <2>2
<1>7. Clear(w, 0, n, {})
  <2> SUFFICES ASSUME NEW s \in 0 .. N - 1, w[s] # 0
               PROVE  \E p \in 0 .. n - 1 : Place(p) = s
    BY DEF Clear
  <2>1. s < n
    BY DEF Copied
  <2>2. s \in 0 .. n - 1
    BY <1>1, <2>1
  <2> QED
    BY <1>3, <2>2
<1> QED
  BY <1>4, <1>5, <1>6, <1>7

\* take_place, seen from the positions.
LEMMA TakePlaceIs ==
    ASSUME NEW V, 0 \in V, room \in [0 .. N - 1 -> V],
           NEW a \in Nat, a = consumer.head, NEW b \in Nat, b <= a + N,
           NEW k \in a .. b - 1
    PROVE  /\ TakePlace(k) \in [0 .. N - 1 -> V]
           /\ Within(room, TakePlace(k), a, k + 1)
           /\ Shifted(room, TakePlace(k), a, k)
<1> DEFINE Into(s) == {p \in a .. k : Place(p) = s}
<1>1. /\ N \in Nat /\ k \in Nat
      /\ \A p \in a .. k : p \in Nat /\ p \in a .. b - 1
      /\ \A p \in a .. k : p # a => p - 1 \in Nat
      /\ \A p : p \in a .. (k + 1) - 1 <=> p \in a .. k
  BY RingAssumption
<1>2. \A p \in a .. k : Place(p) \in 0 .. N - 1 /\ (p # a => room[Place(p - 1)] \in V)
  BY <1>1, PlaceIs
<1>3. ASSUME NEW p \in a .. k
      PROVE  Into(Place(p)) # {} /\ (CHOOSE q \in Into(Place(p)) : TRUE) = p
  <2>1. p \in Into(Place(p))
    OBVIOUS
  <2>2. \A q \in Into(Place(p)) : q = p
    BY <1>1, PlaceTells
  <2> HIDE DEF Into
  <2> QED
    BY <2>1, <2>2
<1> DEFINE F(s) == IF Into(s) = {} THEN room[s]
                   ELSE IF (CHOOSE q \in Into(s) : TRUE) = a THEN 0
                        ELSE room[Place((CHOOSE q \in Into(s) : TRUE) - 1)]
<1>4. TakePlace(k) = [s \in 0 .. N - 1 |-> F(s)]
  BY DEF TakePlace, Place
<1>5. ASSUME NEW p \in a .. k
      PROVE  F(Place(p)) = IF p = a THEN 0 ELSE room[Place(p - 1)]
  <2> DEFINE S == Into(Place(p))
             q == CHOOSE i \in S : TRUE
  <2>1. S # {} /\ q = p
    BY <1>3
  <2>2. F(Place(p)) = IF S = {} THEN room[Place(p)]
                      ELSE IF q = a THEN 0 ELSE room[Place(q - 1)]
    OBVIOUS
  <2> HIDE DEF S, q, F
  <2> QED
    BY <2>1, <2>2
<1>6. \A s \in 0 .. N - 1 : Into(s) = {} => F(s) = room[s]
  OBVIOUS
<1>7. \A s \in 0 .. N - 1 : F(s) \in V
  <2> SUFFICES ASSUME NEW s \in 0 .. N - 1
               PROVE  F(s) \in V
    OBVIOUS
  <2>1. CASE Into(s) = {}
    <3> HIDE DEF F
    <3> QED
      BY <1>6, <2>1
  <2>2. CASE Into(s) # {}
    <3>1. PICK p \in a .. k : Place(p) = s
      BY <2>2
    <3> HIDE DEF F
    <3> QED
      BY <1>2, <1>5, <3>1
  <2> QED
    BY <2>1, <2>2
<1> HIDE DEF F
<1>8. \A p \in a .. k : TakePlace(k)[Place(p)] = IF p = a THEN 0 ELSE room[Place(p - 1)]
  BY <1>2, <1>4, <1>5
<1>9. TakePlace(k) \in [0 .. N - 1 -> V]
  BY <1>4, <1>7
<1>10. \A s \in 0 .. N - 1 : (\A p \in a .. (k + 1) - 1 : Place(p) # s)
                                => TakePlace(k)[s] = room[s]
  <2> SUFFICES ASSUME NEW s \in 0 .. N - 1, \A p \in a .. (k + 1) - 1 : Place(p) # s
               PROVE  TakePlace(k)[s] = room[s]
    OBVIOUS
  <2>1. Into(s) = {}
    BY <1>1
  <2> QED
    BY <1>4, <1>6, <2>1
<1> QED
  BY <1>8, <1>9, <1>10 DEF Within, Shifted

-----------------------------------------------------------------------------
(* The invariant is inductive. *)

\* The positions in use span at most N, and less while a slot is being filled.
LEMMA Span ==
    ASSUME TypesOK, CountsOK, ConsumerOK
    PROVE  /\ N \in Nat /\ Oldest \in Nat /\ given \in Nat
           /\ taken <= Oldest /\ Oldest <= givenSeen /\ Oldest <= given
           /\ given <= Oldest + N
           /\ producer \in {"write", "store"} => given - Oldest < N
<1>1. Oldest \in Nat /\ taken <= Oldest /\ Oldest <= givenSeen
  BY DEF CountsOK, ConsumerOK, Oldest, Rest
<1> QED
  BY <1>1, RingAssumption DEF CountsOK

\* Where the consumer is not about to store, the oldest element is at taken.
LEMMA OldestTaken ==
    ASSUME ConsumerOK, consumer.at # "store"
    PROVE  Oldest = taken
BY DEF Oldest

\* The slot behind the newest element is none of the positions in use.
LEMMA Untouched ==
    ASSUME NEW r, NEW w, NEW a \in Nat, NEW b \in Nat, b - a < N, Within(r, w, a, b)
    PROVE  w[Place(b)] = r[Place(b)]
<1>1. \A p \in a .. b - 1 : p \in Nat /\ p < b /\ b - p < N
  BY RingAssumption
<1>2. \A p \in a .. b - 1 : Place(p) # Place(b)
  BY <1>1, PlaceApart
<1>3. Place(b) \in 0 .. N - 1
  BY PlaceIs
<1> QED
  BY <1>2, <1>3 DEF Within

\* An empty ring.
LEMMA RingStart == RingInit => RingInv
<1> SUFFICES ASSUME RingInit
             PROVE  RingInv
  OBVIOUS
<1>1. N \in Nat /\ N > 0 /\ MaxPush \in Nat
  BY RingAssumption
<1>2. TypesOK
  BY <1>1 DEF RingInit, TypesOK
<1>3. CountsOK
  BY <1>1 DEF RingInit, CountsOK
<1>4. ConsumerOK
  BY DEF RingInit, ConsumerOK
<1>5. Oldest = 0
  BY DEF RingInit, Oldest, Rest
<1>6. \A p : p \notin 0 .. 0 - 1
  OBVIOUS
<1>7. SlotsOK
  BY <1>5, <1>6 DEF RingInit, SlotsOK, Row, Rising, Clear
<1> QED
  BY <1>2, <1>3, <1>4, <1>7 DEF RingInv

\* A step that leaves the slots and the row alone.
LEMMA SameSlots ==
    ASSUME SlotsOK, room' = room, given' = given, inside' = inside, pushed' = pushed,
           Oldest' = Oldest, producer # "store", producer' # "store"
    PROVE  SlotsOK'
BY DEF SlotsOK, Row, Rising, Clear, Written

\* The same for a step of the consumer.
LEMMA SameProducer ==
    ASSUME SlotsOK, room' = room, given' = given, inside' = inside, pushed' = pushed,
           Oldest' = Oldest, producer' = producer
    PROVE  SlotsOK'
BY DEF SlotsOK, Row, Rising, Clear, Written

\* The producer: what its copy of taken allows, the counter allows.
LEMMA PushBeginKeeps == RingInv /\ PushBegin => RingInv'
<1> SUFFICES ASSUME RingInv, PushBegin
             PROVE  RingInv'
  OBVIOUS
<1> USE DEF RingInv
<1>1. TypesOK'
  BY DEF TypesOK, PushBegin
<1>2. CountsOK'
  BY RingAssumption DEF CountsOK, PushBegin
<1>3. ConsumerOK'
  BY DEF ConsumerOK, PushBegin
<1>4. Oldest' = Oldest
  BY DEF Oldest, PushBegin
<1>5. SlotsOK'
  BY <1>4, SameSlots DEF PushBegin
<1> QED
  BY <1>1, <1>2, <1>3, <1>5

\* Read again, taken is at least the copy.
LEMMA PushReloadKeeps == RingInv /\ PushReload => RingInv'
<1> SUFFICES ASSUME RingInv, PushReload
             PROVE  RingInv'
  OBVIOUS
<1> USE DEF RingInv
<1>1. TypesOK'
  BY DEF TypesOK, PushReload
<1>2. CountsOK'
  BY RingAssumption DEF CountsOK, PushReload
<1>3. ConsumerOK'
  BY DEF ConsumerOK, PushReload
<1>4. Oldest' = Oldest
  BY DEF Oldest, PushReload
<1>5. SlotsOK'
  BY <1>4, SameSlots DEF PushReload
<1> QED
  BY <1>1, <1>2, <1>3, <1>5

\* The written slot is past every position in use.
LEMMA PushWriteKeeps == RingInv /\ PushWrite => RingInv'
<1> SUFFICES ASSUME RingInv, PushWrite
             PROVE  RingInv'
  OBVIOUS
<1> USE DEF RingInv
<1>1. /\ Oldest \in Nat /\ given \in Nat /\ Oldest <= given /\ given - Oldest < N
  BY Span DEF PushWrite
<1>2. pushed + 1 \in 0 .. MaxPush
  BY RingAssumption DEF PushWrite, CountsOK, TypesOK
<1>3. TypesOK'
  BY <1>2 DEF TypesOK, PushWrite
<1>4. CountsOK'
  BY DEF CountsOK, PushWrite
<1>5. ConsumerOK'
  BY DEF ConsumerOK, PushWrite
<1>6. Oldest' = Oldest /\ given' = given /\ inside' = inside /\ pushed' = pushed
  BY DEF Oldest, PushWrite
<1>7. Within(room, room', given, given + 1) /\ room'[Place(given)] = pushed + 1
  <2>1. room' = [room EXCEPT ![Place(given)] = pushed + 1]
    BY DEF PushWrite, Place
  <2>2. given \in given .. (given + 1) - 1 /\ Place(given) \in 0 .. N - 1
    BY <1>1, PlaceIs
  <2> QED
    BY <2>1, <2>2 DEF Within, TypesOK
<1>8. Written = {} /\ Written' = {Place(given)}
  BY DEF Written, PushWrite
<1>9. /\ Row(room, Oldest, given) = inside /\ Rising(room, Oldest, given)
      /\ Clear(room, Oldest, given, {})
  BY <1>8 DEF SlotsOK
<1>10. /\ Row(room', Oldest, given) = inside /\ Rising(room', Oldest, given)
       /\ Clear(room', Oldest, given, {Place(given)})
  BY <1>1, <1>7, <1>9, WriteKeeps
<1>11. SlotsOK'
  BY <1>6, <1>7, <1>8, <1>10 DEF SlotsOK
<1> QED
  BY <1>3, <1>4, <1>5, <1>11

\* The written slot becomes the newest of the row.
LEMMA PushStoreKeeps == RingInv /\ PushStore => RingInv'
<1> SUFFICES ASSUME RingInv, PushStore
             PROVE  RingInv'
  OBVIOUS
<1> USE DEF RingInv
<1>1. /\ Oldest \in Nat /\ given \in Nat /\ Oldest <= given /\ given - Oldest < N
  BY Span DEF PushStore
<1>2. pushed \in Nat /\ pushed + 1 \in 0 .. MaxPush
  BY RingAssumption DEF PushStore, CountsOK, TypesOK
<1>3. TypesOK'
  BY <1>2 DEF TypesOK, PushStore
<1>4. CountsOK'
  BY RingAssumption DEF CountsOK, PushStore
<1>5. ConsumerOK'
  BY DEF ConsumerOK, PushStore
<1>6. /\ Oldest' = Oldest /\ given' = given + 1 /\ inside' = inside \cup {pushed + 1}
      /\ room' = room
  BY DEF Oldest, PushStore
<1>7. Written = {Place(given)} /\ Written' = {}
  BY DEF Written, PushStore
<1>8. /\ Row(room, Oldest, given) = inside /\ Rising(room, Oldest, given)
      /\ Clear(room, Oldest, given, {Place(given)})
      /\ room[Place(given)] = pushed + 1
  BY <1>7 DEF SlotsOK, PushStore
<1>9. \A y \in inside : y < pushed + 1
  BY <1>2 DEF TypesOK
<1>10. /\ Row(room, Oldest, given + 1) = inside \cup {pushed + 1}
       /\ Rising(room, Oldest, given + 1) /\ Clear(room, Oldest, given + 1, {})
  BY <1>1, <1>8, <1>9, GiveKeeps
<1>11. SlotsOK'
  BY <1>6, <1>7, <1>10 DEF SlotsOK, PushStore
<1> QED
  BY <1>3, <1>4, <1>5, <1>11

\* The consumer: what its copy of given shows was given.
LEMMA PopBeginKeeps == RingInv /\ PopBegin => RingInv'
<1> SUFFICES ASSUME RingInv, PopBegin
             PROVE  RingInv'
  OBVIOUS
<1> USE DEF RingInv
<1>1. TypesOK'
  BY DEF TypesOK, PopBegin
<1>2. CountsOK'
  BY DEF CountsOK, PopBegin
<1>3. CASE taken = givenSeen
  <2>1. consumer' = [at |-> "reload"]
    BY <1>3 DEF PopBegin
  <2>2. ConsumerOK'
    BY <2>1 DEF ConsumerOK
  <2>3. Oldest' = Oldest
    BY <2>1 DEF Oldest, PopBegin, Rest
  <2>4. SlotsOK'
    BY <2>3, SameProducer DEF PopBegin
  <2> QED
    BY <1>1, <1>2, <2>2, <2>4
<1>4. CASE taken # givenSeen
  <2>1. consumer' = [at |-> "take"] /\ taken' < givenSeen'
    BY <1>4 DEF PopBegin, CountsOK
  <2>2. ConsumerOK'
    BY <2>1 DEF ConsumerOK
  <2>3. Oldest' = Oldest
    BY <2>1 DEF Oldest, PopBegin, Rest
  <2>4. SlotsOK'
    BY <2>3, SameProducer DEF PopBegin
  <2> QED
    BY <1>1, <1>2, <2>2, <2>4
<1> QED
  BY <1>3, <1>4

\* Read again, given is at least the copy.
LEMMA PopReloadKeeps == RingInv /\ PopReload => RingInv'
<1> SUFFICES ASSUME RingInv, PopReload
             PROVE  RingInv'
  OBVIOUS
<1> USE DEF RingInv
<1>1. TypesOK'
  BY DEF TypesOK, PopReload
<1>2. CountsOK'
  BY DEF CountsOK, PopReload
<1>3. Oldest = taken
  BY DEF Oldest, PopReload
<1>4. consumer' = Rest \/ (consumer' = [at |-> "take"] /\ taken' < givenSeen')
  BY DEF PopReload, CountsOK
<1>5. ConsumerOK'
  BY <1>4 DEF ConsumerOK
<1>6. Oldest' = Oldest
  BY <1>3, <1>4 DEF Oldest, Rest, PopReload
<1>7. SlotsOK'
  BY <1>6, SameProducer DEF PopReload
<1> QED
  BY <1>1, <1>2, <1>5, <1>7

\* A step of the consumer that takes elements out, with the store of taken to come.
LEMMA OutKeeps ==
    ASSUME RingInv, consumer.at # "store", NEW h \in taken .. givenSeen,
           consumer' = [at |-> "store", head |-> h],
           UNCHANGED <<given, taken, takenSeen, givenSeen, producer, pushed>>,
           room' \in [0 .. N - 1 -> 0 .. MaxPush], inside' \subseteq inside,
           Within(room, room', taken, given), Row(room', h, given) = inside',
           Rising(room', h, given), Clear(room', h, given, Written)
    PROVE  RingInv'
<1> USE DEF RingInv
<1>1. TypesOK'
  BY DEF TypesOK
<1>2. CountsOK'
  BY DEF CountsOK
<1>3. ConsumerOK'
  BY DEF ConsumerOK
<1>4. Oldest' = h /\ given' = given /\ Written' = Written
  BY DEF Oldest, Written
<1>5. Oldest = taken /\ taken \in Nat
  BY OldestTaken DEF CountsOK
<1>6. producer = "store" => room'[Place(given)] = room[Place(given)]
  BY <1>5, Span, Untouched
<1>7. SlotsOK'
  BY <1>4, <1>6 DEF SlotsOK
<1> QED
  BY <1>1, <1>2, <1>3, <1>7

\* The slots while the consumer is between its stores.
LEMMA Between ==
    ASSUME RingInv, consumer.at # "store"
    PROVE  /\ taken \in Nat /\ given \in Nat /\ givenSeen \in Nat /\ N \in Nat
           /\ taken <= givenSeen /\ givenSeen <= given /\ given <= taken + N
           /\ room \in [0 .. N - 1 -> 0 .. MaxPush] /\ 0 \in 0 .. MaxPush
           /\ room \in [0 .. N - 1 -> Int]
           /\ Row(room, taken, given) = inside /\ Rising(room, taken, given)
           /\ Clear(room, taken, given, Written)
<1>1. Oldest = taken
  BY OldestTaken DEF RingInv
<1> QED
  BY <1>1, Span, RingAssumption DEF RingInv, TypesOK, CountsOK, SlotsOK

\* A part of the row is in order too.
LEMMA PartRises ==
    ASSUME NEW r, NEW a \in Nat, NEW c \in Nat, NEW b \in Nat, c <= b, Rising(r, a, b)
    PROVE  Rising(r, a, c)
<1>1. \A p : p \in a .. c - 1 => p \in a .. b - 1
  OBVIOUS
<1> QED
  BY <1>1 DEF Rising

\* The oldest element is moved out.
LEMMA PopTakeKeeps == RingInv /\ PopTake => RingInv'
<1> SUFFICES ASSUME RingInv, PopTake
             PROVE  RingInv'
  OBVIOUS
<1>1. consumer.at # "store" /\ taken < givenSeen
  BY DEF PopTake, RingInv, ConsumerOK, Rest
<1>2. /\ taken \in Nat /\ given \in Nat /\ givenSeen \in Nat /\ N \in Nat
      /\ taken <= givenSeen /\ givenSeen <= given /\ given <= taken + N
      /\ room \in [0 .. N - 1 -> 0 .. MaxPush] /\ 0 \in 0 .. MaxPush
      /\ room \in [0 .. N - 1 -> Int]
      /\ Row(room, taken, given) = inside /\ Rising(room, taken, given)
      /\ Clear(room, taken, given, Written)
  BY <1>1, Between
<1>3. taken < given /\ taken + 1 \in taken .. givenSeen
  BY <1>1, <1>2
<1>4. /\ room' \in [0 .. N - 1 -> 0 .. MaxPush] /\ room'[Place(taken)] = 0
      /\ Within(room, room', taken, taken + 1)
  <2>1. room' = [room EXCEPT ![Place(taken)] = 0]
    BY DEF PopTake, Place
  <2>2. taken \in taken .. (taken + 1) - 1 /\ Place(taken) \in 0 .. N - 1
    BY <1>2, PlaceIs
  <2> QED
    BY <1>2, <2>1, <2>2 DEF Within
<1>5. inside' = {e \in inside : \E older \in inside : older < e}
  BY DEF PopTake
<1>6. /\ Within(room, room', taken, given)
      /\ Row(room', taken + 1, given) = {e \in inside : \E older \in inside : older < e}
      /\ Rising(room', taken + 1, given) /\ Clear(room', taken + 1, given, Written)
  BY <1>2, <1>3, <1>4, PopKeeps
<1>7. /\ inside' \subseteq inside
      /\ Row(room', taken + 1, given) = inside'
  BY <1>5, <1>6
<1>8. /\ consumer' = [at |-> "store", head |-> taken + 1]
      /\ UNCHANGED <<given, taken, takenSeen, givenSeen, producer, pushed>>
  BY DEF PopTake
<1> QED
  BY <1>1, <1>3, <1>4, <1>6, <1>7, <1>8, OutKeeps

\* The view reaches up to given as read, never past it.
LEMMA ViewKeeps == RingInv /\ View => RingInv'
<1> SUFFICES ASSUME RingInv, View
             PROVE  RingInv'
  OBVIOUS
<1> USE DEF RingInv
<1>1. TypesOK'
  BY DEF TypesOK, View
<1>2. CountsOK'
  BY DEF CountsOK, View
<1>3. ConsumerOK'
  BY DEF ConsumerOK, View
<1>4. Oldest' = Oldest
  BY DEF Oldest, View, Rest
<1>5. SlotsOK'
  BY <1>4, SameProducer DEF View
<1> QED
  BY <1>1, <1>2, <1>3, <1>5

\* What the view reaches over.
LEMMA ViewIs ==
    ASSUME RingInv, consumer.at = "view"
    PROVE  consumer.head = taken /\ consumer.tail = givenSeen
BY DEF RingInv, ConsumerOK, Rest

\* One element of the view goes, the ones before it move on.
LEMMA RemoveOneKeeps == RingInv /\ RemoveOne => RingInv'
<1> SUFFICES ASSUME RingInv, RemoveOne
             PROVE  RingInv'
  OBVIOUS
<1>1. consumer.at # "store" /\ consumer.head = taken /\ consumer.tail = givenSeen
  BY ViewIs DEF RemoveOne
<1>2. /\ taken \in Nat /\ given \in Nat /\ givenSeen \in Nat /\ N \in Nat
      /\ taken <= givenSeen /\ givenSeen <= given /\ given <= taken + N
      /\ room \in [0 .. N - 1 -> 0 .. MaxPush] /\ 0 \in 0 .. MaxPush
      /\ room \in [0 .. N - 1 -> Int]
      /\ Row(room, taken, given) = inside /\ Rising(room, taken, given)
      /\ Clear(room, taken, given, Written)
  BY <1>1, Between
<1>3. PICK k \in taken .. givenSeen - 1 :
         room' = TakePlace(k) /\ inside' = inside \ {room[Place(k)]}
  BY <1>1 DEF RemoveOne, Place
<1>4. /\ k \in Nat /\ taken <= k /\ k < given /\ k \in taken .. given - 1
      /\ taken + 1 \in taken .. givenSeen
  BY <1>2
<1>5. /\ TakePlace(k) \in [0 .. N - 1 -> 0 .. MaxPush]
      /\ Within(room, TakePlace(k), taken, k + 1)
      /\ Shifted(room, TakePlace(k), taken, k)
  <2> DEFINE V == 0 .. MaxPush
  <2>1. 0 \in V /\ room \in [0 .. N - 1 -> V]
    BY <1>2
  <2> HIDE DEF V
  <2>2. /\ TakePlace(k) \in [0 .. N - 1 -> V]
        /\ Within(room, TakePlace(k), taken, k + 1)
        /\ Shifted(room, TakePlace(k), taken, k)
    BY <1>1, <1>2, <1>4, <2>1, TakePlaceIs
  <2> QED
    BY <2>2 DEF V
<1>6. /\ Within(room, TakePlace(k), taken, given)
      /\ Row(TakePlace(k), taken + 1, given) = inside \ {room[Place(k)]}
      /\ Rising(TakePlace(k), taken + 1, given)
      /\ Clear(TakePlace(k), taken + 1, given, Written)
  <2> DEFINE w == TakePlace(k)
  <2>1. Within(room, w, taken, k + 1) /\ Shifted(room, w, taken, k)
    BY <1>5
  <2>2. /\ room \in [0 .. N - 1 -> Int] /\ taken \in Nat /\ given \in Nat
        /\ given <= taken + N
    BY <1>2
  <2>3. k \in Nat /\ taken <= k /\ k < given
    BY <1>4
  <2>4. /\ Row(room, taken, given) = inside /\ Rising(room, taken, given)
        /\ Clear(room, taken, given, Written)
    BY <1>2
  <2> HIDE DEF w
  <2>5. Within(room, w, taken, given)
    BY <2>1, <2>2, <2>3, <2>4, TakeKeeps
  <2>6. Without(Row(w, taken + 1, given), Row(room, taken, given), room[Place(k)])
    BY <2>1, <2>2, <2>3, <2>4, TakeKeeps
  <2>7. Rising(w, taken + 1, given)
    BY <2>1, <2>2, <2>3, <2>4, TakeKeeps
  <2>8. Clear(w, taken + 1, given, Written)
    BY <2>1, <2>2, <2>3, <2>4, TakeKeeps
  <2> QED
    BY <2>4, <2>5, <2>6, <2>7, <2>8 DEF w, Without
<1>7. /\ room' \in [0 .. N - 1 -> 0 .. MaxPush] /\ inside' \subseteq inside
      /\ Within(room, room', taken, given) /\ Row(room', taken + 1, given) = inside'
      /\ Rising(room', taken + 1, given) /\ Clear(room', taken + 1, given, Written)
  BY <1>3, <1>5, <1>6
<1>8. /\ consumer' = [at |-> "store", head |-> taken + 1]
      /\ UNCHANGED <<given, taken, takenSeen, givenSeen, producer, pushed>>
  BY <1>1 DEF RemoveOne
<1> QED
  BY <1>1, <1>4, <1>7, <1>8, OutKeeps

\* Some elements of the view go, the others close up.
LEMMA RemoveSomeKeeps == RingInv /\ RemoveSome => RingInv'
<1> SUFFICES ASSUME RingInv, RemoveSome
             PROVE  RingInv'
  OBVIOUS
<1>1. consumer.at # "store" /\ consumer.head = taken /\ consumer.tail = givenSeen
  BY ViewIs DEF RemoveSome
<1>2. /\ taken \in Nat /\ given \in Nat /\ givenSeen \in Nat /\ N \in Nat
      /\ taken <= givenSeen /\ givenSeen <= given /\ given <= taken + N
      /\ room \in [0 .. N - 1 -> 0 .. MaxPush] /\ 0 \in 0 .. MaxPush
      /\ room \in [0 .. N - 1 -> Int]
      /\ Row(room, taken, given) = inside /\ Rising(room, taken, given)
      /\ Clear(room, taken, given, Written)
  BY <1>1, Between
<1>3. PICK gone \in SUBSET Row(room, taken, givenSeen) :
         /\ room' = Compact(gone).slots /\ inside' = inside \ gone
         /\ consumer' = [at |-> "store", head |-> Compact(gone).keep]
  BY <1>1 DEF RemoveSome, Row, Place
<1>4. gone \subseteq Row(room, taken, givenSeen)
  OBVIOUS
<1> DEFINE n == givenSeen - taken
<1>5. n \in Nat /\ n = consumer.tail - consumer.head
  BY <1>1, <1>2
<1>6. n = givenSeen - taken
  OBVIOUS
<1> HIDE DEF n
<1>7. PICK f : IsTurns(f, room, consumer.tail, n, gone) /\ Compact(gone) = f[n]
  BY <1>5, CompactIs
<1>8. IsTurns(f, room, givenSeen, n, gone)
  BY <1>1, <1>7
<1>9. Rising(room, taken, givenSeen) /\ givenSeen <= taken + N
  BY <1>2, PartRises
<1>10. /\ f[n].slots \in [0 .. N - 1 -> 0 .. MaxPush]
      /\ Looped(room, f[n].slots, f[n].keep, taken, givenSeen, gone)
  BY <1>2, <1>6, <1>8, <1>9, TurnsKeep
<1> DEFINE w == f[n].slots
           h == f[n].keep
<1>11. Looped(room, w, h, taken, givenSeen, gone)
  BY <1>10
<1>12. room' = w /\ consumer' = [at |-> "store", head |-> h]
  BY <1>3, <1>7
<1>13. w \in [0 .. N - 1 -> 0 .. MaxPush]
  BY <1>10
<1> HIDE DEF w, h
<1>14. /\ h \in taken .. givenSeen /\ Within(room, w, taken, given)
       /\ Row(w, h, given) = inside \ gone
       /\ Rising(w, h, given) /\ Clear(w, h, given, Written)
  <2>1. /\ room \in [0 .. N - 1 -> Int] /\ taken \in Nat /\ given \in Nat
        /\ givenSeen \in Nat /\ taken <= givenSeen /\ givenSeen <= given
        /\ given <= taken + N
    BY <1>2
  <2>2. /\ Row(room, taken, given) = inside /\ Rising(room, taken, given)
        /\ Clear(room, taken, given, Written)
    BY <1>2
  <2>3. h \in taken .. givenSeen
    BY <1>4, <1>11, <2>1, <2>2, CompactKeeps
  <2>4. Within(room, w, taken, given)
    BY <1>4, <1>11, <2>1, <2>2, CompactKeeps
  <2>5. Row(w, h, given) = inside \ gone
    BY <1>4, <1>11, <2>1, <2>2, CompactKeeps
  <2>6. Rising(w, h, given)
    BY <1>4, <1>11, <2>1, <2>2, CompactKeeps
  <2>7. Clear(w, h, given, Written)
    BY <1>4, <1>11, <2>1, <2>2, CompactKeeps
  <2> QED
    BY <2>3, <2>4, <2>5, <2>6, <2>7
<1>15. /\ room' \in [0 .. N - 1 -> 0 .. MaxPush] /\ inside' \subseteq inside
       /\ Within(room, room', taken, given) /\ Row(room', h, given) = inside'
       /\ Rising(room', h, given) /\ Clear(room', h, given, Written)
  BY <1>3, <1>12, <1>13, <1>14
<1>16. UNCHANGED <<given, taken, takenSeen, givenSeen, producer, pushed>>
  BY DEF RemoveSome
<1> QED
  BY <1>1, <1>12, <1>14, <1>15, <1>16, OutKeeps

\* A call that only looks.
LEMMA LookKeeps == RingInv /\ Look => RingInv'
<1> SUFFICES ASSUME RingInv, Look
             PROVE  RingInv'
  OBVIOUS
<1> USE DEF RingInv
<1>1. TypesOK'
  BY DEF TypesOK, Look
<1>2. CountsOK'
  BY DEF CountsOK, Look
<1>3. ConsumerOK'
  BY DEF ConsumerOK, Look, Rest
<1>4. Oldest' = Oldest
  BY DEF Oldest, Look, Rest
<1>5. SlotsOK'
  BY <1>4, SameProducer DEF Look
<1> QED
  BY <1>1, <1>2, <1>3, <1>5

\* The store of taken catches up with what is out.
LEMMA TakenStoreKeeps == RingInv /\ TakenStore => RingInv'
<1> SUFFICES ASSUME RingInv, TakenStore
             PROVE  RingInv'
  OBVIOUS
<1> USE DEF RingInv
<1>1. consumer.head \in taken .. givenSeen
  BY DEF ConsumerOK, TakenStore, Rest
<1>2. TypesOK'
  BY DEF TypesOK, TakenStore
<1>3. CountsOK'
  BY <1>1 DEF CountsOK, TakenStore
<1>4. ConsumerOK'
  BY DEF ConsumerOK, TakenStore, Rest
<1>5. Oldest' = Oldest
  BY DEF Oldest, TakenStore, Rest
<1>6. SlotsOK'
  BY <1>5, SameProducer DEF TakenStore
<1> QED
  BY <1>2, <1>3, <1>4, <1>6

\* The copy starts again at position 0.
LEMMA CopyRingKeeps == RingInv /\ CopyRing => RingInv'
<1> SUFFICES ASSUME RingInv, CopyRing
             PROVE  RingInv'
  OBVIOUS
<1>1. consumer.at # "store" /\ consumer.head = taken /\ consumer.tail = givenSeen
  BY ViewIs DEF CopyRing
<1>2. /\ taken \in Nat /\ given \in Nat /\ givenSeen \in Nat /\ N \in Nat
      /\ taken <= givenSeen /\ givenSeen <= given /\ given <= taken + N
      /\ room \in [0 .. N - 1 -> 0 .. MaxPush] /\ 0 \in 0 .. MaxPush
      /\ Row(room, taken, given) = inside /\ Rising(room, taken, given)
  BY <1>1, Between
<1> DEFINE n == givenSeen - taken
<1>3. n \in Nat /\ n <= N /\ givenSeen <= taken + N
  BY <1>2
<1>4. /\ Copied(room, room', taken, n)
      /\ given' = n /\ taken' = 0 /\ takenSeen' = 0 /\ givenSeen' = 0
      /\ inside' = Row(room, taken, givenSeen)
      /\ producer' = "rest" /\ consumer' = Rest /\ pushed' = pushed
  BY <1>1 DEF CopyRing, Copied, Place, Row
<1>5. Rising(room, taken, givenSeen)
  BY <1>2, PartRises
<1>6. inside' \subseteq inside
  <2>1. \A p \in taken .. givenSeen - 1 : p \in taken .. given - 1
    BY <1>2
  <2>2. Row(room, taken, givenSeen) \subseteq Row(room, taken, given)
    BY <2>1 DEF Row
  <2> QED
    BY <1>2, <1>4, <2>2
<1>7. n = givenSeen - taken
  OBVIOUS
<1> HIDE DEF n
<1>8. /\ room' \in [0 .. N - 1 -> 0 .. MaxPush]
      /\ Row(room', 0, n) = Row(room, taken, givenSeen)
      /\ Rising(room', 0, n) /\ Clear(room', 0, n, {})
  <2> DEFINE V == 0 .. MaxPush
  <2>1. 0 \in V /\ room \in [0 .. N - 1 -> V] /\ Copied(room, room', taken, n)
    BY <1>2, <1>4
  <2>2. taken \in Nat /\ givenSeen \in Nat /\ taken <= givenSeen
    BY <1>2
  <2> HIDE DEF V
  <2>3. room' \in [0 .. N - 1 -> V]
    BY <1>3, <1>5, <1>7, <2>1, <2>2, CopyKeeps
  <2>4. /\ Row(room', 0, n) = Row(room, taken, givenSeen)
        /\ Rising(room', 0, n) /\ Clear(room', 0, n, {})
    BY <1>3, <1>5, <1>7, <2>1, <2>2, CopyKeeps
  <2> QED
    BY <2>3, <2>4 DEF V
<1>9. TypesOK'
  BY <1>4, <1>6, <1>8 DEF RingInv, TypesOK
<1>10. CountsOK'
  BY <1>2, <1>3, <1>4 DEF CountsOK
<1>11. ConsumerOK'
  BY <1>4 DEF ConsumerOK
<1>12. Oldest' = 0 /\ Written' = {}
  BY <1>4 DEF Oldest, Written, Rest
<1>13. SlotsOK'
  BY <1>4, <1>8, <1>12 DEF SlotsOK
<1> QED
  BY <1>9, <1>10, <1>11, <1>13 DEF RingInv

\* A step that changes nothing.
LEMMA StutterKeeps == RingInv /\ UNCHANGED ringVars => RingInv'
<1> SUFFICES ASSUME RingInv, UNCHANGED ringVars
             PROVE  RingInv'
  OBVIOUS
<1> USE DEF RingInv, ringVars
<1>1. TypesOK' /\ CountsOK' /\ ConsumerOK'
  BY DEF TypesOK, CountsOK, ConsumerOK
<1>2. Oldest' = Oldest
  BY DEF Oldest
<1>3. SlotsOK'
  BY <1>2, SameProducer
<1> QED
  BY <1>1, <1>3

\* One lemma per action above.
LEMMA RingStep == RingInv /\ [RingNext]_ringVars => RingInv'
BY PushBeginKeeps, PushReloadKeeps, PushWriteKeeps, PushStoreKeeps, PopBeginKeeps,
   PopReloadKeeps, PopTakeKeeps, ViewKeeps, RemoveOneKeeps, RemoveSomeKeeps, LookKeeps,
   TakenStoreKeeps, CopyRingKeeps, StutterKeeps
   DEF RingNext, Push, Consume

\* The counters and their copies never cross, the positions in use share no slot, and
\* the slots hold the row of what is inside.
THEOREM RingInvariant == RingSpec => []RingInv
BY RingStart, RingStep, PTL DEF RingSpec

-----------------------------------------------------------------------------
(* What the invariant gives. *)

\* The slot that the producer fills is none the consumer works on.
LEMMA Apart == RingInv => SlotsApart
<1> SUFFICES ASSUME RingInv, producer = "write", Place(given) \in Touched
             PROVE  FALSE
  BY DEF SlotsApart, Place
<1>1. /\ N \in Nat /\ given \in Nat /\ taken \in Nat /\ givenSeen \in Nat
      /\ givenSeen <= given /\ given - taken < N
  BY RingAssumption DEF RingInv, CountsOK
<1>2. \A p \in taken .. givenSeen - 1 : p \in Nat /\ p < given /\ given - p < N
  BY <1>1
<1>3. \A p \in taken .. givenSeen - 1 : Place(p) # Place(given)
  BY <1>1, <1>2, PlaceApart
<1>4. CASE consumer.at = "take"
  <2>1. taken \in taken .. givenSeen - 1
    BY <1>1, <1>4 DEF RingInv, ConsumerOK, Rest
  <2> QED
    BY <1>3, <1>4, <2>1 DEF Touched, Place
<1>5. CASE consumer.at = "view"
  <2>1. consumer.head = taken /\ consumer.tail = givenSeen
    BY <1>5, ViewIs
  <2> QED
    BY <1>3, <1>5, <2>1 DEF Touched, Place
<1>6. CASE consumer.at \notin {"take", "view"}
  BY <1>6 DEF Touched
<1> QED
  BY <1>4, <1>5, <1>6

\* SpscRing loses, doubles, reorders and tears down twice nothing, whatever the two
\* sides do at once: the slots hold what was pushed and not taken, in its order, the
\* producer fills no slot the consumer works on, and a slot without an element is zero.
THEOREM RingAlwaysSound == RingSpec => []RingSound
<1>1. RingInv => RingSound
  <2> SUFFICES ASSUME RingInv
               PROVE  RingSound
    OBVIOUS
  <2>1. RingTypeOK
    BY DEF RingInv, TypesOK, CountsOK, RingTypeOK
  <2>2. RingHolds
    BY DEF RingInv, SlotsOK, RingHolds, Row, Rising, Place
  <2>3. NoGhost
    BY DEF RingInv, SlotsOK, NoGhost, Clear, Written, Place
  <2> QED
    BY <2>1, <2>2, <2>3, Apart DEF RingSound
<1> QED
  BY <1>1, RingInvariant, PTL
==============================================================================
