----------------------------- MODULE PluginsProofs -----------------------------
(* What the loader and the counts of a library promise, for any threads,       *)
(* libraries, owners and objects.  The invariant PluginInv says where a thread *)
(* in a call stands (CallOK), what it keeps alive (HoldOK), what the platform  *)
(* has open (PlatformOK, OpensOK), who has a slot (OwnersOK, LoadsOK) and what *)
(* the live count of a slot is made of (LiveOK).                               *)
EXTENDS Plugins, FiniteSetTheorems, TLAPS

-----------------------------------------------------------------------------
(* The invariant *)

Locals == [owner : Owners \cup {None}, lib : Libs \cup {None},
           slot : Slots \cup {None}, image : Images \cup {None},
           found : Bases \cup {None}, made : Objects \cup {None},
           source : Objects \cup {None}, delta : {-1, 0, 1}, after : {"idle", "give"}]

PluginShape ==
    /\ refs \in [Libs -> Nat] /\ base \in [Libs -> Bases \cup {None}]
    /\ slots \in [Slots -> {None} \cup Structs]
    /\ openCount \in Nat /\ left \in [Slots -> Nat]
    /\ handle \in [Owners -> Slots \cup {None}]
    /\ object \in [Objects -> Images \cup {None}]
    /\ at \in [Threads -> Places] /\ my \in [Threads -> Locals]

Owning == {"claim", "closeLoad", "unload", "closeGone"}
Hooking == {"hook", "image", "count"}
Coding == Hooking \cup {"init", "give", "teardown"}

\* A thread at place p with the locals x.
CallOK(p, x) ==
    /\ x.owner # None <=> p \in Owning
    /\ x.lib # None => p \in {"claim", "closeLoad", "closeGone"}
    /\ p \in {"claim", "closeLoad"} => x.lib # None
    /\ p = "claim" => x.slot = None
    /\ p \in {"reserve", "init", "give", "unload", "closeGone"} => x.slot # None
    /\ p \in Coding => x.image # None
    /\ p \notin Hooking \cup {"teardown", "give"} => x.made = None /\ x.source = None
    /\ x.after = "give" => p \in Hooking \cup {"give"} /\ x.slot # None
    /\ p \in Hooking => \/ /\ x.delta = 1 /\ x.made # None
                           /\ x.after = "give" \/ x.source # None
                        \/ x.delta = -1 /\ x.made = None /\ x.after = "idle"
    /\ p = "teardown" => x.delta = -1 /\ x.made # None
    /\ p = "count" => x.found = x.image.base

CallsOK == \A t \in Threads : CallOK(at[t], my[t])

\* Of the slots S, s is that of the image.
SlotOf(S, s, image) ==
    s \in Slots /\ S[s] # None /\ S[s].lib = image.lib /\ S[s].base = image.base

HasSlot(S, image) == \E s \in Slots : SlotOf(S, s, image)

\* t holds a reservation.
Reserving(t) == at[t] \in {"init", "give"} \/ my[t].after = "give"

\* Objects and threads in code of a library stand for a slot of it, a thread names
\* objects that exist, and no other thread names the one that it makes or ends.
HoldOK ==
    /\ \A o \in Objects : object[o] # None => HasSlot(slots, object[o])
    /\ \A t \in Threads :
          /\ at[t] \in Coding => HasSlot(slots, my[t].image)
          /\ Reserving(t) => SlotOf(slots, my[t].slot, my[t].image)
          /\ my[t].made # None =>
                /\ object[my[t].made] # None
                /\ object[my[t].made].base = my[t].image.base
                /\ my[t].made # my[t].source
                /\ \A u \in Threads : u # t => my[t].made \notin {my[u].made, my[u].source}
          /\ my[t].source # None =>
                object[my[t].source] # None /\ object[my[t].source].base = my[t].image.base

SlotsFor(f) == {s \in Slots : s \in Used /\ slots[s].lib = f}
Holders(f) == {t \in Threads : my[t].lib = f}

\* What is open is mapped, each library at a base of its own, and the slot of a
\* library knows its base.
PlatformOK ==
    /\ \A f \in Libs : base[f] = None <=> refs[f] = 0
    /\ \A f, g \in Libs : base[f] = base[g] /\ base[f] # None => f = g
    /\ \A s \in Used : base[slots[s].lib] = slots[s].base
    /\ \A s, r \in Used : slots[s].lib = slots[r].lib => s = r

OpensOK ==
    /\ openCount = Cardinality(Used)
    /\ \A f \in Libs : refs[f] = Cardinality(SlotsFor(f)) + Cardinality(Holders(f))

\* One call at a time is at work on a Library, and its handle is what the call read.
OwnersOK ==
    /\ \A t, u \in Threads : my[t].owner = my[u].owner /\ my[t].owner # None => t = u
    /\ \A t \in Threads :
          /\ at[t] \in {"claim", "closeLoad"} => handle[my[t].owner] = None
          /\ at[t] \in {"unload", "closeGone"} => handle[my[t].owner] = my[t].slot

LiveOK == LiveExact /\ \A s \in Slots \ Used : left[s] = 0

PluginInv ==
    /\ PluginShape /\ CallsOK /\ HoldOK /\ PlatformOK /\ OpensOK
    /\ OwnersOK /\ LoadsAreOwners /\ LiveOK

-----------------------------------------------------------------------------
(* Counting *)

\* Two finite sets that differ in x alone, if at all.
LEMMA OneDiffers ==
  ASSUME NEW A, NEW B, NEW x, IsFiniteSet(A), IsFiniteSet(B),
         \A y : y # x => (y \in B <=> y \in A)
  PROVE  /\ Cardinality(A) \in Nat /\ Cardinality(B) \in Nat
         /\ (x \in A <=> x \in B) => B = A /\ Cardinality(B) = Cardinality(A)
         /\ x \notin A /\ x \in B => Cardinality(B) = Cardinality(A) + 1
         /\ x \in A /\ x \notin B => Cardinality(B) = Cardinality(A) - 1
<1>1. Cardinality(A) \in Nat /\ Cardinality(B) \in Nat
  BY FS_CardinalityType
<1>2. ASSUME x \in A <=> x \in B PROVE B = A
  BY <1>2
<1>3. ASSUME x \notin A, x \in B PROVE Cardinality(B) = Cardinality(A) + 1
  <2>1. B = A \cup {x}
    BY <1>3
  <2> QED
    BY <1>3, <2>1, FS_AddElement
<1>4. ASSUME x \in A, x \notin B PROVE Cardinality(B) = Cardinality(A) - 1
  <2>1. B = A \ {x}
    BY <1>4
  <2> QED
    BY <1>4, <2>1, FS_RemoveElement
<1> QED
  BY <1>1, <1>2, <1>3, <1>4

LEMMA FiniteSlots == IsFiniteSet(Slots)
<1>1. PluginMax \in Int /\ 1 \in Int
  BY PluginsAssumption
<1> QED
  BY <1>1, FS_Interval DEF Slots

LEMMA FiniteIn ==
  ASSUME NEW A, A \subseteq Threads \/ A \subseteq Owners \/ A \subseteq Objects
                \/ A \subseteq Slots
  PROVE  IsFiniteSet(A) /\ Cardinality(A) \in Nat
<1>1. IsFiniteSet(A)
  <2>1. /\ A \subseteq Threads => A \in SUBSET Threads
        /\ A \subseteq Owners => A \in SUBSET Owners
        /\ A \subseteq Objects => A \in SUBSET Objects
        /\ A \subseteq Slots => A \in SUBSET Slots
    OBVIOUS
  <2> QED
    BY <2>1, FS_Subset, FiniteSlots, PluginsAssumption
<1> QED
  BY <1>1, FS_CardinalityType

-----------------------------------------------------------------------------
(* The slot of a library *)

LEMMA UsedFacts ==
  ASSUME PluginShape, NEW s \in Used
  PROVE  /\ s \in Slots /\ slots[s] \in Structs
         /\ slots[s].lib \in Libs /\ slots[s].base \in Bases
         /\ slots[s].live \in Int /\ slots[s].loads \in Nat \ {0}
         /\ slots[s].base # None
<1>1. s \in Slots /\ slots[s] \in Structs
  BY DEF PluginShape, Used
<1> QED
  BY <1>1, PluginsAssumption DEF Structs

\* No two slots stand for one base.
LEMMA OneSlot ==
  ASSUME PluginShape, PlatformOK, NEW s \in Used, NEW r \in Used,
         slots[s].base = slots[r].base
  PROVE  s = r
<1>1. /\ slots[s].lib \in Libs /\ slots[r].lib \in Libs /\ slots[s].base # None
  BY UsedFacts
<1>2. base[slots[s].lib] = slots[s].base /\ base[slots[r].lib] = slots[r].base
  BY DEF PlatformOK
<1>3. slots[s].lib = slots[r].lib
  BY <1>1, <1>2 DEF PlatformOK
<1> QED
  BY <1>3 DEF PlatformOK

-----------------------------------------------------------------------------
(* A library without live objects *)

ObjectsAt(b) == {o \in Objects : object[o] # None /\ object[o].base = b}
Owing(b, d) == {t \in Threads : Owes(t, b, d)}
Reservers(s) == {t \in Threads : Reserves(t, s)}

\* The objects whose hook is yet to count them.
Making(b) == {my[t].made : t \in Owing(b, 1)}

LEMMA LiveCounts ==
  ASSUME LiveExact, NEW s \in Used
  PROVE  slots[s].live = Cardinality(ObjectsAt(slots[s].base))
             - Cardinality(Owing(slots[s].base, 1)) + Cardinality(Owing(slots[s].base, -1))
             + Cardinality(Reservers(s)) + left[s]
BY DEF LiveExact, ObjectsAt, Owing, Reservers

\* Each object that is being made is one object of the library.
LEMMA MakingCounts ==
  ASSUME PluginShape, CallsOK, HoldOK, NEW b
  PROVE  /\ Making(b) \subseteq ObjectsAt(b)
         /\ Cardinality(Making(b)) = Cardinality(Owing(b, 1))
<1> DEFINE S == Owing(b, 1)
           T == Making(b)
           f == [t \in S |-> my[t].made]
<1>1. ASSUME NEW t \in S PROVE my[t].made \in ObjectsAt(b)
  <2>1. t \in Threads /\ at[t] \in Hooking /\ my[t].image.base = b /\ my[t].delta = 1
    BY DEF Owing, Owes, Hooking
  <2>2. my[t].made # None
    BY <2>1 DEF CallsOK, CallOK
  <2>3. my[t].made \in Objects
    BY <2>1, <2>2 DEF PluginShape, Locals
  <2> QED
    BY <2>1, <2>2, <2>3 DEF HoldOK, ObjectsAt
<1>2. ASSUME NEW t \in S, NEW u \in S, my[t].made = my[u].made PROVE t = u
  <2>1. t \in Threads /\ u \in Threads /\ my[t].made # None
    BY <1>1, PluginsAssumption DEF Owing, ObjectsAt
  <2> QED
    BY <1>2, <2>1 DEF HoldOK
<1>3. T \subseteq ObjectsAt(b)
  BY <1>1 DEF Making
<1>4. IsFiniteSet(T)
  <2>1. ObjectsAt(b) \subseteq Objects
    BY DEF ObjectsAt
  <2>2. T \subseteq Objects
    BY <1>3, <2>1
  <2> QED
    BY <2>2, FiniteIn
<1>5. T = {my[t].made : t \in S}
  BY DEF Making
<1> HIDE DEF S, T
<1>6. f \in Injection(S, T)
  BY <1>2, <1>5 DEF Injection, IsInjective
<1>7. f \in Surjection(S, T)
  BY <1>5 DEF Surjection
<1>8. Cardinality(S) = Cardinality(T)
  BY <1>4, <1>6, <1>7, FS_Injection
<1> QED
  BY <1>3, <1>8 DEF S, T

\* What live counts, each part of it a number of things.
LEMMA LiveParts ==
  ASSUME PluginInv, NEW s \in Used
  PROVE  LET b == slots[s].base IN
         /\ slots[s].live = Cardinality(ObjectsAt(b) \ Making(b)) + Cardinality(Owing(b, -1))
                            + Cardinality(Reservers(s)) + left[s]
         /\ Cardinality(ObjectsAt(b) \ Making(b)) \in Nat
         /\ Cardinality(Owing(b, -1)) \in Nat /\ Cardinality(Reservers(s)) \in Nat
         /\ left[s] \in Nat
<1> DEFINE b == slots[s].base
           A == ObjectsAt(b)
           M == Making(b)
           O == Owing(b, 1)
           E == Owing(b, -1)
           R == Reservers(s)
<1>1. A \subseteq Objects /\ O \subseteq Threads /\ E \subseteq Threads /\ R \subseteq Threads
  BY DEF ObjectsAt, Owing, Reservers
<1>2. M \subseteq A /\ Cardinality(M) = Cardinality(O)
  BY MakingCounts DEF PluginInv
<1>3. slots[s].live = Cardinality(A) - Cardinality(O) + Cardinality(E)
                      + Cardinality(R) + left[s]
  BY LiveCounts DEF PluginInv, LiveOK
<1>4. left[s] \in Nat
  BY DEF PluginInv, PluginShape, Used
<1> HIDE DEF A, M, O, E, R, b
<1>5. A \ M \subseteq Objects
  BY <1>1
<1>6. /\ IsFiniteSet(A) /\ Cardinality(A) \in Nat /\ Cardinality(O) \in Nat
      /\ Cardinality(E) \in Nat /\ Cardinality(R) \in Nat /\ Cardinality(A \ M) \in Nat
  BY <1>1, <1>5, FiniteIn
<1>7. Cardinality(A \ M) = Cardinality(A) - Cardinality(A \cap M) /\ A \cap M = M
  BY <1>2, <1>6, FS_Difference
<1>8. Cardinality(A \ M) = Cardinality(A) - Cardinality(O)
  BY <1>2, <1>7
<1> QED
  BY <1>3, <1>4, <1>6, <1>8 DEF A, M, O, E, R, b

\* A library whose live count is 0 has no object, and no thread is in its code.
LEMMA NothingAlive ==
  ASSUME PluginInv, NEW s \in Used, slots[s].live = 0
  PROVE  /\ \A o \in Objects : object[o] # None => object[o].base # slots[s].base
         /\ \A t \in Threads : at[t] \in Coding => my[t].image.base # slots[s].base
         /\ \A t \in Threads : ~Reserves(t, s)
         /\ left[s] = 0
<1> DEFINE b == slots[s].base
           n1 == Cardinality(ObjectsAt(b) \ Making(b))
           n2 == Cardinality(Owing(b, -1))
           n3 == Cardinality(Reservers(s))
           n4 == left[s]
<1>1. /\ 0 = n1 + n2 + n3 + n4
      /\ n1 \in Nat /\ n2 \in Nat /\ n3 \in Nat /\ n4 \in Nat
  BY LiveParts
<1> HIDE DEF n1, n2, n3, n4
<1>2. n1 = 0 /\ n2 = 0 /\ n3 = 0 /\ n4 = 0
  BY <1>1
<1>3. ObjectsAt(b) \ Making(b) = {} /\ Owing(b, -1) = {} /\ Reservers(s) = {}
  <2> DEFINE A == ObjectsAt(b) \ Making(b)
             E == Owing(b, -1)
             R == Reservers(s)
  <2>1. A \subseteq Objects /\ E \subseteq Threads /\ R \subseteq Threads
    BY DEF ObjectsAt, Owing, Reservers
  <2>2. Cardinality(A) = 0 /\ Cardinality(E) = 0 /\ Cardinality(R) = 0
    BY <1>2 DEF n1, n2, n3
  <2> HIDE DEF A, E, R
  <2>3. IsFiniteSet(A) /\ IsFiniteSet(E) /\ IsFiniteSet(R)
    BY <2>1, FiniteIn
  <2>4. A = {} /\ E = {} /\ R = {}
    BY <2>2, <2>3, FS_EmptySet
  <2> QED
    BY <2>4 DEF A, E, R
<1>4. ASSUME NEW t \in Threads, Reserving(t), my[t].image.base = b PROVE FALSE
  <2>1. SlotOf(slots, my[t].slot, my[t].image)
    BY <1>4 DEF PluginInv, HoldOK
  <2>2. my[t].slot = s
    BY <1>4, <2>1, OneSlot DEF SlotOf, PluginInv, Used
  <2>3. t \in Reservers(s)
    BY <1>4, <2>2 DEF Reserving, Reservers, Reserves
  <2> QED
    BY <1>3, <2>3
<1>5. ASSUME NEW t \in Owing(b, 1) PROVE FALSE
  <2>1. t \in Threads /\ at[t] \in Hooking /\ my[t].image.base = b /\ my[t].delta = 1
    BY <1>5 DEF Owing, Owes, Hooking
  <2>2. my[t].source # None
    BY <1>4, <2>1 DEF PluginInv, CallsOK, CallOK, Reserving
  <2>3. my[t].source \in ObjectsAt(b)
    <3>1. my[t].source \in Objects
      BY <2>1, <2>2 DEF PluginInv, PluginShape, Locals
    <3> QED
      BY <2>1, <2>2, <3>1 DEF PluginInv, HoldOK, ObjectsAt
  <2>4. PICK u \in Owing(b, 1) : my[t].source = my[u].made
    BY <1>3, <2>3 DEF Making
  <2>5. u \in Threads /\ my[u].made # None
    BY <2>2, <2>4 DEF Owing
  <2> QED
    BY <2>1, <2>4, <2>5 DEF PluginInv, HoldOK
<1>6. ObjectsAt(b) = {}
  BY <1>3, <1>5 DEF Making
<1>7. ASSUME NEW t \in Threads, at[t] \in Coding, my[t].image.base = b PROVE FALSE
  <2>1. CASE at[t] \in Hooking
    <3>1. my[t].delta = 1 \/ my[t].delta = -1
      BY <2>1 DEF PluginInv, CallsOK, CallOK
    <3>2. t \in Owing(b, 1) \/ t \in Owing(b, -1)
      BY <1>7, <2>1, <3>1 DEF Owing, Owes, Hooking
    <3> QED
      BY <1>3, <1>5, <3>2
  <2>2. CASE at[t] \in {"init", "give"}
    BY <1>4, <1>7, <2>2 DEF Reserving
  <2>3. CASE at[t] = "teardown"
    <3>1. my[t].made # None
      BY <2>3 DEF PluginInv, CallsOK, CallOK
    <3>2. my[t].made \in Objects
      BY <3>1 DEF PluginInv, PluginShape, Locals
    <3>3. my[t].made \in ObjectsAt(b)
      BY <1>7, <3>1, <3>2 DEF PluginInv, HoldOK, ObjectsAt
    <3> QED
      BY <1>6, <3>3
  <2> QED
    BY <1>7, <2>1, <2>2, <2>3 DEF Coding
<1> QED
  BY <1>2, <1>3, <1>6, <1>7 DEF ObjectsAt, Reservers, n4

-----------------------------------------------------------------------------
(* What a step leaves as it is *)

\* The same slots are used, each by the same library.
Kept ==
    \A s \in Slots :
        /\ slots'[s] # None <=> slots[s] # None
        /\ slots[s] # None =>
              slots'[s].lib = slots[s].lib /\ slots'[s].base = slots[s].base

LEMMA KeptFacts ==
  ASSUME Kept
  PROVE  /\ Used' = Used
         /\ \A s, image : SlotOf(slots', s, image) <=> SlotOf(slots, s, image)
         /\ \A f : SlotsFor(f)' = SlotsFor(f)
<1>1. Used' = Used
  BY DEF Kept, Used
<1>2. \A s, image : SlotOf(slots', s, image) <=> SlotOf(slots, s, image)
  BY DEF Kept, SlotOf
<1>3. \A f : SlotsFor(f)' = SlotsFor(f)
  BY <1>1 DEF Kept, Used, SlotsFor
<1> QED
  BY <1>1, <1>2, <1>3

LEMMA GoFacts ==
  ASSUME PluginShape, CallsOK, NEW t \in Threads, NEW p \in Places, NEW x \in Locals,
         CallOK(p, x), Go(t, p, x)
  PROVE  /\ at' \in [Threads -> Places] /\ my' \in [Threads -> Locals] /\ CallsOK'
         /\ at'[t] = p /\ my'[t] = x
         /\ \A u \in Threads : u # t => at'[u] = at[u] /\ my'[u] = my[u]
<1>1. /\ at' \in [Threads -> Places] /\ my' \in [Threads -> Locals]
      /\ at'[t] = p /\ my'[t] = x
      /\ \A u \in Threads : u # t => at'[u] = at[u] /\ my'[u] = my[u]
  BY DEF Go, PluginShape
<1>2. ASSUME NEW u \in Threads PROVE CallOK(at'[u], my'[u])
  <2>1. CallOK(at[u], my[u])
    BY DEF CallsOK
  <2> QED
    BY <1>1, <2>1
<1> QED
  BY <1>1, <1>2 DEF CallsOK

\* The thread goes on with the objects it named, or without them.
LEMMA HoldKept ==
  ASSUME HoldOK, NEW t \in Threads, NEW p, NEW x,
         at'[t] = p, my'[t] = x,
         \A u \in Threads : u # t => at'[u] = at[u] /\ my'[u] = my[u],
         object' = object,
         \A s, image : SlotOf(slots, s, image) => SlotOf(slots', s, image),
         p \in Coding => HasSlot(slots', x.image),
         p \in {"init", "give"} \/ x.after = "give" => SlotOf(slots', x.slot, x.image),
         x.made = None \/ (x.made = my[t].made /\ x.image = my[t].image),
         x.source = None \/ (x.source = my[t].source /\ x.image = my[t].image)
  PROVE  HoldOK'
<1>1. \A image : HasSlot(slots, image) => HasSlot(slots', image)
  BY DEF HasSlot
<1>2. \A o \in Objects : object'[o] # None => HasSlot(slots', object'[o])
  BY <1>1 DEF HoldOK
<1>3. ASSUME NEW u \in Threads
      PROVE  /\ at'[u] \in Coding => HasSlot(slots', my'[u].image)
             /\ Reserving(u)' => SlotOf(slots', my'[u].slot, my'[u].image)
  <2>1. CASE u = t
    BY <2>1 DEF Reserving
  <2>2. CASE u # t
    BY <1>1, <2>2 DEF Reserving, HoldOK
  <2> QED
    BY <2>1, <2>2
<1>4. \A u \in Threads : /\ my'[u].made \in {my[u].made, None}
                         /\ my'[u].source \in {my[u].source, None}
                         /\ my'[u].made # None => my'[u].image = my[u].image
                         /\ my'[u].source # None => my'[u].image = my[u].image
  OBVIOUS
<1>5. ASSUME NEW u \in Threads, my'[u].made # None
      PROVE  /\ object'[my'[u].made] # None
             /\ object'[my'[u].made].base = my'[u].image.base
             /\ my'[u].made # my'[u].source
             /\ \A v \in Threads : v # u => my'[u].made \notin {my'[v].made, my'[v].source}
  BY <1>4, <1>5 DEF HoldOK
<1>6. ASSUME NEW u \in Threads, my'[u].source # None
      PROVE  object'[my'[u].source] # None /\ object'[my'[u].source].base = my'[u].image.base
  BY <1>4, <1>6 DEF HoldOK
<1> QED
  BY <1>2, <1>3, <1>5, <1>6 DEF HoldOK

LEMMA OpenKept ==
  ASSUME PlatformOK, OpensOK, Kept, UNCHANGED <<refs, base, openCount>>,
         \A u \in Threads : my'[u].lib = my[u].lib
  PROVE  PlatformOK' /\ OpensOK'
<1>1. Used' = Used /\ \A f : SlotsFor(f)' = SlotsFor(f) /\ Holders(f)' = Holders(f)
  BY KeptFacts DEF Holders
<1>2. \A s \in Used : slots'[s].lib = slots[s].lib /\ slots'[s].base = slots[s].base
  BY DEF Kept, Used
<1>3. PlatformOK'
  BY <1>1, <1>2 DEF PlatformOK
<1> QED
  BY <1>1, <1>3 DEF OpensOK

\* The thread is in no call of load or unload, before or after.
LEMMA OwnKept ==
  ASSUME OwnersOK, LoadsAreOwners, CallsOK, NEW t \in Threads,
         \A u \in Threads : u # t => at'[u] = at[u] /\ my'[u] = my[u],
         at[t] \notin Owning, at'[t] \notin Owning, my'[t].owner = None,
         None \notin Owners, handle' = handle,
         Used' = Used, \A s \in Used : slots'[s].loads = slots[s].loads
  PROVE  OwnersOK' /\ LoadsAreOwners'
<1>1. my[t].owner = None
  BY DEF CallsOK, CallOK
<1>2. OwnersOK'
  BY <1>1 DEF OwnersOK, Owning
<1>3. \A w \in Owners, s \in Slots : Loads(w, s)' <=> Loads(w, s)
  BY <1>1 DEF Loads
<1>4. \A s \in Slots : {w \in Owners : Loads(w, s)}' = {w \in Owners : Loads(w, s)}
  BY <1>3
<1> QED
  BY <1>2, <1>4 DEF LoadsAreOwners

\* The step counts nothing.
LEMMA LiveKept ==
  ASSUME LiveOK, NEW t \in Threads,
         \A u \in Threads : u # t => at'[u] = at[u] /\ my'[u] = my[u],
         \A b, d : Owes(t, b, d)' <=> Owes(t, b, d),
         \A s \in Slots : Reserves(t, s)' <=> Reserves(t, s),
         object' = object, left' = left, Kept,
         \A s \in Used : slots'[s].live = slots[s].live
  PROVE  LiveOK'
<1>1. Used' = Used
  BY KeptFacts
<1>2. \A s \in Used : slots'[s].base = slots[s].base
  BY DEF Kept, Used
<1>3. \A b, d : {u \in Threads : Owes(u, b, d)}' = {u \in Threads : Owes(u, b, d)}
  BY DEF Owes
<1>4. \A s \in Slots : {u \in Threads : Reserves(u, s)}' = {u \in Threads : Reserves(u, s)}
  BY DEF Reserves
<1>5. Used \subseteq Slots
  BY DEF Used
<1>6. LiveExact'
  BY <1>1, <1>2, <1>3, <1>4, <1>5 DEF LiveExact, LiveOK
<1> QED
  BY <1>1, <1>6 DEF LiveOK

-----------------------------------------------------------------------------
(* Steps outside load and unload *)

LEMMA InsideInv ==
  ASSUME PluginInv, NEW t \in Threads, NEW p \in Places \ Owning, NEW x \in Locals,
         CallOK(p, x), Go(t, p, x), at[t] \notin Owning,
         UNCHANGED <<refs, base, openCount, handle>>, Kept,
         slots' \in [Slots -> {None} \cup Structs], left' \in [Slots -> Nat],
         object' \in [Objects -> Images \cup {None}],
         \A s \in Used : slots'[s].loads = slots[s].loads,
         HoldOK', LiveOK'
  PROVE  PluginInv'
<1>1. /\ at' \in [Threads -> Places] /\ my' \in [Threads -> Locals] /\ CallsOK'
      /\ at'[t] = p /\ my'[t] = x
      /\ \A u \in Threads : u # t => at'[u] = at[u] /\ my'[u] = my[u]
  BY GoFacts DEF PluginInv
<1>2. PluginShape'
  BY <1>1 DEF PluginInv, PluginShape
<1>3. x.owner = None /\ x.lib = None
  BY DEF CallOK, Owning
<1>4. my[t].lib = None
  BY DEF PluginInv, CallsOK, CallOK, Owning
<1>5. PlatformOK' /\ OpensOK'
  BY <1>1, <1>3, <1>4, OpenKept DEF PluginInv
<1>6. Used' = Used
  BY KeptFacts
<1>7. OwnersOK' /\ LoadsAreOwners'
  BY <1>1, <1>3, <1>6, OwnKept, PluginsAssumption DEF PluginInv
<1> QED
  BY <1>1, <1>2, <1>5, <1>7 DEF PluginInv

\* A step that counts nothing and names no other object.
LEMMA QuietInv ==
  ASSUME PluginInv, NEW t \in Threads, NEW p \in Places \ Owning, NEW x \in Locals,
         CallOK(p, x), Go(t, p, x), at[t] \notin Owning,
         UNCHANGED <<refs, base, openCount, slots, handle, object, left>>,
         p \in Coding => HasSlot(slots, x.image),
         p \in {"init", "give"} \/ x.after = "give" => SlotOf(slots, x.slot, x.image),
         x.made = None \/ (x.made = my[t].made /\ x.image = my[t].image),
         x.source = None \/ (x.source = my[t].source /\ x.image = my[t].image),
         \A b, d : (p \in Hooking /\ x.image.base = b /\ x.delta = d) <=> Owes(t, b, d),
         \A s \in Slots : (x.slot = s /\ (p \in {"init", "give"} \/ x.after = "give"))
                             <=> Reserves(t, s)
  PROVE  PluginInv'
<1>1. /\ at'[t] = p /\ my'[t] = x
      /\ \A u \in Threads : u # t => at'[u] = at[u] /\ my'[u] = my[u]
  BY GoFacts DEF PluginInv
<1>2. Kept
  BY DEF Kept
<1>3. HoldOK'
  BY <1>1, HoldKept DEF PluginInv
<1>4. LiveOK'
  <2>1. \A b, d : Owes(t, b, d)' <=> Owes(t, b, d)
    BY <1>1 DEF Owes, Hooking
  <2>2. \A s \in Slots : Reserves(t, s)' <=> Reserves(t, s)
    BY <1>1 DEF Reserves
  <2> QED
    BY <1>1, <1>2, <2>1, <2>2, LiveKept DEF PluginInv
<1>5. PluginShape'  \* of what is unchanged
  <2>1. at' \in [Threads -> Places] /\ my' \in [Threads -> Locals]
    BY GoFacts DEF PluginInv
  <2> QED
    BY <2>1 DEF PluginInv, PluginShape
<1> QED
  BY <1>2, <1>3, <1>4, <1>5, InsideInv DEF PluginShape

LEMMA IdleCall ==
  /\ NoCall \in Locals /\ "idle" \in Places \ Owning
  /\ NoCall.owner = None /\ NoCall.lib = None /\ NoCall.slot = None
  /\ NoCall.image = None /\ NoCall.made = None /\ NoCall.source = None
  /\ NoCall.delta = 0 /\ NoCall.after = "idle"
  /\ CallOK("idle", NoCall) /\ CallOK("find", NoCall)
<1>1. NoCall \in Locals /\ "idle" \in Places \ Owning
  BY DEF NoCall, Locals, Places, Owning
<1>2. /\ NoCall.owner = None /\ NoCall.lib = None /\ NoCall.slot = None
      /\ NoCall.image = None /\ NoCall.made = None /\ NoCall.source = None
      /\ NoCall.delta = 0 /\ NoCall.after = "idle"
  BY DEF NoCall
<1> QED
  BY <1>1, <1>2 DEF CallOK, Owning, Hooking, Coding

\* A thread at rest owes and reserves nothing.
LEMMA RestOwesNothing ==
  ASSUME PluginInv, NEW t \in Threads, at[t] \notin Hooking \cup {"init", "give"}
  PROVE  (\A b, d : ~Owes(t, b, d)) /\ (\A s : ~Reserves(t, s))
<1>1. CallOK(at[t], my[t])
  BY DEF PluginInv, CallsOK
<1>2. my[t].after # "give"
  BY <1>1 DEF CallOK
<1> QED
  BY <1>2 DEF Owes, Reserves, Hooking

\* A call returns, or a class is looked for.
LEMMA RestInv ==
  ASSUME PluginInv, NEW t \in Threads, Return(t) \/ Go(t, "find", NoCall),
         at[t] \in {"idle", "reserve", "find"},
         UNCHANGED <<refs, base, openCount, slots, handle, object, left>>
  PROVE  PluginInv'
<1>1. PICK p \in {"idle", "find"} : Go(t, p, NoCall)
  BY DEF Return
<1>2. /\ p \in Places \ Owning /\ p \notin Coding /\ p \notin Hooking \cup {"init", "give"}
      /\ at[t] \notin Owning /\ at[t] \notin Hooking \cup {"init", "give"}
  BY DEF Places, Owning, Coding, Hooking
<1>3. CallOK(p, NoCall)
  BY IdleCall
<1> QED
  BY <1>1, <1>2, <1>3, IdleCall, RestOwesNothing, QuietInv

LEMMA InstanceInv ==
  ASSUME PluginInv, NEW t \in Threads, NEW w \in Owners, Instance(t, w)
  PROVE  PluginInv'
<1> DEFINE x == [NoCall EXCEPT !.slot = handle[w]]
<1>1. /\ at[t] = "idle" /\ handle[w] # None /\ Go(t, "reserve", x)
      /\ UNCHANGED <<refs, base, openCount, slots, handle, object, left>>
  BY DEF Instance, platform, loaded
<1>2. handle[w] \in Slots
  BY <1>1 DEF PluginInv, PluginShape
<1>3. /\ x \in Locals /\ x.owner = None /\ x.lib = None /\ x.slot = handle[w]
      /\ x.image = None /\ x.made = None /\ x.source = None /\ x.after = "idle"
  BY <1>2 DEF NoCall, Locals
<1> HIDE DEF x
<1>4. CallOK("reserve", x)
  BY <1>1, <1>3 DEF CallOK, Owning, Hooking, Coding
<1>5. /\ "reserve" \in Places \ Owning /\ "reserve" \notin Coding
      /\ "reserve" \notin Hooking \cup {"init", "give"}
      /\ "idle" \notin Owning /\ "idle" \notin Hooking \cup {"init", "give"}
  BY DEF Places, Owning, Coding, Hooking
<1> QED
  BY <1>1, <1>3, <1>4, <1>5, RestOwesNothing, QuietInv

LEMMA BuildNotInv ==
  ASSUME PluginInv, NEW t \in Threads, BuildNot(t)
  PROVE  PluginInv'
<1> DEFINE x == my[t]
<1>1. /\ at[t] = "init" /\ Go(t, "give", x)
      /\ UNCHANGED <<refs, base, openCount, slots, handle, object, left>>
  BY DEF BuildNot, platform, loaded
<1>2. x \in Locals /\ CallOK("init", x)
  BY <1>1 DEF PluginInv, PluginShape, CallsOK
<1>3. CallOK("give", x)
  BY <1>2 DEF CallOK, Owning, Hooking, Coding
<1>4. SlotOf(slots, x.slot, x.image) /\ HasSlot(slots, x.image)
  BY <1>1 DEF PluginInv, HoldOK, Reserving, Coding
<1>5. "give" \in Places \ Owning /\ "init" \notin Owning
  BY DEF Places, Owning
<1>6. \A b, d : ("give" \in Hooking /\ x.image.base = b /\ x.delta = d) <=> Owes(t, b, d)
  BY <1>1 DEF Owes, Hooking
<1>7. \A s \in Slots : (x.slot = s /\ ("give" \in {"init", "give"} \/ x.after = "give"))
                          <=> Reserves(t, s)
  BY <1>1 DEF Reserves
<1> HIDE DEF x
<1> QED
  BY <1>1, <1>2, <1>3, <1>4, <1>5, <1>6, <1>7, QuietInv DEF x

\* The image of a thread in code of a library is mapped.
LEMMA ImageMapped ==
  ASSUME PluginInv, NEW image \in Images, HasSlot(slots, image)
  PROVE  base[image.lib] = image.base /\ refs[image.lib] > 0 /\ openCount > 0
<1>1. PICK s \in Used : slots[s].lib = image.lib /\ slots[s].base = image.base
  BY DEF HasSlot, SlotOf, Used
<1>2. base[image.lib] = image.base /\ image.base # None /\ image.lib \in Libs
  BY <1>1, UsedFacts DEF PluginInv, PlatformOK
<1>3. refs[image.lib] # 0 /\ refs[image.lib] \in Nat
  BY <1>2 DEF PluginInv, PlatformOK, PluginShape
<1>4. openCount = Cardinality(Used) /\ Used # {} /\ openCount \in Nat
  BY <1>1 DEF PluginInv, OpensOK, PluginShape
<1>5. Cardinality(Used) # 0
  <2>1. Used \subseteq Slots
    BY DEF Used
  <2> QED
    BY <1>4, <2>1, FiniteIn, FS_EmptySet
<1> QED
  BY <1>2, <1>3, <1>4, <1>5

LEMMA CountOpenInv ==
  ASSUME PluginInv, NEW t \in Threads, CountOpen(t) \/ CountImage(t)
  PROVE  PluginInv'
<1>1. /\ at[t] \in {"hook", "image"}
      /\ UNCHANGED <<refs, base, openCount, slots, handle, object, left>>
  BY DEF CountOpen, CountImage, platform, loaded
<1>2. my[t] \in Locals /\ CallOK(at[t], my[t])
  BY DEF PluginInv, PluginShape, CallsOK
<1>3. my[t].image \in Images /\ HasSlot(slots, my[t].image)
  <2>1. at[t] \in Coding
    BY <1>1 DEF Coding, Hooking
  <2>2. my[t].image # None
    BY <1>2, <2>1 DEF CallOK
  <2> QED
    BY <1>2, <2>1, <2>2 DEF Locals, PluginInv, HoldOK
<1>4. /\ base[my[t].image.lib] = my[t].image.base /\ openCount > 0
      /\ my[t].image.lib \in Libs /\ my[t].image.base \in Bases
  BY <1>3, ImageMapped DEF Images
<1>5. PICK p \in {"image", "count"}, x \in {my[t], [my[t] EXCEPT !.found = my[t].image.base]} :
         Go(t, p, x) /\ (p = "count" => x.found = my[t].image.base)
  <2>1. CASE CountOpen(t)
    <3>1. openCount # 0
      BY <1>4 DEF PluginInv, PluginShape
    <3> QED
      BY <2>1, <3>1 DEF CountOpen
  <2>2. CASE CountImage(t)
    <3>1. ImageAt(my[t].image.base) = my[t].image.base
      BY <1>4 DEF ImageAt
    <3>2. Go(t, "count", [my[t] EXCEPT !.found = my[t].image.base])
      BY <2>2, <3>1 DEF CountImage
    <3>3. [my[t] EXCEPT !.found = my[t].image.base].found = my[t].image.base
      BY <1>2 DEF Locals
    <3> QED
      BY <3>2, <3>3
  <2> QED
    BY <2>1, <2>2
<1>6. /\ x \in Locals /\ x.owner = my[t].owner /\ x.lib = my[t].lib /\ x.slot = my[t].slot
      /\ x.image = my[t].image /\ x.made = my[t].made /\ x.source = my[t].source
      /\ x.delta = my[t].delta /\ x.after = my[t].after
  BY <1>2, <1>4, <1>5 DEF Locals
<1>7. CallOK(p, x)
  BY <1>1, <1>2, <1>5, <1>6 DEF CallOK, Owning, Hooking, Coding
<1>8. /\ p \in Places \ Owning /\ at[t] \notin Owning /\ p \in Hooking /\ at[t] \in Hooking
      /\ p \notin {"init", "give"} /\ at[t] \notin {"init", "give"}
  BY <1>1 DEF Places, Owning, Hooking
<1>9. x.after = "give" => SlotOf(slots, x.slot, x.image)
  BY <1>6 DEF PluginInv, HoldOK, Reserving
<1>10. \A b, d : (p \in Hooking /\ x.image.base = b /\ x.delta = d) <=> Owes(t, b, d)
  BY <1>6, <1>8 DEF Owes, Hooking
<1>11. \A s \in Slots : (x.slot = s /\ (p \in {"init", "give"} \/ x.after = "give"))
                          <=> Reserves(t, s)
  BY <1>6, <1>8 DEF Reserves
<1> QED
  BY <1>1, <1>3, <1>5, <1>6, <1>7, <1>8, <1>9, <1>10, <1>11, QuietInv

-----------------------------------------------------------------------------
(* Steps that count *)

One(b) == IF b THEN 1 ELSE 0

LEMMA OneTypes == \A b \in BOOLEAN : One(b) \in Nat /\ One(TRUE) = 1 /\ One(FALSE) = 0
BY DEF One

LEMMA CountMoves ==
  ASSUME NEW A, NEW B, NEW x, IsFiniteSet(A), IsFiniteSet(B),
         \A y : y # x => (y \in B <=> y \in A)
  PROVE  Cardinality(B) = Cardinality(A) + One(x \in B) - One(x \in A)
<1>1. /\ Cardinality(A) \in Nat /\ Cardinality(B) \in Nat
      /\ (x \in A <=> x \in B) => B = A /\ Cardinality(B) = Cardinality(A)
      /\ x \notin A /\ x \in B => Cardinality(B) = Cardinality(A) + 1
      /\ x \in A /\ x \notin B => Cardinality(B) = Cardinality(A) - 1
  BY OneDiffers
<1>2. CASE x \in A /\ x \in B
  BY <1>1, <1>2 DEF One
<1>3. CASE x \notin A /\ x \notin B
  BY <1>1, <1>3 DEF One
<1>4. CASE x \notin A /\ x \in B
  BY <1>1, <1>4 DEF One
<1>5. CASE x \in A /\ x \notin B
  BY <1>1, <1>5 DEF One
<1> QED
  BY <1>2, <1>3, <1>4, <1>5

\* Of the objects O, o is one at base b.
InBase(O, o, b) == o \in Objects /\ O[o] # None /\ O[o].base = b

\* At place p with the locals x a thread owes d to the base b.
OwesIn(p, x, b, d) == p \in Hooking /\ x.image.base = b /\ x.delta = d

\* At place p with the locals x a thread holds a reservation of slot s.
ReservesIn(p, x, s) == x.slot = s /\ (p \in {"init", "give"} \/ x.after = "give")

\* What slot s counts before and after the step of t, which puts or takes object o
\* and goes to p with the locals x.
Balance(t, o, p, x, s, b) ==
    slots'[s].live = slots[s].live
        + (One(InBase(object', o, b)) - One(InBase(object, o, b)))
        - (One(OwesIn(p, x, b, 1)) - One(OwesIn(at[t], my[t], b, 1)))
        + (One(OwesIn(p, x, b, -1)) - One(OwesIn(at[t], my[t], b, -1)))
        + (One(ReservesIn(p, x, s)) - One(ReservesIn(at[t], my[t], s)))
        + (left'[s] - left[s])

\* When each slot counts what the step changed, the counts stay exact.
LEMMA LiveMoves ==
  ASSUME PluginShape, LiveOK, Kept, NEW t \in Threads, NEW p, NEW x, NEW o,
         at'[t] = p, my'[t] = x,
         \A u \in Threads : u # t => at'[u] = at[u] /\ my'[u] = my[u],
         \A y \in Objects : y # o => object'[y] = object[y],
         left' \in [Slots -> Nat], \A s \in Slots \ Used : left'[s] = left[s],
         \A s \in Used : Balance(t, o, p, x, s, slots[s].base)
  PROVE  LiveOK'
<1>1. Used' = Used /\ Used \subseteq Slots
  BY KeptFacts DEF Used
<1>2. ASSUME NEW s \in Used
      PROVE  slots'[s].live =
                 Cardinality({y \in Objects : object'[y] # None /\ object'[y].base = slots'[s].base})
                 - Cardinality({u \in Threads : Owes(u, slots[s].base, 1)'})
                 + Cardinality({u \in Threads : Owes(u, slots[s].base, -1)'})
                 + Cardinality({u \in Threads : Reserves(u, s)'})
                 + left'[s]
  <2> DEFINE b == slots[s].base
             A == ObjectsAt(b)
             AA == {y \in Objects : object'[y] # None /\ object'[y].base = b}
             P == Owing(b, 1)
             PP == {u \in Threads : OwesIn(at'[u], my'[u], b, 1)}
             M == Owing(b, -1)
             MM == {u \in Threads : OwesIn(at'[u], my'[u], b, -1)}
             R == Reservers(s)
             RR == {u \in Threads : ReservesIn(at'[u], my'[u], s)}
  <2>1. slots'[s].base = b
    BY <1>1 DEF Kept, Used
  <2>2. /\ slots[s].live = Cardinality(A) - Cardinality(P) + Cardinality(M)
                           + Cardinality(R) + left[s]
        /\ slots[s].live \in Int /\ left[s] \in Nat /\ left'[s] \in Nat
    BY <1>1, LiveCounts, UsedFacts DEF LiveOK, PluginShape
  <2>3. Balance(t, o, p, x, s, b)
    OBVIOUS
  <2>4. /\ \A u \in Threads : u \in P <=> OwesIn(at[u], my[u], b, 1)
        /\ \A u \in Threads : u \in M <=> OwesIn(at[u], my[u], b, -1)
        /\ \A u \in Threads : u \in R <=> ReservesIn(at[u], my[u], s)
    BY DEF Owing, Owes, OwesIn, Hooking, Reservers, Reserves, ReservesIn
  <2>5. /\ P \subseteq Threads /\ M \subseteq Threads /\ R \subseteq Threads
        /\ PP \subseteq Threads /\ MM \subseteq Threads /\ RR \subseteq Threads
        /\ A \subseteq Objects /\ AA \subseteq Objects
    BY DEF ObjectsAt, Owing, Reservers
  <2>6. /\ \A y : y # o => (y \in AA <=> y \in A)
        /\ o \in AA <=> InBase(object', o, b)
        /\ o \in A <=> InBase(object, o, b)
    BY DEF ObjectsAt, InBase
  <2>7. /\ \A u : u # t => (u \in PP <=> u \in P)
        /\ \A u : u # t => (u \in MM <=> u \in M)
        /\ \A u : u # t => (u \in RR <=> u \in R)
        /\ t \in PP <=> OwesIn(p, x, b, 1)
        /\ t \in MM <=> OwesIn(p, x, b, -1)
        /\ t \in RR <=> ReservesIn(p, x, s)
    BY <2>4, <2>5
  <2> HIDE DEF b, A, AA, P, PP, M, MM, R, RR
  <2>8. /\ IsFiniteSet(A) /\ IsFiniteSet(AA) /\ IsFiniteSet(P) /\ IsFiniteSet(PP)
        /\ IsFiniteSet(M) /\ IsFiniteSet(MM) /\ IsFiniteSet(R) /\ IsFiniteSet(RR)
        /\ Cardinality(A) \in Nat /\ Cardinality(P) \in Nat
        /\ Cardinality(M) \in Nat /\ Cardinality(R) \in Nat
    BY <2>5, FiniteIn
  <2>9. /\ Cardinality(AA) = Cardinality(A) + One(o \in AA) - One(o \in A)
        /\ Cardinality(PP) = Cardinality(P) + One(t \in PP) - One(t \in P)
        /\ Cardinality(MM) = Cardinality(M) + One(t \in MM) - One(t \in M)
        /\ Cardinality(RR) = Cardinality(R) + One(t \in RR) - One(t \in R)
    BY <2>6, <2>7, <2>8, CountMoves
  <2> DEFINE a1 == One(o \in AA)
             a0 == One(o \in A)
             p1 == One(t \in PP)
             p0 == One(t \in P)
             m1 == One(t \in MM)
             m0 == One(t \in M)
             r1 == One(t \in RR)
             r0 == One(t \in R)
  <2>10. /\ a1 \in Nat /\ a0 \in Nat /\ p1 \in Nat /\ p0 \in Nat
         /\ m1 \in Nat /\ m0 \in Nat /\ r1 \in Nat /\ r0 \in Nat
    BY DEF One
  <2>11. slots'[s].live = slots[s].live + (a1 - a0) - (p1 - p0) + (m1 - m0) + (r1 - r0)
                          + (left'[s] - left[s])
    BY <2>3, <2>4, <2>6, <2>7 DEF Balance, One
  <2> HIDE DEF a1, a0, p1, p0, m1, m0, r1, r0
  <2>12. /\ Cardinality(AA) = Cardinality(A) + a1 - a0
         /\ Cardinality(PP) = Cardinality(P) + p1 - p0
         /\ Cardinality(MM) = Cardinality(M) + m1 - m0
         /\ Cardinality(RR) = Cardinality(R) + r1 - r0
    BY <2>9 DEF a1, a0, p1, p0, m1, m0, r1, r0
  <2>13. slots'[s].live = Cardinality(AA) - Cardinality(PP) + Cardinality(MM)
                          + Cardinality(RR) + left'[s]
    BY <2>2, <2>8, <2>10, <2>11, <2>12
  <2>14. /\ PP = {u \in Threads : Owes(u, b, 1)'} /\ MM = {u \in Threads : Owes(u, b, -1)'}
         /\ RR = {u \in Threads : Reserves(u, s)'}
    BY <2>1 DEF b, PP, MM, RR, OwesIn, Owes, Hooking, ReservesIn, Reserves
  <2> QED
    BY <2>1, <2>13, <2>14 DEF AA, b
<1>3. LiveExact'
  BY <1>1, <1>2 DEF LiveExact
<1> QED
  BY <1>1, <1>3 DEF LiveOK

\* Slot s counts d more.
Counted(s, d) ==
    slots' = [r \in Slots |-> IF r = s THEN [slots[r] EXCEPT !.live = @ + d] ELSE slots[r]]

LEMMA CountedFacts ==
  ASSUME PluginShape, NEW s \in Used, NEW d \in Int, Counted(s, d)
  PROVE  /\ slots' \in [Slots -> {None} \cup Structs] /\ Kept
         /\ \A r \in Used : /\ slots'[r].loads = slots[r].loads
                            /\ slots'[r].live = slots[r].live + (IF r = s THEN d ELSE 0)
<1> DEFINE y == [slots[s] EXCEPT !.live = @ + d]
<1>1. s \in Slots /\ slots[s] \in Structs /\ slots[s].live \in Int
  BY UsedFacts
<1>2. /\ y \in Structs /\ y.lib = slots[s].lib /\ y.base = slots[s].base
      /\ y.loads = slots[s].loads /\ y.live = slots[s].live + d
  BY <1>1 DEF Structs
<1>3. \A r \in Slots : slots'[r] = IF r = s THEN y ELSE slots[r]
  BY DEF Counted
<1>4. slots' = [r \in Slots |-> slots'[r]]
  BY DEF Counted
<1> HIDE DEF y
<1>5. y # None
  BY <1>2, PluginsAssumption
<1>6. slots' \in [Slots -> {None} \cup Structs]
  <2>1. \A r \in Slots : slots'[r] \in {None} \cup Structs
    BY <1>2, <1>3 DEF PluginShape
  <2> QED
    BY <1>4, <2>1
<1>7. Kept
  BY <1>2, <1>3, <1>5 DEF Kept, Used
<1>8. ASSUME NEW r \in Used
      PROVE  /\ slots'[r].loads = slots[r].loads
             /\ slots'[r].live = slots[r].live + (IF r = s THEN d ELSE 0)
  <2>1. r \in Slots /\ slots[r].live \in Int
    BY UsedFacts
  <2>2. CASE r = s
    BY <1>2, <1>3, <2>1, <2>2
  <2>3. CASE r # s
    BY <1>3, <2>1, <2>3
  <2> QED
    BY <2>2, <2>3
<1> QED
  BY <1>6, <1>7, <1>8

LEMMA ReservedInv ==
  ASSUME PluginInv, NEW t \in Threads, at[t] \in {"reserve", "find"}, NEW s \in Used,
         NEW arena \in BOOLEAN, Reserved(t, s, arena),
         UNCHANGED <<refs, base, openCount, left, handle, object>>
  PROVE  PluginInv'
<1> DEFINE i == [lib |-> slots[s].lib, base |-> slots[s].base, arena |-> arena]
           x == [NoCall EXCEPT !.slot = s, !.image = i]
<1>1. /\ s \in Slots /\ slots[s] \in Structs /\ slots[s].lib \in Libs
      /\ slots[s].base \in Bases /\ slots[s].live \in Int
  BY UsedFacts DEF PluginInv
<1>2. Counted(s, 1) /\ Go(t, "init", x)
  BY DEF Reserved, Counted, PluginInv, PluginShape
<1>3. /\ slots' \in [Slots -> {None} \cup Structs] /\ Kept
      /\ \A r \in Used : /\ slots'[r].loads = slots[r].loads
                         /\ slots'[r].live = slots[r].live + (IF r = s THEN 1 ELSE 0)
  BY <1>2, CountedFacts DEF PluginInv
<1>4. i \in Images /\ i.lib = slots[s].lib /\ i.base = slots[s].base /\ i # None
  BY <1>1, PluginsAssumption DEF Images
<1>5. /\ x \in Locals /\ x.owner = None /\ x.lib = None /\ x.slot = s /\ x.image = i
      /\ x.made = None /\ x.source = None /\ x.after = "idle"
  BY <1>1, <1>4 DEF NoCall, Locals
<1> HIDE DEF x, i
<1>6. s # None
  BY <1>1, PluginsAssumption DEF Slots
<1>7. CallOK("init", x)
  BY <1>4, <1>5, <1>6 DEF CallOK, Owning, Hooking, Coding
<1>8. /\ "init" \in Places \ Owning /\ at[t] \notin Owning /\ "init" \notin Hooking
      /\ at[t] \notin Hooking \cup {"init", "give"}
  BY DEF Places, Owning, Hooking
<1>9. /\ at'[t] = "init" /\ my'[t] = x
      /\ \A u \in Threads : u # t => at'[u] = at[u] /\ my'[u] = my[u]
  BY <1>2, <1>5, <1>7, <1>8, GoFacts DEF PluginInv
<1>10. SlotOf(slots, s, i)
  BY <1>1, <1>4 DEF SlotOf, Used
<1>11. \A r, image : SlotOf(slots', r, image) <=> SlotOf(slots, r, image)
  BY <1>3, KeptFacts
<1>12. HoldOK'
  <2>1. SlotOf(slots', x.slot, x.image) /\ HasSlot(slots', x.image)
    BY <1>1, <1>5, <1>10, <1>11 DEF HasSlot
  <2> QED
    BY <1>5, <1>9, <1>11, <2>1, HoldKept DEF PluginInv
<1>13. ASSUME NEW r \in Used PROVE Balance(t, None, "init", x, r, slots[r].base)
  <2>1. ~OwesIn("init", x, slots[r].base, 1) /\ ~OwesIn("init", x, slots[r].base, -1)
    BY <1>8 DEF OwesIn
  <2>2. /\ ~OwesIn(at[t], my[t], slots[r].base, 1) /\ ~OwesIn(at[t], my[t], slots[r].base, -1)
        /\ ~ReservesIn(at[t], my[t], r)
    BY <1>8, RestOwesNothing DEF OwesIn, ReservesIn, Owes, Reserves, Hooking
  <2>3. ReservesIn("init", x, r) <=> r = s
    BY <1>5 DEF ReservesIn
  <2>4. InBase(object', None, slots[r].base) = InBase(object, None, slots[r].base)
    OBVIOUS
  <2>5. slots[r].live \in Int /\ left[r] \in Nat /\ left' = left
    BY UsedFacts DEF PluginInv, PluginShape, Used
  <2> QED
    BY <1>3, <2>1, <2>2, <2>3, <2>4, <2>5 DEF Balance, One
<1>14. LiveOK'
  BY <1>3, <1>9, <1>13, LiveMoves DEF PluginInv, PluginShape
<1> QED
  BY <1>2, <1>3, <1>5, <1>7, <1>8, <1>12, <1>14, InsideInv DEF PluginInv, PluginShape

LEMMA GiveInv ==
  ASSUME PluginInv, NEW t \in Threads, Give(t)
  PROVE  PluginInv'
<1> DEFINE s == my[t].slot
<1>1. /\ at[t] = "give" /\ Return(t)
      /\ UNCHANGED <<refs, base, openCount, left, handle, object>>
  BY DEF Give, platform
<1>2. SlotOf(slots, s, my[t].image)
  BY <1>1 DEF PluginInv, HoldOK, Reserving
<1>3. s \in Used /\ s \in Slots
  BY <1>2 DEF SlotOf, Used
<1>4. slots[s] \in Structs /\ slots[s].live \in Int
  BY <1>3, UsedFacts DEF PluginInv
<1>5. Counted(s, -1)
  <2>1. slots' = [slots EXCEPT ![s].live = @ - 1] /\ slots \in [Slots -> {None} \cup Structs]
    BY DEF Give, PluginInv, PluginShape
  <2>2. slots[s].live - 1 = slots[s].live + (-1)
    BY <1>4
  <2> QED
    BY <1>3, <2>1, <2>2 DEF Counted
<1>6. /\ slots' \in [Slots -> {None} \cup Structs] /\ Kept
      /\ \A r \in Used : /\ slots'[r].loads = slots[r].loads
                         /\ slots'[r].live = slots[r].live + (IF r = s THEN -1 ELSE 0)
  BY <1>3, <1>5, CountedFacts DEF PluginInv
<1>7. "idle" \notin Hooking \cup Coding \cup {"init", "give"} /\ "give" \notin Owning \cup Hooking
  BY DEF Coding, Owning, Hooking
<1>8. Go(t, "idle", NoCall)
  BY <1>1 DEF Return
<1>9. /\ at'[t] = "idle" /\ my'[t] = NoCall
      /\ \A u \in Threads : u # t => at'[u] = at[u] /\ my'[u] = my[u]
  BY <1>8, IdleCall, GoFacts DEF PluginInv
<1>10. HoldOK'
  BY <1>1, <1>6, <1>7, <1>9, KeptFacts, IdleCall, HoldKept DEF PluginInv
<1>11. ASSUME NEW r \in Used PROVE Balance(t, None, "idle", NoCall, r, slots[r].base)
  <2>1. /\ ~OwesIn("idle", NoCall, slots[r].base, 1)
        /\ ~OwesIn("idle", NoCall, slots[r].base, -1)
        /\ ~ReservesIn("idle", NoCall, r)
    BY <1>7, IdleCall DEF OwesIn, ReservesIn
  <2>2. /\ ~OwesIn(at[t], my[t], slots[r].base, 1) /\ ~OwesIn(at[t], my[t], slots[r].base, -1)
        /\ ReservesIn(at[t], my[t], r) <=> r = s
    BY <1>1, <1>7 DEF OwesIn, ReservesIn
  <2>4. InBase(object', None, slots[r].base) = InBase(object, None, slots[r].base)
    BY <1>1
  <2>5. slots[r].live \in Int /\ left[r] \in Nat /\ left' = left
    BY <1>1, UsedFacts DEF PluginInv, PluginShape, Used
  <2> HIDE DEF s
  <2> QED
    BY <1>6, <2>1, <2>2, <2>4, <2>5 DEF Balance, One
<1>12. LiveOK'
  BY <1>1, <1>6, <1>9, <1>11, LiveMoves DEF PluginInv, PluginShape
<1> QED
  BY <1>1, <1>6, <1>7, <1>8, <1>10, <1>12, IdleCall, InsideInv DEF PluginInv, PluginShape

-----------------------------------------------------------------------------
(* Objects come and go *)

\* No thread makes or ends an object that is not there.
LEMMA NamedExist ==
  ASSUME PluginInv, NEW u \in Threads
  PROVE  /\ my[u].made # None => my[u].made \in Objects /\ object[my[u].made] # None
         /\ my[u].source # None => my[u].source \in Objects /\ object[my[u].source] # None
<1>1. my[u] \in Locals
  BY DEF PluginInv, PluginShape
<1> QED
  BY <1>1 DEF Locals, PluginInv, HoldOK

LEMMA MadeInv ==
  ASSUME PluginInv, NEW t \in Threads, at[t] \in {"idle", "init"}, NEW o \in Objects,
         object[o] = None, NEW x \in Locals, x.owner = None, x.lib = None,
         x.image \in Images, x.made = o, x.delta = 1,
         x.after = "give" \/ (x.source # None /\ x.after = "idle"),
         HasSlot(slots, x.image),
         x.after = "give" => x.slot # None /\ SlotOf(slots, x.slot, x.image),
         \A r \in Slots : ReservesIn("hook", x, r) <=> ReservesIn(at[t], my[t], r),
         x.source # None => /\ object[x.source] # None
                            /\ object[x.source].base = x.image.base
                            /\ \A u \in Threads : my[u].made # x.source,
         object' = [object EXCEPT ![o] = x.image], Go(t, "hook", x),
         UNCHANGED <<refs, base, slots, openCount, left, handle>>
  PROVE  PluginInv'
<1>1. o # None /\ x.image # None
  BY PluginsAssumption
<1>2. /\ "hook" \in Places \ Owning /\ at[t] \notin Owning /\ "hook" \in Hooking
      /\ at[t] \notin Hooking /\ "hook" \in Coding /\ "hook" \notin {"init", "give", "teardown"}
  BY DEF Places, Owning, Hooking, Coding
<1>3. CallOK("hook", x)
  BY <1>1, <1>2 DEF CallOK, Owning
<1>4. /\ at'[t] = "hook" /\ my'[t] = x
      /\ \A u \in Threads : u # t => at'[u] = at[u] /\ my'[u] = my[u]
  BY <1>2, <1>3, GoFacts DEF PluginInv
<1>5. /\ object' \in [Objects -> Images \cup {None}] /\ object'[o] = x.image
      /\ \A y \in Objects : y # o => object'[y] = object[y]
  BY DEF PluginInv, PluginShape
<1>6. \A u \in Threads : /\ my[u].made # o /\ my[u].source # o
                         /\ my[u].made # None =>
                               my[u].made \in Objects /\ object[my[u].made] # None
                         /\ my[u].source # None =>
                               my[u].source \in Objects /\ object[my[u].source] # None
  BY <1>1, NamedExist
<1>7. x.source # None => x.source # o /\ x.source \in Objects
  BY DEF Locals
<1>8. HoldOK'
  <2>1. \A y \in Objects : object'[y] # None => HasSlot(slots', object'[y])
    BY <1>5 DEF PluginInv, HoldOK
  <2>2. ASSUME NEW u \in Threads
        PROVE  /\ at'[u] \in Coding => HasSlot(slots', my'[u].image)
               /\ Reserving(u)' => SlotOf(slots', my'[u].slot, my'[u].image)
    <3>1. CASE u = t
      BY <1>2, <1>4, <3>1 DEF Reserving
    <3>2. CASE u # t
      BY <1>4, <3>2 DEF Reserving, PluginInv, HoldOK
    <3> QED
      BY <3>1, <3>2
  <2>3. ASSUME NEW u \in Threads, my'[u].made # None
        PROVE  /\ object'[my'[u].made] # None
               /\ object'[my'[u].made].base = my'[u].image.base
               /\ my'[u].made # my'[u].source
               /\ \A v \in Threads : v # u => my'[u].made \notin {my'[v].made, my'[v].source}
    <3>1. CASE u = t
      BY <1>1, <1>4, <1>5, <1>6, <1>7, <2>3, <3>1
    <3>2. CASE u # t
      <4>1. /\ my'[u] = my[u] /\ my[u].made # None /\ my[u].made \in Objects
            /\ object'[my[u].made] = object[my[u].made]
        BY <1>4, <1>5, <1>6, <2>3, <3>2
      <4>2. /\ object[my[u].made] # None /\ object[my[u].made].base = my[u].image.base
            /\ my[u].made # my[u].source
            /\ \A v \in Threads : v # u => my[u].made \notin {my[v].made, my[v].source}
        BY <4>1 DEF PluginInv, HoldOK
      <4>3. my[u].made # o /\ my[u].made # x.source
        BY <1>6, <4>1
      <4> QED
        BY <1>4, <4>1, <4>2, <4>3
    <3> QED
      BY <3>1, <3>2
  <2>4. ASSUME NEW u \in Threads, my'[u].source # None
        PROVE  object'[my'[u].source] # None /\ object'[my'[u].source].base = my'[u].image.base
    <3>1. CASE u = t
      BY <1>4, <1>5, <1>7, <2>4, <3>1
    <3>2. CASE u # t
      <4>1. /\ my'[u] = my[u] /\ my[u].source # None
            /\ object'[my[u].source] = object[my[u].source]
        BY <1>4, <1>5, <1>6, <2>4, <3>2
      <4> QED
        BY <4>1 DEF PluginInv, HoldOK
    <3> QED
      BY <3>1, <3>2
  <2> QED
    BY <2>1, <2>2, <2>3, <2>4 DEF HoldOK
<1>9. ASSUME NEW r \in Used PROVE Balance(t, o, "hook", x, r, slots[r].base)
  <2> DEFINE b == slots[r].base
  <2>1. /\ InBase(object', o, b) <=> x.image.base = b
        /\ OwesIn("hook", x, b, 1) <=> x.image.base = b
        /\ ~InBase(object, o, b) /\ ~OwesIn("hook", x, b, -1)
    BY <1>1, <1>2, <1>5 DEF InBase, OwesIn
  <2>2. ~OwesIn(at[t], my[t], b, 1) /\ ~OwesIn(at[t], my[t], b, -1)
    BY <1>2 DEF OwesIn
  <2>3. ReservesIn("hook", x, r) <=> ReservesIn(at[t], my[t], r)
    BY DEF Used
  <2>4. /\ slots[r].live \in Int /\ left[r] \in Nat /\ left' = left
        /\ slots'[r].live = slots[r].live
    BY UsedFacts DEF PluginInv, PluginShape, Used
  <2> HIDE DEF b
  <2>5. Balance(t, o, "hook", x, r, b)
    BY <2>1, <2>2, <2>3, <2>4 DEF Balance, One
  <2> QED
    BY <2>5 DEF b
<1>10. Kept
  BY DEF Kept
<1>11. LiveOK'
  BY <1>4, <1>5, <1>9, <1>10, LiveMoves DEF PluginInv, PluginShape
<1> QED
  BY <1>2, <1>3, <1>5, <1>8, <1>10, <1>11, InsideInv DEF PluginInv, PluginShape

LEMMA BuildInv ==
  ASSUME PluginInv, NEW t \in Threads, Build(t)
  PROVE  PluginInv'
<1>1. /\ at[t] = "init" /\ my[t] \in Locals /\ CallOK("init", my[t])
      /\ UNCHANGED <<refs, base, slots, openCount, left, handle>>
  BY DEF Build, platform, loaded, PluginInv, PluginShape, CallsOK
<1>2. PICK o \in Objects : Made(t, o, my[t].image, "hook", [my[t] EXCEPT !.after = "give"])
  BY DEF Build
<1> DEFINE x == [[my[t] EXCEPT !.after = "give"] EXCEPT !.image = my[t].image, !.made = o,
                                                       !.delta = 1]
<1>3. /\ object[o] = None /\ object' = [object EXCEPT ![o] = my[t].image]
      /\ Go(t, "hook", x)
  BY <1>2 DEF Made
<1>4. /\ SlotOf(slots, my[t].slot, my[t].image) /\ HasSlot(slots, my[t].image)
      /\ my[t].image \in Images /\ my[t].slot # None
      /\ my[t].owner = None /\ my[t].lib = None /\ my[t].source = None
  <2>1. my[t].image # None /\ my[t].slot # None /\ my[t].source = None
    BY <1>1 DEF CallOK, Coding, Hooking
  <2>2. my[t].owner = None /\ my[t].lib = None
    BY <1>1 DEF CallOK, Owning
  <2> QED
    BY <1>1, <2>1, <2>2 DEF PluginInv, HoldOK, Reserving, Coding, Locals
<1>5. /\ x \in Locals /\ x.owner = None /\ x.lib = None /\ x.slot = my[t].slot
      /\ x.image = my[t].image /\ x.made = o /\ x.source = None /\ x.delta = 1
      /\ x.after = "give"
  BY <1>1, <1>4 DEF Locals
<1> HIDE DEF x
<1>6. \A r \in Slots : ReservesIn("hook", x, r) <=> ReservesIn(at[t], my[t], r)
  BY <1>1, <1>5 DEF ReservesIn
<1> QED
  BY <1>1, <1>3, <1>4, <1>5, <1>6, MadeInv

LEMMA DupInv ==
  ASSUME PluginInv, NEW t \in Threads, NEW o \in Objects, Dup(t, o)
  PROVE  PluginInv'
<1> DEFINE i == [object[o] EXCEPT !.arena = FALSE]
<1>1. /\ at[t] = "idle" /\ Idle(o)
      /\ UNCHANGED <<refs, base, slots, openCount, left, handle>>
  BY DEF Dup, platform, loaded
<1>2. PICK q \in Objects : Made(t, q, i, "hook", [NoCall EXCEPT !.source = o])
  BY DEF Dup
<1> DEFINE x == [[NoCall EXCEPT !.source = o] EXCEPT !.image = i, !.made = q, !.delta = 1]
<1>3. object[q] = None /\ object' = [object EXCEPT ![q] = i] /\ Go(t, "hook", x)
  BY <1>2 DEF Made
<1>4. object[o] # None /\ object[o] \in Images /\ o # None
  BY <1>1, PluginsAssumption DEF Idle, PluginInv, PluginShape
<1>5. i \in Images /\ i.lib = object[o].lib /\ i.base = object[o].base
  BY <1>4 DEF Images
<1> HIDE DEF i
<1>6. HasSlot(slots, i)
  <2>1. HasSlot(slots, object[o])
    BY <1>4 DEF PluginInv, HoldOK
  <2> QED
    BY <1>5, <2>1 DEF HasSlot, SlotOf
<1>7. /\ x \in Locals /\ x.owner = None /\ x.lib = None /\ x.slot = None /\ x.image = i
      /\ x.made = q /\ x.source = o /\ x.delta = 1 /\ x.after = "idle"
  BY <1>5 DEF NoCall, Locals
<1> HIDE DEF x
<1>8. \A u \in Threads : my[u].made # o
  BY <1>1 DEF Idle
<1>9. \A r \in Slots : ReservesIn("hook", x, r) <=> ReservesIn(at[t], my[t], r)
  <2>1. \A r : ~Reserves(t, r)
    BY <1>1, RestOwesNothing DEF Hooking
  <2> QED
    BY <1>7, <2>1 DEF ReservesIn, Reserves
<1> QED
  BY <1>1, <1>3, <1>4, <1>5, <1>6, <1>7, <1>8, <1>9, MadeInv

LEMMA DeleteInv ==
  ASSUME PluginInv, NEW t \in Threads, NEW o \in Objects, Delete(t, o)
  PROVE  PluginInv'
<1> DEFINE x == [NoCall EXCEPT !.image = object[o], !.made = o, !.delta = -1]
<1>1. /\ at[t] = "idle" /\ Idle(o) /\ Go(t, "teardown", x)
      /\ UNCHANGED <<refs, base, openCount, slots, handle, object, left>>
  BY DEF Delete, platform, loaded
<1>2. object[o] # None /\ object[o] \in Images /\ o # None
  BY <1>1, PluginsAssumption DEF Idle, PluginInv, PluginShape
<1>3. /\ x \in Locals /\ x.owner = None /\ x.lib = None /\ x.slot = None
      /\ x.image = object[o] /\ x.made = o /\ x.source = None /\ x.delta = -1
      /\ x.after = "idle"
  BY <1>2 DEF NoCall, Locals
<1> HIDE DEF x
<1>4. /\ "teardown" \in Places \ Owning /\ "idle" \notin Owning \cup Hooking \cup {"init", "give"}
      /\ "teardown" \in Coding /\ "teardown" \notin Hooking \cup {"init", "give"}
  BY DEF Places, Owning, Hooking, Coding
<1>5. CallOK("teardown", x)
  BY <1>2, <1>3, <1>4 DEF CallOK
<1>6. /\ at'[t] = "teardown" /\ my'[t] = x
      /\ \A u \in Threads : u # t => at'[u] = at[u] /\ my'[u] = my[u]
  BY <1>1, <1>3, <1>4, <1>5, GoFacts DEF PluginInv
<1>7. \A u \in Threads : my[u].made # o /\ my[u].source # o
  BY <1>1 DEF Idle
<1>8. HoldOK'
  <2>1. \A y \in Objects : object'[y] # None => HasSlot(slots', object'[y])
    BY <1>1 DEF PluginInv, HoldOK
  <2>2. ASSUME NEW u \in Threads
        PROVE  /\ at'[u] \in Coding => HasSlot(slots', my'[u].image)
               /\ Reserving(u)' => SlotOf(slots', my'[u].slot, my'[u].image)
    <3>1. CASE u = t
      <4>1. HasSlot(slots, object[o])
        BY <1>2 DEF PluginInv, HoldOK
      <4> QED
        BY <1>1, <1>3, <1>4, <1>6, <3>1, <4>1 DEF Reserving
    <3>2. CASE u # t
      BY <1>1, <1>6, <3>2 DEF Reserving, PluginInv, HoldOK
    <3> QED
      BY <3>1, <3>2
  <2>3. ASSUME NEW u \in Threads, my'[u].made # None
        PROVE  /\ object'[my'[u].made] # None
               /\ object'[my'[u].made].base = my'[u].image.base
               /\ my'[u].made # my'[u].source
               /\ \A v \in Threads : v # u => my'[u].made \notin {my'[v].made, my'[v].source}
    <3>1. CASE u = t
      BY <1>1, <1>2, <1>3, <1>6, <1>7, <3>1
    <3>2. CASE u # t
      <4>1. my'[u] = my[u] /\ my[u].made # None
        BY <1>6, <2>3, <3>2
      <4>2. /\ object[my[u].made] # None /\ object[my[u].made].base = my[u].image.base
            /\ my[u].made # my[u].source
            /\ \A v \in Threads : v # u => my[u].made \notin {my[v].made, my[v].source}
        BY <4>1 DEF PluginInv, HoldOK
      <4> QED
        BY <1>1, <1>3, <1>6, <1>7, <4>1, <4>2
    <3> QED
      BY <3>1, <3>2
  <2>4. ASSUME NEW u \in Threads, my'[u].source # None
        PROVE  object'[my'[u].source] # None /\ object'[my'[u].source].base = my'[u].image.base
    <3>1. u # t /\ my'[u] = my[u]
      BY <1>3, <1>6, <2>4
    <3> QED
      BY <1>1, <2>4, <3>1 DEF PluginInv, HoldOK
  <2> QED
    BY <2>1, <2>2, <2>3, <2>4 DEF HoldOK
<1>9. Kept
  BY <1>1 DEF Kept
<1>10. LiveOK'
  <2>1. (\A b, d : ~Owes(t, b, d)) /\ (\A s : ~Reserves(t, s))
    BY <1>1, <1>4, RestOwesNothing
  <2>2. \A b, d : Owes(t, b, d)' <=> Owes(t, b, d)
    BY <1>6, <2>1 DEF Owes
  <2>3. \A s \in Slots : Reserves(t, s)' <=> Reserves(t, s)
    BY <1>3, <1>6, <2>1 DEF Reserves
  <2> QED
    BY <1>1, <1>6, <1>9, <2>2, <2>3, LiveKept DEF PluginInv
<1> QED
  BY <1>1, <1>3, <1>4, <1>5, <1>8, <1>9, <1>10, InsideInv DEF PluginInv, PluginShape

\* The object o goes, which no thread names from then on.
LEMMA GoneHold ==
  ASSUME PluginInv, NEW t \in Threads, NEW o \in Objects,
         \A u \in Threads : u # t => at'[u] = at[u] /\ my'[u] = my[u],
         slots' = slots, object' = [object EXCEPT ![o] = None],
         \A u \in Threads : u # t => my[u].made # o /\ my[u].source # o,
         my'[t].made = None, my'[t].source = my[t].source, my'[t].image = my[t].image,
         my[t].source # o, my'[t].slot = my[t].slot, my'[t].after = my[t].after,
         at'[t] \in Coding => at[t] \in Coding, at'[t] \notin {"init", "give"}
  PROVE  HoldOK'
<1>1. /\ \A y \in Objects : object'[y] = IF y = o THEN None ELSE object[y]
  BY DEF PluginInv, PluginShape
<1>2. \A y \in Objects : object'[y] # None => HasSlot(slots', object'[y])
  BY <1>1 DEF PluginInv, HoldOK
<1>3. ASSUME NEW u \in Threads
      PROVE  /\ at'[u] \in Coding => HasSlot(slots', my'[u].image)
             /\ Reserving(u)' => SlotOf(slots', my'[u].slot, my'[u].image)
  <2>1. CASE u = t
    BY <2>1 DEF Reserving, PluginInv, HoldOK
  <2>2. CASE u # t
    BY <2>2 DEF Reserving, PluginInv, HoldOK
  <2> QED
    BY <2>1, <2>2
<1>4. ASSUME NEW u \in Threads, my'[u].made # None
      PROVE  /\ object'[my'[u].made] # None
             /\ object'[my'[u].made].base = my'[u].image.base
             /\ my'[u].made # my'[u].source
             /\ \A v \in Threads : v # u => my'[u].made \notin {my'[v].made, my'[v].source}
  <2>1. u # t /\ my'[u] = my[u]
    BY <1>4
  <2>2. /\ object[my[u].made] # None /\ object[my[u].made].base = my[u].image.base
        /\ my[u].made # my[u].source
        /\ \A v \in Threads : v # u => my[u].made \notin {my[v].made, my[v].source}
    BY <1>4, <2>1 DEF PluginInv, HoldOK
  <2>3. my[u].made \in Objects /\ my[u].made # o
    BY <1>4, <2>1, NamedExist
  <2> QED
    BY <1>1, <1>4, <2>1, <2>2, <2>3
<1>5. ASSUME NEW u \in Threads, my'[u].source # None
      PROVE  object'[my'[u].source] # None /\ object'[my'[u].source].base = my'[u].image.base
  <2>1. my'[u].source = my[u].source /\ my'[u].image = my[u].image /\ my[u].source # o
    OBVIOUS
  <2>2. my[u].source \in Objects
    BY <1>5, <2>1, NamedExist
  <2> QED
    BY <1>1, <1>5, <2>1, <2>2 DEF PluginInv, HoldOK
<1> QED
  BY <1>2, <1>3, <1>4, <1>5 DEF HoldOK

LEMMA FreedInv ==
  ASSUME PluginInv, NEW t \in Threads, Freed(t)
  PROVE  PluginInv'
<1> DEFINE o == my[t].made
           x == [my[t] EXCEPT !.made = None]
<1>1. /\ at[t] = "teardown" /\ Go(t, "hook", x) /\ object' = [object EXCEPT ![o] = None]
      /\ UNCHANGED <<refs, base, openCount, slots, handle, left>>
  BY DEF Freed, platform, loaded
<1>2. my[t] \in Locals /\ CallOK("teardown", my[t])
  BY <1>1 DEF PluginInv, PluginShape, CallsOK
<1>3. /\ o # None /\ my[t].delta = -1 /\ my[t].image # None /\ my[t].after = "idle"
      /\ my[t].owner = None /\ my[t].lib = None
  <2>1. my[t].after # "give" /\ my[t].owner = None /\ my[t].lib = None
    BY <1>2 DEF CallOK, Hooking, Owning
  <2>2. my[t].after \in {"idle", "give"}
    BY <1>2 DEF Locals
  <2> QED
    BY <1>2, <2>1, <2>2 DEF CallOK, Coding
<1>4. o \in Objects /\ object[o] # None /\ object[o].base = my[t].image.base
  BY <1>3, NamedExist DEF PluginInv, HoldOK
<1>5. /\ x \in Locals /\ x.owner = None /\ x.lib = None /\ x.slot = my[t].slot
      /\ x.image = my[t].image /\ x.made = None /\ x.source = my[t].source
      /\ x.delta = -1 /\ x.after = "idle"
  BY <1>2, <1>3 DEF Locals
<1>6. /\ my[t].source # o
      /\ \A u \in Threads : u # t => my[u].made # o /\ my[u].source # o
  BY <1>3 DEF PluginInv, HoldOK
<1>7. /\ "hook" \in Places \ Owning /\ "hook" \in Hooking /\ "hook" \in Coding
      /\ "hook" \notin {"init", "give"} /\ "teardown" \notin Hooking \cup {"init", "give"}
      /\ "teardown" \notin Owning /\ "teardown" \in Coding
  BY DEF Places, Owning, Hooking, Coding
<1> HIDE DEF x, o
<1>8. CallOK("hook", x)
  BY <1>3, <1>5, <1>7 DEF CallOK
<1>9. /\ at'[t] = "hook" /\ my'[t] = x
      /\ \A u \in Threads : u # t => at'[u] = at[u] /\ my'[u] = my[u]
  BY <1>1, <1>5, <1>7, <1>8, GoFacts DEF PluginInv
<1>10. HoldOK'
  <2>1. /\ my'[t].made = None /\ my'[t].source = my[t].source /\ my'[t].image = my[t].image
        /\ my'[t].slot = my[t].slot /\ my'[t].after = my[t].after
    BY <1>3, <1>5, <1>9
  <2>2. at'[t] \in Coding => at[t] \in Coding
    BY <1>1, <1>7
  <2>3. at'[t] \notin {"init", "give"} /\ slots' = slots
    BY <1>1, <1>7, <1>9
  <2> QED
    BY <1>1, <1>4, <1>6, <1>9, <2>1, <2>2, <2>3, GoneHold
<1>11. /\ object' \in [Objects -> Images \cup {None}] /\ object'[o] = None
       /\ \A y \in Objects : y # o => object'[y] = object[y]
  BY <1>1, <1>4 DEF PluginInv, PluginShape
<1>12. ASSUME NEW r \in Used PROVE Balance(t, o, "hook", x, r, slots[r].base)
  <2> DEFINE b == slots[r].base
  <2>1. /\ ~InBase(object', o, b) /\ (InBase(object, o, b) <=> my[t].image.base = b)
        /\ ~OwesIn("hook", x, b, 1) /\ (OwesIn("hook", x, b, -1) <=> my[t].image.base = b)
    BY <1>4, <1>5, <1>7, <1>11 DEF InBase, OwesIn
  <2>2. ~OwesIn(at[t], my[t], b, 1) /\ ~OwesIn(at[t], my[t], b, -1)
    BY <1>1, <1>7 DEF OwesIn
  <2>3. ~ReservesIn("hook", x, r) /\ ~ReservesIn(at[t], my[t], r)
    BY <1>1, <1>3, <1>5 DEF ReservesIn
  <2>4. /\ slots[r].live \in Int /\ left[r] \in Nat /\ left' = left
        /\ slots'[r].live = slots[r].live
    BY <1>1, UsedFacts DEF PluginInv, PluginShape, Used
  <2> HIDE DEF b
  <2>5. Balance(t, o, "hook", x, r, b)
    BY <2>1, <2>2, <2>3, <2>4 DEF Balance, One
  <2> QED
    BY <2>5 DEF b
<1>13. Kept
  BY <1>1 DEF Kept
<1>14. LiveOK'
  BY <1>1, <1>9, <1>11, <1>12, <1>13, LiveMoves DEF PluginInv, PluginShape
<1> QED
  BY <1>1, <1>5, <1>7, <1>8, <1>10, <1>11, <1>13, <1>14, InsideInv DEF PluginInv, PluginShape

LEMMA DestroyInv ==
  ASSUME PluginInv, NEW t \in Threads, NEW o \in Objects, Destroy(t, o)
  PROVE  PluginInv'
<1> DEFINE x == my[t]
<1>1. /\ at[t] = "idle" /\ Idle(o) /\ object' = [object EXCEPT ![o] = None]
      /\ UNCHANGED <<refs, base, openCount, slots, handle, at, my>>
  BY DEF Destroy, platform, loaded
<1>2. object[o] # None /\ \A u \in Threads : my[u].made # o /\ my[u].source # o
  BY <1>1 DEF Idle
<1>3. x \in Locals /\ CallOK("idle", x) /\ at \in [Threads -> Places] /\ my \in [Threads -> Locals]
  BY <1>1 DEF PluginInv, PluginShape, CallsOK
<1>4. Go(t, "idle", x)
  BY <1>1, <1>3 DEF Go
<1>5. x.made = None /\ "idle" \in Places \ Owning /\ "idle" \notin {"init", "give"}
      /\ "idle" \notin Hooking \cup Coding
  BY <1>3, IdleCall DEF CallOK, Hooking, Coding
<1>6. HoldOK'
  <2>1. my' = my /\ at' = at /\ slots' = slots /\ my[t].made = None
    BY <1>1, <1>5
  <2>2. at'[t] \notin {"init", "give"} /\ (at'[t] \in Coding => at[t] \in Coding)
    BY <1>1, <2>1
  <2>3. /\ my'[t].made = None /\ my'[t].source = my[t].source /\ my'[t].image = my[t].image
        /\ my'[t].slot = my[t].slot /\ my'[t].after = my[t].after
    BY <2>1
  <2>4. /\ \A u \in Threads : u # t => at'[u] = at[u] /\ my'[u] = my[u]
        /\ \A u \in Threads : u # t => my[u].made # o /\ my[u].source # o
        /\ my[t].source # o /\ object' = [object EXCEPT ![o] = None]
    BY <1>1, <1>2, <2>1
  <2> HIDE DEF x
  <2> QED
    BY <2>1, <2>2, <2>3, <2>4, GoneHold
<1>7. /\ object' \in [Objects -> Images \cup {None}] /\ object'[o] = None
      /\ \A y \in Objects : y # o => object'[y] = object[y]
  BY <1>1 DEF PluginInv, PluginShape
<1>8. /\ left' \in [Slots -> Nat]
      /\ \A s \in Slots : left'[s] = left[s] + One(s \in Used /\ slots[s].base = object[o].base)
  <2>1. left' = [s \in Slots |-> IF s \in Used /\ slots[s].base = object[o].base
                                 THEN left[s] + 1 ELSE left[s]]
    BY DEF Destroy
  <2>2. left \in [Slots -> Nat]
    BY DEF PluginInv, PluginShape
  <2> QED
    BY <2>1, <2>2 DEF One
<1>9. ASSUME NEW r \in Used PROVE Balance(t, o, "idle", x, r, slots[r].base)
  <2> DEFINE b == slots[r].base
  <2>1. ~InBase(object', o, b) /\ (InBase(object, o, b) <=> object[o].base = b)
    BY <1>2, <1>7 DEF InBase
  <2>2. /\ OwesIn("idle", x, b, 1) <=> OwesIn(at[t], my[t], b, 1)
        /\ OwesIn("idle", x, b, -1) <=> OwesIn(at[t], my[t], b, -1)
        /\ ReservesIn("idle", x, r) <=> ReservesIn(at[t], my[t], r)
    BY <1>1
  <2>3. /\ slots[r].live \in Int /\ left[r] \in Nat /\ r \in Slots
        /\ slots'[r].live = slots[r].live
    BY <1>1, UsedFacts DEF PluginInv, PluginShape, Used
  <2>4. left'[r] = left[r] + One(object[o].base = b)
    BY <1>8, <2>3 DEF One
  <2> HIDE DEF b
  <2>5. Balance(t, o, "idle", x, r, b)
    BY <2>1, <2>2, <2>3, <2>4 DEF Balance, One
  <2> QED
    BY <2>5 DEF b
<1>10. Kept
  BY <1>1 DEF Kept
<1>11. \A s \in Slots \ Used : left'[s] = left[s]
  <2>1. left \in [Slots -> Nat]
    BY DEF PluginInv, PluginShape
  <2> QED
    BY <1>8, <2>1 DEF One
<1>12. LiveOK'
  BY <1>1, <1>7, <1>8, <1>9, <1>10, <1>11, LiveMoves DEF PluginInv
<1> QED
  BY <1>1, <1>3, <1>4, <1>5, <1>6, <1>7, <1>8, <1>10, <1>12, InsideInv DEF PluginInv, PluginShape

-----------------------------------------------------------------------------
(* The hook counts *)

LEMMA CountSlotInv ==
  ASSUME PluginInv, NEW t \in Threads, CountSlot(t)
  PROVE  PluginInv'
<1> DEFINE d == my[t].delta
           i == my[t].image
           those == {r \in Used : slots[r].base = my[t].found}
<1>1. /\ at[t] = "count"
      /\ UNCHANGED <<refs, base, openCount, left, handle, object>>
  BY DEF CountSlot, platform
<1>2. my[t] \in Locals /\ CallOK("count", my[t])
  BY <1>1 DEF PluginInv, PluginShape, CallsOK
<1>3. /\ "count" \in Hooking /\ "count" \in Coding /\ "count" \notin {"init", "give"}
      /\ "give" \in Coding /\ "give" \in Places \ Owning
      /\ "count" \notin Owning /\ "give" \notin Hooking /\ "idle" \notin Hooking
      /\ "idle" \notin Coding
  BY DEF Hooking, Coding, Owning, Places
<1>4. /\ my[t].found = i.base /\ i # None /\ d \in {-1, 1}
      /\ my[t].after = "give" => my[t].slot # None
  BY <1>2, <1>3 DEF CallOK
<1>5. i \in Images /\ HasSlot(slots, i)
  BY <1>1, <1>2, <1>3, <1>4 DEF Locals, PluginInv, HoldOK
<1>6. PICK s \in Slots : SlotOf(slots, s, i)
  BY <1>5 DEF HasSlot
<1>7. s \in Used /\ slots[s].base = i.base
  BY <1>6 DEF SlotOf, Used
<1>8. \A r \in Used : slots[r].base = i.base <=> r = s
  BY <1>7, OneSlot DEF PluginInv
<1>9. Counted(s, d)
  <2>1. slots' = [r \in Slots |-> IF r \in those /\ \A q \in those : r <= q
                                  THEN [slots[r] EXCEPT !.live = @ + d] ELSE slots[r]]
    BY DEF CountSlot
  <2>2. those = {s}
    BY <1>4, <1>7, <1>8
  <2>3. s \in Int
    BY DEF Slots
  <2>4. \A r \in Slots : (r \in those /\ \A q \in those : r <= q) <=> r = s
    BY <2>2, <2>3
  <2> HIDE DEF those, d
  <2> QED
    BY <2>1, <2>4 DEF Counted
<1>10. PICK p \in {"give", "idle"}, x \in {my[t], NoCall} :
         /\ Go(t, p, x)
         /\ p = "give" => my[t].after = "give" /\ x = my[t]
         /\ p = "idle" => my[t].after # "give" /\ x = NoCall
  <2>1. CASE my[t].after = "give"
    BY <2>1 DEF CountSlot
  <2>2. CASE my[t].after # "give"
    BY <2>2 DEF CountSlot, Return
  <2> QED
    BY <2>1, <2>2
<1>11. /\ slots' \in [Slots -> {None} \cup Structs] /\ Kept
       /\ \A r \in Used : /\ slots'[r].loads = slots[r].loads
                          /\ slots'[r].live = slots[r].live + (IF r = s THEN d ELSE 0)
  <2>1. d \in Int
    BY <1>4
  <2> HIDE DEF d
  <2> QED
    BY <1>7, <1>9, <2>1, CountedFacts DEF PluginInv
<1>12. /\ x \in Locals /\ CallOK(p, x) /\ p \in Places \ Owning /\ p \notin Hooking
  <2>1. CASE p = "give"
    BY <1>2, <1>3, <1>4, <1>10, <2>1 DEF CallOK, Owning
  <2>2. CASE p = "idle"
    BY <1>3, <1>10, <2>2, IdleCall
  <2> QED
    BY <1>10, <2>1, <2>2
<1>13. /\ at'[t] = p /\ my'[t] = x
       /\ \A u \in Threads : u # t => at'[u] = at[u] /\ my'[u] = my[u]
  BY <1>10, <1>12, GoFacts DEF PluginInv
<1>14. \A r, image : SlotOf(slots', r, image) <=> SlotOf(slots, r, image)
  BY <1>11, KeptFacts
<1>15. p = "give" => SlotOf(slots, x.slot, x.image)
  BY <1>1, <1>10 DEF PluginInv, HoldOK, Reserving
<1>16. HoldOK'
  <2>1. p \in Coding => HasSlot(slots', x.image)
    BY <1>3, <1>5, <1>6, <1>10, <1>14 DEF HasSlot
  <2>2. p \in {"init", "give"} \/ x.after = "give" => SlotOf(slots', x.slot, x.image)
    BY <1>10, <1>14, <1>15, IdleCall
  <2>3. /\ x.made = None \/ (x.made = my[t].made /\ x.image = my[t].image)
        /\ x.source = None \/ (x.source = my[t].source /\ x.image = my[t].image)
    BY <1>10, IdleCall
  <2> QED
    BY <1>1, <1>13, <1>14, <2>1, <2>2, <2>3, HoldKept DEF PluginInv
<1>17. ASSUME NEW r \in Used PROVE Balance(t, None, p, x, r, slots[r].base)
  <2> DEFINE b == slots[r].base
  <2>1. ~OwesIn(p, x, b, 1) /\ ~OwesIn(p, x, b, -1)
    BY <1>12 DEF OwesIn
  <2>2. /\ OwesIn(at[t], my[t], b, 1) <=> (r = s /\ d = 1)
        /\ OwesIn(at[t], my[t], b, -1) <=> (r = s /\ d = -1)
    BY <1>1, <1>3, <1>8 DEF OwesIn
  <2>3. ReservesIn(p, x, r) <=> ReservesIn(at[t], my[t], r)
    BY <1>1, <1>10, IdleCall DEF ReservesIn
  <2>4. InBase(object', None, b) <=> InBase(object, None, b)
    BY <1>1
  <2>5. slots[r].live \in Int /\ left[r] \in Nat /\ left' = left
    BY <1>1, UsedFacts DEF PluginInv, PluginShape, Used
  <2>6. slots'[r].live = slots[r].live + (IF r = s THEN d ELSE 0)
    BY <1>11
  <2> HIDE DEF b, d
  <2>7. Balance(t, None, p, x, r, b)
    <3>1. CASE r # s
      BY <2>1, <2>2, <2>3, <2>4, <2>5, <2>6, <3>1 DEF Balance, One
    <3>2. CASE r = s /\ d = 1
      BY <2>1, <2>2, <2>3, <2>4, <2>5, <2>6, <3>2 DEF Balance, One
    <3>3. CASE r = s /\ d = -1
      BY <2>1, <2>2, <2>3, <2>4, <2>5, <2>6, <3>3 DEF Balance, One
    <3> QED
      BY <1>4, <3>1, <3>2, <3>3
  <2> QED
    BY <2>7 DEF b
<1>18. LiveOK'
  BY <1>1, <1>11, <1>13, <1>17, LiveMoves DEF PluginInv, PluginShape
<1> QED
  BY <1>1, <1>3, <1>10, <1>11, <1>12, <1>16, <1>18, InsideInv DEF PluginInv, PluginShape

-----------------------------------------------------------------------------
(* Steps of load and unload *)

\* How many loads of slot r there are by the slots S.
NumberOf(S, r) == IF S[r] # None THEN S[r].loads ELSE 0

\* A Library whose handle is h, with the call on it at p with the locals x, loads r.
OwnIn(h, p, x, r) == (h = r /\ p # "closeGone") \/ (p = "closeLoad" /\ x.slot = r)

\* When the loads of each slot follow the Library w, the loads are the owners.
LEMMA OwnMoves ==
  ASSUME PluginInv, NEW t \in Threads, NEW w \in Owners, CallsOK',
         \A u \in Threads : u # t => at'[u] = at[u] /\ my'[u] = my[u] /\ my[u].owner # w,
         my[t].owner \in {w, None}, my'[t].owner \in {w, None},
         \A v \in Owners : v # w => handle'[v] = handle[v],
         at'[t] \in {"claim", "closeLoad"} => handle'[w] = None,
         at'[t] \in {"unload", "closeGone"} => handle'[w] = my'[t].slot,
         \A r \in Slots : NumberOf(slots', r) =
             NumberOf(slots, r) + One(OwnIn(handle'[w], at'[t], my'[t], r))
                                - One(OwnIn(handle[w], at[t], my[t], r))
  PROVE  OwnersOK' /\ LoadsAreOwners'
<1>1. w # None
  BY PluginsAssumption
<1>2. /\ my[t].owner # None <=> at[t] \in Owning
      /\ my'[t].owner # None <=> at'[t] \in Owning
  BY DEF PluginInv, CallsOK, CallOK
<1>3. OwnersOK'
  <2>1. \A u, v \in Threads : my'[u].owner = my'[v].owner /\ my'[u].owner # None => u = v
    BY <1>1 DEF PluginInv, OwnersOK
  <2>2. ASSUME NEW u \in Threads
        PROVE  /\ at'[u] \in {"claim", "closeLoad"} => handle'[my'[u].owner] = None
               /\ at'[u] \in {"unload", "closeGone"} => handle'[my'[u].owner] = my'[u].slot
    <3>1. CASE u = t
      BY <1>2, <3>1 DEF Owning
    <3>2. CASE u # t
      <4>1. my[u] \in Locals /\ (my[u].owner # None <=> at[u] \in Owning)
        BY DEF PluginInv, PluginShape, CallsOK, CallOK
      <4>2. at[u] \in Owning => my[u].owner \in Owners
        BY <4>1 DEF Locals
      <4> QED
        BY <3>2, <4>2 DEF Owning, PluginInv, OwnersOK
    <3> QED
      BY <3>1, <3>2
  <2> QED
    BY <2>1, <2>2 DEF OwnersOK
<1>4. ASSUME NEW r \in Slots
      PROVE  Cardinality({v \in Owners : Loads(v, r)'}) = NumberOf(slots', r)
  <2> DEFINE A == {v \in Owners : Loads(v, r)}
             B == {v \in Owners : Loads(v, r)'}
  <2>1. w \in A <=> OwnIn(handle[w], at[t], my[t], r)
    BY <1>1, <1>2 DEF Loads, OwnIn, Owning
  <2>2. w \in B <=> OwnIn(handle'[w], at'[t], my'[t], r)
    BY <1>1, <1>2 DEF Loads, OwnIn, Owning
  <2>3. \A v : v # w => (v \in B <=> v \in A)
    <3>1. ASSUME NEW v \in Owners, v # w PROVE Loads(v, r)' <=> Loads(v, r)
      <4>1. my[t].owner # v /\ my'[t].owner # v /\ v # None
        BY <3>1, PluginsAssumption
      <4> QED
        BY <3>1, <4>1 DEF Loads
    <3> QED
      BY <3>1
  <2>4. A \subseteq Owners /\ B \subseteq Owners
    OBVIOUS
  <2>5. Cardinality(A) = NumberOf(slots, r)
    BY DEF PluginInv, LoadsAreOwners, NumberOf, Used
  <2>6. NumberOf(slots', r) = NumberOf(slots, r) + One(w \in B) - One(w \in A)
    BY <2>1, <2>2 DEF One
  <2> HIDE DEF A, B
  <2>7. IsFiniteSet(A) /\ IsFiniteSet(B)
    BY <2>4, FiniteIn
  <2>8. Cardinality(B) = Cardinality(A) + One(w \in B) - One(w \in A)
    BY <2>3, <2>7, CountMoves
  <2> QED
    BY <2>5, <2>6, <2>8 DEF B
<1> QED
  BY <1>3, <1>4 DEF LoadsAreOwners, NumberOf, Used

\* When the opens of f follow its slot s and the call of t, they stay exact.
LEMMA OpenMoves ==
  ASSUME PluginInv, NEW t \in Threads, NEW f \in Libs, NEW s,
         \A u \in Threads : u # t => my'[u].lib = my[u].lib,
         \A g \in Libs : g # f => refs'[g] = refs[g],
         \A r \in Slots : r # s => slots'[r] = slots[r],
         my[t].lib \in {f, None}, my'[t].lib \in {f, None},
         s \in Used => slots[s].lib = f, s \in Used' => slots'[s].lib = f,
         refs'[f] = refs[f] + One(my'[t].lib = f) - One(my[t].lib = f)
                            + One(s \in Used') - One(s \in Used),
         openCount' = openCount + One(s \in Used') - One(s \in Used)
  PROVE  OpensOK'
<1>1. f # None
  BY PluginsAssumption
<1>2. \A r : r # s => (r \in Used' <=> r \in Used)
  BY DEF Used
<1>3. Used \subseteq Slots /\ Used' \subseteq Slots
  BY DEF Used
<1>4. openCount' = Cardinality(Used')
  <2> DEFINE A == Used
             B == Used'
  <2>1. openCount = Cardinality(A)
    BY DEF PluginInv, OpensOK
  <2>2. IsFiniteSet(A) /\ IsFiniteSet(B)
    BY <1>3, FiniteIn
  <2>3. Cardinality(B) = Cardinality(A) + One(s \in B) - One(s \in A)
    BY <1>2, <2>2, CountMoves
  <2> QED
    BY <2>1, <2>3
<1>5. ASSUME NEW g \in Libs
      PROVE  refs'[g] = Cardinality(SlotsFor(g)') + Cardinality(Holders(g)')
  <2> DEFINE A == SlotsFor(g)
             B == SlotsFor(g)'
             H == Holders(g)
             K == Holders(g)'
  <2>1. /\ A \subseteq Slots /\ B \subseteq Slots /\ H \subseteq Threads /\ K \subseteq Threads
    BY DEF SlotsFor, Holders
  <2>2. \A r : r # s => (r \in B <=> r \in A)
    BY <1>2 DEF SlotsFor
  <2>3. \A u : u # t => (u \in K <=> u \in H)
    BY DEF Holders
  <2>4. refs[g] = Cardinality(A) + Cardinality(H)
    BY DEF PluginInv, OpensOK
  <2>5. /\ s \in A <=> (s \in Used /\ g = f)
        /\ s \in B <=> (s \in Used' /\ g = f)
    BY <1>3 DEF SlotsFor
  <2>6. /\ t \in H <=> (my[t].lib = f /\ g = f)
        /\ t \in K <=> (my'[t].lib = f /\ g = f)
    BY PluginsAssumption DEF Holders
  <2> HIDE DEF A, B, H, K
  <2>7. /\ IsFiniteSet(A) /\ IsFiniteSet(B) /\ IsFiniteSet(H) /\ IsFiniteSet(K)
        /\ Cardinality(A) \in Nat /\ Cardinality(H) \in Nat
    BY <2>1, FiniteIn
  <2>8. /\ Cardinality(B) = Cardinality(A) + One(s \in B) - One(s \in A)
        /\ Cardinality(K) = Cardinality(H) + One(t \in K) - One(t \in H)
    BY <2>2, <2>3, <2>7, CountMoves
  <2> DEFINE a == Cardinality(A)
             h == Cardinality(H)
  <2>9. CASE g = f
    <3>1. refs'[g] = refs[g] + One(t \in K) - One(t \in H) + One(s \in B) - One(s \in A)
      BY <2>5, <2>6, <2>9 DEF One
    <3> DEFINE k1 == One(t \in K)
               k0 == One(t \in H)
               b1 == One(s \in B)
               b0 == One(s \in A)
    <3>2. k1 \in Nat /\ k0 \in Nat /\ b1 \in Nat /\ b0 \in Nat
      BY DEF One
    <3> HIDE DEF k1, k0, b1, b0, a, h
    <3>3. refs'[g] = a + h + k1 - k0 + b1 - b0
      BY <2>4, <3>1 DEF k1, k0, b1, b0, a, h
    <3>4. Cardinality(B) = a + b1 - b0 /\ Cardinality(K) = h + k1 - k0
      BY <2>8 DEF k1, k0, b1, b0, a, h
    <3>5. a \in Nat /\ h \in Nat
      BY <2>7 DEF a, h
    <3>6. refs'[g] = Cardinality(B) + Cardinality(K)
      BY <3>2, <3>3, <3>4, <3>5
    <3> QED
      BY <3>6 DEF B, K
  <2>10. CASE g # f
    <3>1. s \notin A /\ s \notin B /\ t \notin H /\ t \notin K /\ refs'[g] = refs[g]
      BY <2>5, <2>6, <2>10
    <3>2. Cardinality(B) = Cardinality(A) /\ Cardinality(K) = Cardinality(H)
      BY <2>7, <2>8, <3>1 DEF One
    <3>3. refs'[g] = Cardinality(B) + Cardinality(K)
      BY <2>4, <3>1, <3>2
    <3> QED
      BY <3>3 DEF B, K
  <2> QED
    BY <2>9, <2>10
<1> QED
  BY <1>4, <1>5 DEF OpensOK

\* Outside the code of libraries a thread names no object.
LEMMA NotCoding ==
  ASSUME NEW p, NEW x \in Locals, CallOK(p, x), p \notin Coding
  PROVE  x.made = None /\ x.source = None /\ x.after = "idle"
<1>1. p \notin Hooking \cup {"init", "give", "teardown"}
  BY DEF Coding
<1>2. x.made = None /\ x.source = None /\ x.after # "give"
  BY <1>1 DEF CallOK
<1> QED
  BY <1>2 DEF Locals

LEMMA LoaderInv ==
  ASSUME PluginInv, NEW t \in Threads, NEW p \in Places \ Coding, NEW x \in Locals,
         CallOK(p, x), Go(t, p, x), UNCHANGED <<object, left>>,
         refs' \in [Libs -> Nat], base' \in [Libs -> Bases \cup {None}],
         slots' \in [Slots -> {None} \cup Structs],
         handle' \in [Owners -> Slots \cup {None}],
         HoldOK', PlatformOK', OpensOK', OwnersOK', LoadsAreOwners', LiveOK'
  PROVE  PluginInv'
<1>1. /\ at' \in [Threads -> Places] /\ my' \in [Threads -> Locals] /\ CallsOK'
  BY GoFacts DEF PluginInv
<1>2. openCount' \in Nat
  <2>1. Used' \subseteq Slots
    BY DEF Used
  <2>2. openCount' = Cardinality(Used')
    BY DEF OpensOK
  <2> QED
    BY <2>1, <2>2, FiniteIn
<1>3. PluginShape'
  BY <1>1, <1>2 DEF PluginInv, PluginShape
<1> QED
  BY <1>1, <1>3 DEF PluginInv

\* A step of load or unload that leaves the slots and their live counts.
LEMMA LoaderHolds ==
  ASSUME PluginInv, NEW t \in Threads, NEW p \in Places \ Coding, NEW x \in Locals,
         CallOK(p, x), Go(t, p, x), at[t] \notin Coding, UNCHANGED <<object, left>>,
         Kept, \A s \in Used : slots'[s].live = slots[s].live
  PROVE  HoldOK' /\ LiveOK'
<1>1. x.made = None /\ x.source = None /\ x.after = "idle"
  BY NotCoding
<1>2. /\ at'[t] = p /\ my'[t] = x
      /\ \A u \in Threads : u # t => at'[u] = at[u] /\ my'[u] = my[u]
  BY GoFacts DEF PluginInv
<1>3. /\ at[t] \notin Hooking \cup {"init", "give"} /\ p \notin {"init", "give"}
      /\ p \notin Hooking
  BY DEF Coding
<1>4. HoldOK'
  <2>1. \A s, image : SlotOf(slots, s, image) => SlotOf(slots', s, image)
    BY KeptFacts
  <2> QED
    BY <1>1, <1>2, <1>3, <2>1, HoldKept DEF PluginInv
<1>5. \A b, d : Owes(t, b, d)' <=> Owes(t, b, d)
  BY <1>2, <1>3, RestOwesNothing DEF Owes, Hooking
<1>6. \A s \in Slots : Reserves(t, s)' <=> Reserves(t, s)
  BY <1>1, <1>2, <1>3, RestOwesNothing DEF Reserves
<1> QED
  BY <1>2, <1>4, <1>5, <1>6, LiveKept DEF PluginInv

LEMMA NumberType ==
  ASSUME PluginShape, NEW r \in Slots
  PROVE  NumberOf(slots, r) \in Nat /\ r # None /\ (r \in Used => NumberOf(slots, r) # 0)
<1>1. slots[r] # None => slots[r].loads \in Nat \ {0}
  BY UsedFacts DEF Used
<1>2. r # None
  BY PluginsAssumption DEF Slots
<1> QED
  BY <1>1, <1>2 DEF NumberOf, Used

\* The platform opens f.
LEMMA OpenFacts ==
  ASSUME PluginInv, NEW f \in Libs, Open(f), slots' = slots
  PROVE  /\ refs' \in [Libs -> Nat] /\ base' \in [Libs -> Bases \cup {None}]
         /\ \A g \in Libs : refs'[g] = IF g = f THEN refs[g] + 1 ELSE refs[g]
         /\ PlatformOK'
<1>1. /\ refs \in [Libs -> Nat] /\ base \in [Libs -> Bases \cup {None}]
      /\ refs' = [refs EXCEPT ![f] = @ + 1]
  BY DEF PluginInv, PluginShape, Open
<1>2. /\ refs' \in [Libs -> Nat]
      /\ \A g \in Libs : refs'[g] = IF g = f THEN refs[g] + 1 ELSE refs[g]
  BY <1>1
<1>3. PICK b \in Bases : /\ base' = [base EXCEPT ![f] = b]
                         /\ b = base[f] \/ (base[f] = None /\ \A g \in Libs : base[g] # b)
  <2>1. CASE refs[f] > 0
    <3>1. base' = base /\ base[f] # None
      BY <1>1, <2>1 DEF Open, PluginInv, PlatformOK
    <3> QED
      BY <1>1, <3>1
  <2>2. CASE ~(refs[f] > 0)
    <3>1. base[f] = None
      BY <1>1, <2>2 DEF PluginInv, PlatformOK
    <3> QED
      BY <2>2, <3>1 DEF Open
  <2> QED
    BY <2>1, <2>2
<1>4. b # None
  BY PluginsAssumption
<1>5. base' \in [Libs -> Bases \cup {None}] /\ \A g \in Libs : base'[g] = IF g = f THEN b ELSE base[g]
  BY <1>1, <1>3
<1>6. PlatformOK'
  <2>1. \A g \in Libs : base'[g] = None <=> refs'[g] = 0
    BY <1>1, <1>2, <1>4, <1>5 DEF PluginInv, PlatformOK
  <2>2. \A g, h \in Libs : base'[g] = base'[h] /\ base'[g] # None => g = h
    BY <1>3, <1>4, <1>5 DEF PluginInv, PlatformOK
  <2>3. Used' = Used
    BY DEF Used
  <2>4. ASSUME NEW s \in Used PROVE base'[slots'[s].lib] = slots'[s].base
    <3>1. slots[s].lib \in Libs /\ slots[s].base # None /\ base[slots[s].lib] = slots[s].base
      BY UsedFacts DEF PluginInv, PlatformOK
    <3> QED
      BY <1>3, <1>5, <3>1
  <2>5. \A s, r \in Used : slots'[s].lib = slots'[r].lib => s = r
    BY DEF PluginInv, PlatformOK
  <2> QED
    BY <2>1, <2>2, <2>3, <2>4, <2>5 DEF PlatformOK
<1> QED
  BY <1>2, <1>5, <1>6

\* A call gives back what it holds open: the platform keeps what a slot stands for.
LEMMA CloseFacts ==
  ASSUME PluginInv, NEW t \in Threads, NEW f \in Libs, my[t].lib = f, Close(f),
         slots' = slots
  PROVE  /\ refs' \in [Libs -> Nat] /\ base' \in [Libs -> Bases \cup {None}]
         /\ \A g \in Libs : refs'[g] = IF g = f THEN refs[g] - 1 ELSE refs[g]
         /\ PlatformOK'
<1>1. /\ refs \in [Libs -> Nat] /\ base \in [Libs -> Bases \cup {None}]
      /\ refs' = [refs EXCEPT ![f] = @ - 1]
      /\ base' = [base EXCEPT ![f] = IF refs[f] = 1 THEN None ELSE @]
  BY DEF PluginInv, PluginShape, Close
<1>2. /\ refs[f] >= 1
      /\ (\E s \in Used : slots[s].lib = f) => refs[f] >= 2
  <2> DEFINE A == SlotsFor(f)
             H == Holders(f)
  <2>1. A \subseteq Slots /\ H \subseteq Threads /\ t \in H
    BY DEF SlotsFor, Holders
  <2>2. refs[f] = Cardinality(A) + Cardinality(H)
    BY DEF PluginInv, OpensOK
  <2>3. (\E s \in Used : slots[s].lib = f) => A # {}
    BY DEF SlotsFor, Used
  <2> HIDE DEF A, H
  <2>4. /\ IsFiniteSet(A) /\ IsFiniteSet(H)
        /\ Cardinality(A) \in Nat /\ Cardinality(H) \in Nat
    BY <2>1, FiniteIn
  <2>5. Cardinality(H) # 0 /\ (A # {} => Cardinality(A) # 0)
    BY <2>1, <2>4, FS_EmptySet
  <2> DEFINE a == Cardinality(A)
             h == Cardinality(H)
  <2> HIDE DEF a, h
  <2>6. refs[f] = a + h /\ a \in Nat /\ h \in Nat /\ h # 0 /\ (A # {} => a # 0)
    BY <2>2, <2>4, <2>5 DEF a, h
  <2>7. refs[f] >= 1 /\ (A # {} => refs[f] >= 2)
    BY <2>6
  <2> QED
    BY <2>3, <2>7
<1>3. /\ refs' \in [Libs -> Nat]
      /\ \A g \in Libs : refs'[g] = IF g = f THEN refs[g] - 1 ELSE refs[g]
  BY <1>1, <1>2
<1>4. /\ base' \in [Libs -> Bases \cup {None}]
      /\ \A g \in Libs : base'[g] = IF g = f /\ refs[f] = 1 THEN None ELSE base[g]
  BY <1>1
<1>5. PlatformOK'
  <2>1. \A g \in Libs : base'[g] = None <=> refs'[g] = 0
    <3>1. \A g \in Libs : base[g] = None <=> refs[g] = 0
      BY DEF PluginInv, PlatformOK
    <3>2. refs[f] \in Nat
      BY <1>1
    <3> QED
      BY <1>2, <1>3, <1>4, <3>1, <3>2
  <2>2. \A g, h \in Libs : base'[g] = base'[h] /\ base'[g] # None => g = h
    BY <1>4 DEF PluginInv, PlatformOK
  <2>3. Used' = Used
    BY DEF Used
  <2>4. ASSUME NEW s \in Used PROVE base'[slots'[s].lib] = slots'[s].base
    <3>1. slots[s].lib \in Libs /\ base[slots[s].lib] = slots[s].base
      BY UsedFacts DEF PluginInv, PlatformOK
    <3> QED
      BY <1>2, <1>4, <3>1
  <2>5. \A s, r \in Used : slots'[s].lib = slots'[r].lib => s = r
    BY DEF PluginInv, PlatformOK
  <2> QED
    BY <2>1, <2>2, <2>3, <2>4, <2>5 DEF PlatformOK
<1> QED
  BY <1>3, <1>4, <1>5

LEMMA LoadInv ==
  ASSUME PluginInv, NEW t \in Threads, NEW w \in Owners, NEW f \in Libs, Load(t, w, f)
  PROVE  PluginInv'
<1> DEFINE x == [NoCall EXCEPT !.owner = w, !.lib = f]
<1>1. /\ at[t] = "idle" /\ handle[w] = None /\ Owned(w) /\ Open(f)
      /\ UNCHANGED <<slots, openCount, left, handle, object>>
  BY DEF Load, loaded
<1>2. PICK p \in {"closeLoad", "claim"} : Go(t, p, x)
  BY DEF Load
<1>3. /\ x \in Locals /\ x.owner = w /\ x.lib = f /\ x.slot = None /\ x.image = None
      /\ x.made = None /\ x.source = None /\ x.after = "idle"
  BY DEF NoCall, Locals
<1> HIDE DEF x
<1>4. w # None /\ f # None
  BY PluginsAssumption
<1>5. /\ p \in Places \ Coding /\ p \in Owning /\ at[t] \notin Coding /\ at[t] \notin Owning
      /\ p \notin {"reserve", "init", "give", "unload", "closeGone"}
  BY <1>1 DEF Places, Coding, Hooking, Owning
<1>6. CallOK(p, x)
  BY <1>3, <1>4, <1>5 DEF CallOK, Hooking, Coding
<1>7. /\ at'[t] = p /\ my'[t] = x /\ CallsOK'
      /\ \A u \in Threads : u # t => at'[u] = at[u] /\ my'[u] = my[u]
  BY <1>2, <1>3, <1>5, <1>6, GoFacts DEF PluginInv
<1>8. Kept /\ \A s \in Used : slots'[s].live = slots[s].live
  BY <1>1 DEF Kept
<1>9. HoldOK' /\ LiveOK'
  BY <1>1, <1>2, <1>3, <1>5, <1>6, <1>8, LoaderHolds
<1>10. /\ refs' \in [Libs -> Nat] /\ base' \in [Libs -> Bases \cup {None}]
       /\ \A g \in Libs : refs'[g] = IF g = f THEN refs[g] + 1 ELSE refs[g]
       /\ PlatformOK'
  BY <1>1, OpenFacts
<1>11. my[t].owner = None /\ my[t].lib = None
  BY <1>1, <1>5 DEF PluginInv, CallsOK, CallOK
<1>12. OpensOK'
  <2>1. None \notin Used /\ None \notin Used'
    BY PluginsAssumption DEF Used, Slots
  <2>2. /\ refs'[f] = refs[f] + One(my'[t].lib = f) - One(my[t].lib = f)
                            + One(None \in Used') - One(None \in Used)
        /\ openCount' = openCount + One(None \in Used') - One(None \in Used)
    <3>1. refs[f] \in Nat /\ openCount \in Nat
      BY DEF PluginInv, PluginShape
    <3> QED
      BY <1>1, <1>3, <1>4, <1>7, <1>10, <1>11, <2>1, <3>1 DEF One
  <2> QED
    BY <1>1, <1>3, <1>7, <1>10, <1>11, <2>1, <2>2, OpenMoves
<1>13. OwnersOK' /\ LoadsAreOwners'
  <2>1. \A u \in Threads : my[u].owner # w
    BY <1>1 DEF Owned
  <2>2. ASSUME NEW r \in Slots
        PROVE  NumberOf(slots', r) =
                   NumberOf(slots, r) + One(OwnIn(handle'[w], at'[t], my'[t], r))
                                      - One(OwnIn(handle[w], at[t], my[t], r))
    <3>1. NumberOf(slots, r) \in Nat /\ r # None
      BY NumberType DEF PluginInv
    <3>2. ~OwnIn(handle'[w], at'[t], my'[t], r) /\ ~OwnIn(handle[w], at[t], my[t], r)
      BY <1>1, <1>3, <1>7, <3>1 DEF OwnIn
    <3> QED
      BY <1>1, <3>1, <3>2 DEF One
  <2> QED
    BY <1>1, <1>3, <1>5, <1>7, <1>11, <2>1, <2>2, OwnMoves
<1> QED
  BY <1>1, <1>2, <1>3, <1>5, <1>6, <1>9, <1>10, <1>12, <1>13, LoaderInv
     DEF PluginInv, PluginShape

\* claim finds the library in a slot.
LEMMA ClaimSameInv ==
  ASSUME PluginInv, NEW t \in Threads, ClaimSame(t)
  PROVE  PluginInv'
<1>1. /\ at[t] = "claim" /\ UNCHANGED <<refs, base, openCount, left, handle, object>>
  BY DEF ClaimSame, platform
<1>2. PICK s \in Used : /\ slots[s].base = base[my[t].lib]
                        /\ slots' = [slots EXCEPT ![s].loads = @ + 1]
                        /\ Go(t, "closeLoad", [my[t] EXCEPT !.slot = s])
  BY DEF ClaimSame
<1> DEFINE x == [my[t] EXCEPT !.slot = s]
           w == my[t].owner
           f == my[t].lib
           y == [slots[s] EXCEPT !.loads = @ + 1]
<1>3. /\ s \in Slots /\ slots[s] \in Structs /\ slots[s].loads \in Nat \ {0}
  BY UsedFacts DEF PluginInv
<1>4. my[t] \in Locals /\ CallOK("claim", my[t])
  BY <1>1 DEF PluginInv, PluginShape, CallsOK
<1>5. /\ "closeLoad" \in Places \ Coding /\ "claim" \notin Coding
      /\ "claim" \in Owning /\ "closeLoad" \in Owning
  BY DEF Places, Coding, Hooking, Owning
<1>6. w \in Owners /\ f \in Libs /\ my[t].slot = None /\ w # None /\ f # None
  <2>1. w # None /\ f # None /\ my[t].slot = None
    BY <1>4, <1>5 DEF CallOK
  <2> QED
    BY <1>4, <2>1 DEF Locals
<1>7. /\ x \in Locals /\ x.owner = w /\ x.lib = f /\ x.slot = s /\ x.made = my[t].made
      /\ x.source = my[t].source /\ x.after = my[t].after
  BY <1>3, <1>4 DEF Locals
<1>8. /\ y \in Structs /\ y.lib = slots[s].lib /\ y.base = slots[s].base
      /\ y.live = slots[s].live /\ y.loads = slots[s].loads + 1
  BY <1>3 DEF Structs
<1>9. /\ slots' \in [Slots -> {None} \cup Structs]
      /\ \A r \in Slots : slots'[r] = IF r = s THEN y ELSE slots[r]
  BY <1>2, <1>3, <1>8 DEF PluginInv, PluginShape
<1> HIDE DEF x, w, f, y
<1>10. y # None /\ slots[s] # None
  BY <1>8, PluginsAssumption DEF Used
<1>11. Kept /\ \A r \in Used : slots'[r].live = slots[r].live
  BY <1>8, <1>9, <1>10 DEF Kept, Used
<1>12. CallOK("closeLoad", x)
  BY <1>4, <1>5, <1>6, <1>7 DEF CallOK, Hooking, Coding
<1>13. Go(t, "closeLoad", x)
  BY <1>2 DEF x
<1>14. /\ at'[t] = "closeLoad" /\ my'[t] = x /\ CallsOK'
       /\ \A u \in Threads : u # t => at'[u] = at[u] /\ my'[u] = my[u]
  BY <1>5, <1>7, <1>12, <1>13, GoFacts DEF PluginInv
<1>15. HoldOK' /\ LiveOK'
  BY <1>1, <1>5, <1>7, <1>11, <1>12, <1>13, LoaderHolds
<1>16. PlatformOK' /\ OpensOK'
  BY <1>1, <1>7, <1>11, <1>14, OpenKept DEF PluginInv, f
<1>17. OwnersOK' /\ LoadsAreOwners'
  <2>1. \A u \in Threads : u # t => my[u].owner # w
    BY <1>6 DEF w, PluginInv, OwnersOK
  <2>2. handle[w] = None
    BY <1>1 DEF w, PluginInv, OwnersOK
  <2>3. ASSUME NEW r \in Slots
        PROVE  NumberOf(slots', r) =
                   NumberOf(slots, r) + One(OwnIn(handle'[w], at'[t], my'[t], r))
                                      - One(OwnIn(handle[w], at[t], my[t], r))
    <3>1. NumberOf(slots, r) \in Nat /\ r # None
      BY NumberType DEF PluginInv
    <3>2. /\ OwnIn(handle'[w], at'[t], my'[t], r) <=> r = s
          /\ ~OwnIn(handle[w], at[t], my[t], r)
      BY <1>1, <1>7, <1>14, <2>2, <3>1 DEF OwnIn
    <3>3. NumberOf(slots', r) = NumberOf(slots, r) + (IF r = s THEN 1 ELSE 0)
      BY <1>8, <1>9, <1>10, <3>1 DEF NumberOf
    <3> QED
      BY <3>1, <3>2, <3>3 DEF One
  <2>4. my[t].owner \in {w, None}
    BY DEF w
  <2> QED
    BY <1>1, <1>6, <1>7, <1>14, <2>1, <2>2, <2>3, <2>4, OwnMoves
<1> QED
  BY <1>1, <1>5, <1>7, <1>9, <1>12, <1>13, <1>15, <1>16, <1>17, LoaderInv
     DEF PluginInv, PluginShape

\* A call of load or unload moves on and changes no count.
LEMMA SameLoadsInv ==
  ASSUME PluginInv, NEW t \in Threads, NEW w \in Owners, NEW p \in Places \ Coding,
         NEW x \in Locals, CallOK(p, x), Go(t, p, x), at[t] \notin Coding,
         UNCHANGED <<refs, base, slots, openCount, left, handle, object>>,
         x.lib = my[t].lib, my[t].owner \in {w, None}, x.owner \in {w, None},
         \A u \in Threads : u # t => my[u].owner # w,
         p \in {"claim", "closeLoad"} => handle[w] = None,
         p \in {"unload", "closeGone"} => handle[w] = x.slot,
         \A r \in Slots : OwnIn(handle[w], p, x, r) <=> OwnIn(handle[w], at[t], my[t], r)
  PROVE  PluginInv'
<1>1. /\ at'[t] = p /\ my'[t] = x /\ CallsOK'
      /\ \A u \in Threads : u # t => at'[u] = at[u] /\ my'[u] = my[u]
  BY GoFacts DEF PluginInv
<1>2. Kept /\ \A s \in Used : slots'[s].live = slots[s].live
  BY DEF Kept
<1>3. HoldOK' /\ LiveOK'
  BY <1>2, LoaderHolds
<1>4. PlatformOK' /\ OpensOK'
  BY <1>1, <1>2, OpenKept DEF PluginInv
<1>5. OwnersOK' /\ LoadsAreOwners'
  <2>1. ASSUME NEW r \in Slots
        PROVE  NumberOf(slots', r) =
                   NumberOf(slots, r) + One(OwnIn(handle'[w], at'[t], my'[t], r))
                                      - One(OwnIn(handle[w], at[t], my[t], r))
    <3>1. NumberOf(slots, r) \in Nat
      BY NumberType DEF PluginInv
    <3> QED
      BY <1>1, <3>1 DEF One
  <2> QED
    BY <1>1, <2>1, OwnMoves
<1> QED
  BY <1>3, <1>4, <1>5, LoaderInv DEF PluginInv, PluginShape

\* The call of t on a Library, and the Library.
LEMMA OwnerFacts ==
  ASSUME PluginInv, NEW t \in Threads, at[t] \in Owning
  PROVE  /\ my[t] \in Locals /\ CallOK(at[t], my[t]) /\ my[t].owner \in Owners
         /\ my[t].owner # None /\ at[t] \notin Coding
         /\ \A u \in Threads : u # t => my[u].owner # my[t].owner
         /\ at[t] \in {"claim", "closeLoad"} => my[t].lib \in Libs /\ handle[my[t].owner] = None
         /\ at[t] \in {"unload", "closeGone"} => my[t].slot \in Slots /\ handle[my[t].owner] = my[t].slot
<1>1. my[t] \in Locals /\ CallOK(at[t], my[t])
  BY DEF PluginInv, PluginShape, CallsOK
<1>2. /\ my[t].owner # None /\ (at[t] \in {"claim", "closeLoad"} => my[t].lib # None)
      /\ at[t] \in {"unload", "closeGone"} => my[t].slot # None
  BY <1>1 DEF CallOK
<1>3. /\ my[t].owner \in Owners /\ (at[t] \in {"claim", "closeLoad"} => my[t].lib \in Libs)
      /\ at[t] \in {"unload", "closeGone"} => my[t].slot \in Slots
  BY <1>1, <1>2 DEF Locals
<1>4. at[t] \notin Coding
  BY DEF Owning, Coding, Hooking
<1> QED
  BY <1>1, <1>2, <1>3, <1>4 DEF PluginInv, OwnersOK

LEMMA ClaimFullInv ==
  ASSUME PluginInv, NEW t \in Threads, ClaimFull(t)
  PROVE  PluginInv'
<1> DEFINE x == my[t]
           w == my[t].owner
<1>1. /\ at[t] = "claim" /\ Go(t, "closeLoad", x)
      /\ UNCHANGED <<refs, base, slots, openCount, left, handle, object>>
  BY DEF ClaimFull, platform, loaded
<1>2. /\ "closeLoad" \in Places \ Coding /\ "claim" \in Owning /\ "closeLoad" \in Owning
      /\ "claim" \notin Coding
  BY DEF Places, Coding, Hooking, Owning
<1>3. /\ x \in Locals /\ CallOK("claim", x) /\ w \in Owners /\ handle[w] = None
      /\ \A u \in Threads : u # t => my[u].owner # w
  BY <1>1, <1>2, OwnerFacts
<1>4. CallOK("closeLoad", x) /\ x.slot = None
  BY <1>2, <1>3 DEF CallOK, Hooking, Coding
<1>5. \A r \in Slots : OwnIn(handle[w], "closeLoad", x, r) <=> OwnIn(handle[w], at[t], my[t], r)
  <2>1. \A r \in Slots : r # None
    BY PluginsAssumption DEF Slots
  <2> QED
    BY <1>1, <1>3, <1>4, <2>1 DEF OwnIn
<1>6. x.lib = my[t].lib /\ my[t].owner \in {w, None} /\ x.owner \in {w, None}
  OBVIOUS
<1> HIDE DEF x, w
<1> QED
  BY <1>1, <1>2, <1>3, <1>4, <1>5, <1>6, SameLoadsInv

LEMMA UnloadInv ==
  ASSUME PluginInv, NEW t \in Threads, NEW w \in Owners, Unload(t, w)
  PROVE  PluginInv'
<1> DEFINE x == [NoCall EXCEPT !.owner = w, !.slot = handle[w]]
<1>1. /\ at[t] = "idle" /\ handle[w] # None /\ Owned(w) /\ Go(t, "unload", x)
      /\ UNCHANGED <<refs, base, slots, openCount, left, handle, object>>
  BY DEF Unload, platform, loaded
<1>2. handle[w] \in Slots /\ w # None
  BY <1>1, PluginsAssumption DEF PluginInv, PluginShape
<1>3. /\ x \in Locals /\ x.owner = w /\ x.lib = None /\ x.slot = handle[w]
      /\ x.image = None /\ x.made = None /\ x.source = None /\ x.after = "idle"
  BY <1>2 DEF NoCall, Locals
<1> HIDE DEF x
<1>4. /\ "unload" \in Places \ Coding /\ "unload" \in Owning /\ "idle" \notin Owning
      /\ at[t] \notin Coding
  BY <1>1 DEF Places, Coding, Hooking, Owning
<1>5. CallOK("unload", x)
  BY <1>1, <1>2, <1>3, <1>4 DEF CallOK, Hooking, Coding
<1>6. my[t].owner = None /\ my[t].lib = None
  BY <1>1, <1>4 DEF PluginInv, CallsOK, CallOK
<1>7. \A u \in Threads : my[u].owner # w
  BY <1>1 DEF Owned
<1>8. \A r \in Slots : OwnIn(handle[w], "unload", x, r) <=> OwnIn(handle[w], at[t], my[t], r)
  BY <1>1 DEF OwnIn
<1> QED
  BY <1>1, <1>3, <1>4, <1>5, <1>6, <1>7, <1>8, SameLoadsInv

LEMMA UnloadNotInv ==
  ASSUME PluginInv, NEW t \in Threads, UnloadNot(t)
  PROVE  PluginInv'
<1> DEFINE w == my[t].owner
<1>1. /\ at[t] = "unload" /\ Go(t, "idle", NoCall)
      /\ UNCHANGED <<refs, base, slots, openCount, left, handle, object>>
  BY DEF UnloadNot, platform, loaded, Return
<1>2. "unload" \in Owning /\ "unload" \notin Coding /\ "idle" \in Places \ Coding
  BY DEF Places, Coding, Hooking, Owning
<1>3. /\ CallOK("unload", my[t]) /\ w \in Owners
      /\ \A u \in Threads : u # t => my[u].owner # w
  BY <1>1, <1>2, OwnerFacts
<1>4. my[t].lib = None
  BY <1>3 DEF CallOK
<1>5. \A r \in Slots : OwnIn(handle[w], "idle", NoCall, r) <=> OwnIn(handle[w], at[t], my[t], r)
  BY <1>1 DEF OwnIn
<1>6. my[t].owner \in {w, None} /\ NoCall.owner \in {w, None} /\ NoCall.lib = my[t].lib
  BY <1>4, IdleCall
<1>7. at[t] \notin Coding /\ NoCall \in Locals /\ CallOK("idle", NoCall)
  BY <1>1, <1>2, IdleCall
<1>8. "idle" \notin {"claim", "closeLoad"} /\ "idle" \notin {"unload", "closeGone"}
  OBVIOUS
<1> HIDE DEF w
<1> QED
  BY <1>1, <1>2, <1>3, <1>5, <1>6, <1>7, <1>8, SameLoadsInv

\* A load or an unload ends: it closes what it holds open, and the Library gets its
\* handle.
LEMMA ClosedInv ==
  ASSUME PluginInv, NEW t \in Threads, at[t] \in {"closeLoad", "closeGone"}, Return(t),
         UNCHANGED <<slots, openCount, left, object>>, NEW h \in Slots \cup {None},
         handle' = [handle EXCEPT ![my[t].owner] = h],
         IF my[t].lib = None THEN UNCHANGED <<refs, base>> ELSE Close(my[t].lib),
         \A r \in Slots : h = r <=> OwnIn(handle[my[t].owner], at[t], my[t], r)
  PROVE  PluginInv'
<1> DEFINE w == my[t].owner
           f == my[t].lib
<1>1. at[t] \in Owning /\ "idle" \in Places \ Coding
  BY DEF Owning, Places, Coding, Hooking
<1>2. /\ my[t] \in Locals /\ CallOK(at[t], my[t]) /\ w \in Owners /\ w # None
      /\ at[t] \notin Coding /\ \A u \in Threads : u # t => my[u].owner # w
  BY <1>1, OwnerFacts
<1>3. f \in Libs \cup {None} /\ None \notin Libs
  BY <1>2, PluginsAssumption DEF Locals
<1>4. NoCall \in Locals /\ CallOK("idle", NoCall) /\ Go(t, "idle", NoCall)
  BY IdleCall DEF Return
<1>5. /\ at'[t] = "idle" /\ my'[t] = NoCall /\ CallsOK'
      /\ \A u \in Threads : u # t => at'[u] = at[u] /\ my'[u] = my[u]
  BY <1>1, <1>4, GoFacts DEF PluginInv
<1>6. Kept /\ \A s \in Used : slots'[s].live = slots[s].live
  BY DEF Kept
<1>7. HoldOK' /\ LiveOK'
  BY <1>1, <1>2, <1>4, <1>6, LoaderHolds
<1>8. /\ handle' \in [Owners -> Slots \cup {None}] /\ handle'[w] = h
      /\ \A v \in Owners : v # w => handle'[v] = handle[v]
  BY <1>2 DEF PluginInv, PluginShape
<1>9. /\ refs' \in [Libs -> Nat] /\ base' \in [Libs -> Bases \cup {None}]
      /\ PlatformOK' /\ OpensOK'
  <2>1. CASE f = None
    <3>1. PlatformOK' /\ OpensOK'
      <4>1. \A u \in Threads : my'[u].lib = my[u].lib
        BY <1>5, <2>1, IdleCall
      <4> QED
        BY <1>6, <2>1, <4>1, OpenKept DEF PluginInv
    <3> QED
      BY <2>1, <3>1 DEF PluginInv, PluginShape
  <2>2. CASE f # None
    <3>1. f \in Libs /\ Close(f)
      BY <1>3, <2>2
    <3>2. /\ refs' \in [Libs -> Nat] /\ base' \in [Libs -> Bases \cup {None}]
          /\ \A g \in Libs : refs'[g] = IF g = f THEN refs[g] - 1 ELSE refs[g]
          /\ PlatformOK'
      BY <3>1, CloseFacts
    <3>3. None \notin Used /\ None \notin Used'
      BY PluginsAssumption DEF Used, Slots
    <3>4. my'[t].lib = None /\ my[t].lib = f
      BY <1>5, IdleCall
    <3>5. /\ refs'[f] = refs[f] + One(my'[t].lib = f) - One(my[t].lib = f)
                              + One(None \in Used') - One(None \in Used)
          /\ openCount' = openCount + One(None \in Used') - One(None \in Used)
      <4>1. refs[f] \in Nat /\ openCount \in Nat
        BY <3>1 DEF PluginInv, PluginShape
      <4> HIDE DEF f
      <4> QED
        BY <2>2, <3>1, <3>2, <3>3, <3>4, <4>1 DEF One
    <3>6. OpensOK'
      <4> HIDE DEF f
      <4> QED
        BY <1>5, <3>1, <3>2, <3>3, <3>4, <3>5, OpenMoves
    <3> QED
      BY <3>2, <3>6
  <2> QED
    BY <2>1, <2>2
<1>10. OwnersOK' /\ LoadsAreOwners'
  <2>1. ASSUME NEW r \in Slots
        PROVE  NumberOf(slots', r) =
                   NumberOf(slots, r) + One(OwnIn(handle'[w], at'[t], my'[t], r))
                                      - One(OwnIn(handle[w], at[t], my[t], r))
    <3>1. NumberOf(slots, r) \in Nat
      BY NumberType DEF PluginInv
    <3>2. OwnIn(handle'[w], at'[t], my'[t], r) <=> OwnIn(handle[w], at[t], my[t], r)
      BY <1>5, <1>8 DEF OwnIn
    <3> QED
      BY <3>1, <3>2 DEF One
  <2>2. my[t].owner \in {w, None} /\ my'[t].owner \in {w, None}
    BY <1>5, IdleCall
  <2>3. at'[t] \notin {"claim", "closeLoad"} /\ at'[t] \notin {"unload", "closeGone"}
    BY <1>5
  <2> HIDE DEF w
  <2> QED
    BY <1>2, <1>5, <1>8, <2>1, <2>2, <2>3, OwnMoves
<1> QED
  BY <1>1, <1>4, <1>7, <1>8, <1>9, <1>10, LoaderInv DEF PluginInv, PluginShape

LEMMA CloseLoadInv ==
  ASSUME PluginInv, NEW t \in Threads, CloseLoad(t)
  PROVE  PluginInv'
<1>1. /\ at[t] = "closeLoad" /\ Return(t) /\ Close(my[t].lib)
      /\ handle' = [handle EXCEPT ![my[t].owner] = my[t].slot]
      /\ UNCHANGED <<slots, openCount, left, object>>
  BY DEF CloseLoad, loaded
<1>2. "closeLoad" \in Owning
  BY DEF Owning
<1>3. my[t] \in Locals /\ my[t].lib \in Libs /\ handle[my[t].owner] = None
  BY <1>1, <1>2, OwnerFacts
<1>4. my[t].slot \in Slots \cup {None} /\ my[t].lib # None
  BY <1>3, PluginsAssumption DEF Locals
<1>5. \A r \in Slots : my[t].slot = r <=> OwnIn(handle[my[t].owner], at[t], my[t], r)
  <2>1. \A r \in Slots : r # None
    BY PluginsAssumption DEF Slots
  <2> QED
    BY <1>1, <1>3, <2>1 DEF OwnIn
<1> QED
  BY <1>1, <1>4, <1>5, ClosedInv

LEMMA CloseGoneInv ==
  ASSUME PluginInv, NEW t \in Threads, CloseGone(t)
  PROVE  PluginInv'
<1>1. /\ at[t] = "closeGone" /\ Return(t)
      /\ IF my[t].lib = None THEN UNCHANGED <<refs, base>> ELSE Close(my[t].lib)
      /\ handle' = [handle EXCEPT ![my[t].owner] = None]
      /\ UNCHANGED <<slots, openCount, left, object>>
  BY DEF CloseGone, loaded, platform
<1>2. \A r \in Slots : None = r <=> OwnIn(handle[my[t].owner], at[t], my[t], r)
  <2>1. \A r \in Slots : r # None
    BY PluginsAssumption DEF Slots
  <2> QED
    BY <1>1, <2>1 DEF OwnIn
<1> QED
  BY <1>1, <1>2, ClosedInv

LEMMA UnloadOneInv ==
  ASSUME PluginInv, NEW t \in Threads, UnloadOne(t)
  PROVE  PluginInv'
<1> DEFINE s == my[t].slot
           x == my[t]
           w == my[t].owner
           y == [slots[s] EXCEPT !.loads = @ - 1]
<1>1. /\ at[t] = "unload" /\ s \in Used /\ slots[s].loads > 1
      /\ slots' = [slots EXCEPT ![s].loads = @ - 1] /\ Go(t, "closeGone", x)
      /\ UNCHANGED <<refs, base, openCount, left, handle, object>>
  BY DEF UnloadOne, platform
<1>2. /\ "closeGone" \in Places \ Coding /\ "unload" \in Owning /\ "closeGone" \in Owning
  BY DEF Places, Coding, Hooking, Owning
<1>3. /\ x \in Locals /\ CallOK("unload", x) /\ w \in Owners /\ handle[w] = s
      /\ at[t] \notin Coding /\ \A u \in Threads : u # t => my[u].owner # w
  BY <1>1, <1>2, OwnerFacts
<1>4. /\ s \in Slots /\ slots[s] \in Structs /\ slots[s].loads \in Nat \ {0}
  BY <1>1, UsedFacts DEF PluginInv
<1>5. /\ y \in Structs /\ y.lib = slots[s].lib /\ y.base = slots[s].base
      /\ y.live = slots[s].live /\ y.loads = slots[s].loads - 1
  BY <1>1, <1>4 DEF Structs
<1>6. /\ slots' \in [Slots -> {None} \cup Structs]
      /\ \A r \in Slots : slots'[r] = IF r = s THEN y ELSE slots[r]
  BY <1>1, <1>4, <1>5 DEF PluginInv, PluginShape
<1>7. CallOK("closeGone", x)
  BY <1>2, <1>3 DEF CallOK, Hooking, Coding
<1>8. my[t].owner \in {w, None} /\ x.owner \in {w, None} /\ x.lib = my[t].lib
  OBVIOUS
<1>9. x.slot = s
  OBVIOUS
<1> HIDE DEF s, x, w, y
<1>10. y # None /\ slots[s] # None
  BY <1>1, <1>5, PluginsAssumption DEF Used
<1>11. Kept /\ \A r \in Used : slots'[r].live = slots[r].live
  BY <1>5, <1>6, <1>10 DEF Kept, Used
<1>12. /\ at'[t] = "closeGone" /\ my'[t] = x /\ CallsOK'
       /\ \A u \in Threads : u # t => at'[u] = at[u] /\ my'[u] = my[u]
  BY <1>1, <1>2, <1>3, <1>7, GoFacts DEF PluginInv
<1>13. HoldOK' /\ LiveOK'
  BY <1>1, <1>2, <1>3, <1>7, <1>11, LoaderHolds
<1>14. PlatformOK' /\ OpensOK'
  BY <1>1, <1>8, <1>11, <1>12, OpenKept DEF PluginInv
<1>15. OwnersOK' /\ LoadsAreOwners'
  <2>1. ASSUME NEW r \in Slots
        PROVE  NumberOf(slots', r) =
                   NumberOf(slots, r) + One(OwnIn(handle'[w], at'[t], my'[t], r))
                                      - One(OwnIn(handle[w], at[t], my[t], r))
    <3>1. NumberOf(slots, r) \in Nat
      BY NumberType DEF PluginInv
    <3>2. /\ ~OwnIn(handle'[w], at'[t], my'[t], r)
          /\ OwnIn(handle[w], at[t], my[t], r) <=> r = s
      BY <1>1, <1>3, <1>12 DEF OwnIn
    <3>3. NumberOf(slots', r) = NumberOf(slots, r) - (IF r = s THEN 1 ELSE 0)
      BY <1>4, <1>5, <1>6, <1>10, <3>1 DEF NumberOf
    <3> QED
      BY <3>1, <3>2, <3>3 DEF One
  <2>2. at'[t] \in {"unload", "closeGone"} => handle'[w] = my'[t].slot
    BY <1>1, <1>3, <1>9, <1>12
  <2>3. at'[t] \notin {"claim", "closeLoad"}
    BY <1>12
  <2> QED
    BY <1>1, <1>3, <1>8, <1>12, <2>1, <2>2, <2>3, OwnMoves
<1> QED
  BY <1>1, <1>2, <1>3, <1>6, <1>7, <1>13, <1>14, <1>15, LoaderInv
     DEF PluginInv, PluginShape

\* The last load of a library without live objects goes back: nothing stands for
\* the slot that is cleared.
LEMMA UnloadLastInv ==
  ASSUME PluginInv, NEW t \in Threads, UnloadLast(t)
  PROVE  PluginInv'
<1> DEFINE s == my[t].slot
           w == my[t].owner
           f == slots[s].lib
           x == [my[t] EXCEPT !.lib = f]
<1>1. /\ at[t] = "unload" /\ s \in Used /\ slots[s].live = 0 /\ slots[s].loads <= 1
      /\ slots' = [slots EXCEPT ![s] = None] /\ Go(t, "closeGone", x)
      /\ openCount' = openCount - 1 /\ UNCHANGED <<refs, base, left, handle, object>>
  BY DEF UnloadLast, platform
<1>2. /\ "closeGone" \in Places \ Coding /\ "unload" \in Owning /\ "closeGone" \in Owning
      /\ "closeGone" \notin Hooking \cup {"init", "give"}
      /\ "unload" \notin Hooking \cup {"init", "give"}
  BY DEF Places, Coding, Hooking, Owning
<1>3. /\ my[t] \in Locals /\ CallOK("unload", my[t]) /\ w \in Owners /\ handle[w] = s
      /\ at[t] \notin Coding /\ \A u \in Threads : u # t => my[u].owner # w
  BY <1>1, <1>2, OwnerFacts
<1>4. /\ s \in Slots /\ f \in Libs /\ slots[s].loads = 1 /\ f # None /\ slots[s].base # None
  BY <1>1, UsedFacts, PluginsAssumption DEF PluginInv
<1>5. /\ x \in Locals /\ x.owner = w /\ x.lib = f /\ x.slot = s /\ x.made = my[t].made
      /\ x.source = my[t].source /\ x.after = my[t].after
  BY <1>3, <1>4 DEF Locals
<1>6. /\ slots' \in [Slots -> {None} \cup Structs] /\ slots'[s] = None
      /\ \A r \in Slots : r # s => slots'[r] = slots[r]
  BY <1>1, <1>4 DEF PluginInv, PluginShape
<1>7. /\ \A o \in Objects : object[o] # None => object[o].base # slots[s].base
      /\ \A u \in Threads : at[u] \in Coding => my[u].image.base # slots[s].base
      /\ \A u \in Threads : ~Reserves(u, s)
      /\ left[s] = 0
  BY <1>1, NothingAlive
<1>8. my[t].owner = w /\ my[t].lib = None
  BY <1>3 DEF CallOK
<1> HIDE DEF s, w, f, x
<1>9. CallOK("closeGone", x)
  BY <1>2, <1>3, <1>5, <1>8 DEF CallOK, Hooking, Coding, s, w
<1>10. /\ at'[t] = "closeGone" /\ my'[t] = x /\ CallsOK'
       /\ \A u \in Threads : u # t => at'[u] = at[u] /\ my'[u] = my[u]
  BY <1>1, <1>2, <1>5, <1>9, GoFacts DEF PluginInv
<1>11. /\ \A r : r # s => (r \in Used' <=> r \in Used)
       /\ s \notin Used' /\ s \in Used
  BY <1>1, <1>4, <1>6 DEF Used
<1>12. x.made = None /\ x.source = None /\ x.after = "idle"
  BY <1>2, <1>5, <1>9, NotCoding
<1>13. HoldOK'
  <2>1. ASSUME NEW image, HasSlot(slots, image), image.base # slots[s].base
        PROVE  HasSlot(slots', image)
    BY <1>6, <2>1 DEF HasSlot, SlotOf
  <2>2. \A o \in Objects : object'[o] # None => HasSlot(slots', object'[o])
    BY <1>1, <1>7, <2>1 DEF PluginInv, HoldOK
  <2>3. ASSUME NEW u \in Threads
        PROVE  /\ at'[u] \in Coding => HasSlot(slots', my'[u].image)
               /\ Reserving(u)' => SlotOf(slots', my'[u].slot, my'[u].image)
    <3>1. CASE u = t
      BY <1>2, <1>10, <1>12, <3>1 DEF Reserving, Coding
    <3>2. CASE u # t
      <4>1. at'[u] \in Coding => HasSlot(slots', my'[u].image)
        BY <1>7, <1>10, <2>1, <3>2 DEF PluginInv, HoldOK
      <4>2. ASSUME Reserving(u)' PROVE SlotOf(slots', my'[u].slot, my'[u].image)
        <5>1. Reserving(u) /\ my'[u] = my[u]
          BY <1>10, <3>2, <4>2 DEF Reserving
        <5>2. SlotOf(slots, my[u].slot, my[u].image) /\ my[u].slot # s
          BY <1>7, <5>1 DEF PluginInv, HoldOK, Reserving, Reserves
        <5> QED
          BY <1>6, <5>1, <5>2 DEF SlotOf
      <4> QED
        BY <4>1, <4>2
    <3> QED
      BY <3>1, <3>2
  <2>4. \A u \in Threads : /\ my'[u].made # None => u # t /\ my'[u] = my[u]
                           /\ my'[u].source # None => u # t /\ my'[u] = my[u]
    BY <1>10, <1>12
  <2>5. my[t].made = None /\ my[t].source = None
    BY <1>5, <1>12
  <2>6. ASSUME NEW u \in Threads, my'[u].made # None
        PROVE  /\ object'[my'[u].made] # None
               /\ object'[my'[u].made].base = my'[u].image.base
               /\ my'[u].made # my'[u].source
               /\ \A v \in Threads : v # u => my'[u].made \notin {my'[v].made, my'[v].source}
    <3>1. u # t /\ my'[u] = my[u] /\ my[u].made # None
      BY <2>4, <2>6
    <3>2. /\ object[my[u].made] # None /\ object[my[u].made].base = my[u].image.base
          /\ my[u].made # my[u].source
          /\ \A v \in Threads : v # u => my[u].made \notin {my[v].made, my[v].source}
      BY <3>1 DEF PluginInv, HoldOK
    <3> QED
      BY <1>1, <1>10, <1>12, <3>1, <3>2
  <2>7. ASSUME NEW u \in Threads, my'[u].source # None
        PROVE  object'[my'[u].source] # None /\ object'[my'[u].source].base = my'[u].image.base
    <3>1. my'[u] = my[u] /\ my[u].source # None
      BY <2>4, <2>7
    <3> QED
      BY <1>1, <3>1 DEF PluginInv, HoldOK
  <2> QED
    BY <2>2, <2>3, <2>6, <2>7 DEF HoldOK
<1>14. PlatformOK'
  BY <1>1, <1>6, <1>11 DEF PluginInv, PlatformOK, Used
<1>15. OpensOK'
  <2>1. refs[f] \in Nat /\ openCount \in Nat /\ slots[s].lib = f
    BY <1>4 DEF PluginInv, PluginShape, f
  <2>2. /\ refs'[f] = refs[f] + One(my'[t].lib = f) - One(my[t].lib = f)
                            + One(s \in Used') - One(s \in Used)
        /\ openCount' = openCount + One(s \in Used') - One(s \in Used)
    BY <1>1, <1>4, <1>5, <1>8, <1>10, <1>11, <2>1 DEF One
  <2>3. my[t].lib \in {f, None} /\ my'[t].lib \in {f, None}
    BY <1>5, <1>8, <1>10
  <2>4. /\ \A u \in Threads : u # t => my'[u].lib = my[u].lib
        /\ \A g \in Libs : g # f => refs'[g] = refs[g]
        /\ s \in Used => slots[s].lib = f
        /\ s \in Used' => slots'[s].lib = f
    BY <1>1, <1>10, <1>11, <2>1
  <2> QED
    BY <1>4, <1>6, <2>2, <2>3, <2>4, OpenMoves
<1>16. OwnersOK' /\ LoadsAreOwners'
  <2>1. ASSUME NEW r \in Slots
        PROVE  NumberOf(slots', r) =
                   NumberOf(slots, r) + One(OwnIn(handle'[w], at'[t], my'[t], r))
                                      - One(OwnIn(handle[w], at[t], my[t], r))
    <3>1. NumberOf(slots, r) \in Nat
      BY NumberType DEF PluginInv
    <3>2. /\ ~OwnIn(handle'[w], at'[t], my'[t], r)
          /\ OwnIn(handle[w], at[t], my[t], r) <=> r = s
      BY <1>1, <1>3, <1>10 DEF OwnIn
    <3>3. NumberOf(slots', r) = NumberOf(slots, r) - (IF r = s THEN 1 ELSE 0)
      BY <1>1, <1>4, <1>6, <3>1 DEF NumberOf, Used
    <3> QED
      BY <3>1, <3>2, <3>3 DEF One
  <2>2. at'[t] \in {"unload", "closeGone"} => handle'[w] = my'[t].slot
    BY <1>1, <1>3, <1>5, <1>10
  <2>3. at'[t] \notin {"claim", "closeLoad"}
    BY <1>10
  <2>4. my[t].owner \in {w, None} /\ my'[t].owner \in {w, None}
    BY <1>5, <1>8, <1>10
  <2> QED
    BY <1>1, <1>3, <1>10, <2>1, <2>2, <2>3, <2>4, OwnMoves
<1>17. LiveOK'
  <2>1. \A b, d : {u \in Threads : Owes(u, b, d)}' = {u \in Threads : Owes(u, b, d)}
    <3>1. \A b, d : ~Owes(t, b, d)' /\ ~Owes(t, b, d)
      BY <1>1, <1>2, <1>10 DEF Owes, Hooking
    <3> QED
      BY <1>10, <3>1 DEF Owes
  <2>2. \A r : {u \in Threads : Reserves(u, r)}' = {u \in Threads : Reserves(u, r)}
    <3>1. \A r : ~Reserves(t, r)' /\ ~Reserves(t, r)
      BY <1>1, <1>2, <1>5, <1>10, <1>12 DEF Reserves
    <3> QED
      BY <1>10, <3>1 DEF Reserves
  <2>3. \A r \in Used' : r \in Used /\ slots'[r] = slots[r]
    BY <1>6, <1>11 DEF Used
  <2>4. LiveExact'
    BY <1>1, <2>1, <2>2, <2>3 DEF LiveExact, PluginInv, LiveOK
  <2>5. \A r \in Slots \ Used' : left'[r] = 0
    BY <1>1, <1>7, <1>11 DEF PluginInv, LiveOK
  <2> QED
    BY <2>4, <2>5 DEF LiveOK
<1> QED
  BY <1>1, <1>2, <1>5, <1>6, <1>9, <1>13, <1>14, <1>15, <1>16, <1>17, LoaderInv
     DEF PluginInv, PluginShape

\* claim takes a free slot: the library had none, so nothing is alive at its base.
LEMMA ClaimFreeInv ==
  ASSUME PluginInv, NEW t \in Threads, ClaimFree(t)
  PROVE  PluginInv'
<1> DEFINE w == my[t].owner
           f == my[t].lib
           b == base[f]
           y == [lib |-> f, base |-> b, live |-> 0, loads |-> 1]
<1>1. /\ at[t] = "claim" /\ ~IsOpen(t) /\ openCount' = openCount + 1
      /\ Go(t, "idle", NoCall) /\ UNCHANGED <<refs, base, left, object>>
  BY DEF ClaimFree, platform, Return
<1>2. PICK s \in Slots \ Used : /\ slots' = [slots EXCEPT ![s] = y]
                                /\ handle' = [handle EXCEPT ![w] = s]
  BY DEF ClaimFree
<1>3. /\ "claim" \in Owning /\ "idle" \in Places \ Coding
      /\ "idle" \notin Hooking \cup {"init", "give"}
      /\ "claim" \notin Hooking \cup {"init", "give"}
  BY DEF Owning, Places, Coding, Hooking
<1>4. /\ my[t] \in Locals /\ CallOK("claim", my[t]) /\ w \in Owners /\ w # None
      /\ at[t] \notin Coding /\ f \in Libs /\ handle[w] = None
      /\ \A u \in Threads : u # t => my[u].owner # w
  BY <1>1, <1>3, OwnerFacts
<1>5. b \in Bases /\ b # None
  <2>1. Holders(f) \subseteq Threads /\ t \in Holders(f) /\ SlotsFor(f) \subseteq Slots
    BY DEF Holders, SlotsFor
  <2> DEFINE H == Holders(f)
             A == SlotsFor(f)
  <2>2. refs[f] = Cardinality(A) + Cardinality(H)
    BY <1>4 DEF PluginInv, OpensOK
  <2> HIDE DEF H, A
  <2>3. IsFiniteSet(H) /\ Cardinality(H) \in Nat /\ Cardinality(A) \in Nat
    BY <2>1, FiniteIn DEF H, A
  <2>4. Cardinality(H) # 0
    BY <2>1, <2>3, FS_EmptySet DEF H
  <2>5. refs[f] # 0
    BY <2>2, <2>3, <2>4
  <2> QED
    BY <1>4, <2>5 DEF PluginInv, PlatformOK, PluginShape
<1>6. \A r \in Used : slots[r].base # b
  BY <1>1 DEF IsOpen
<1>7. y \in Structs /\ y.lib = f /\ y.base = b /\ y.live = 0 /\ y.loads = 1
  BY <1>4, <1>5 DEF Structs
<1>8. /\ slots' \in [Slots -> {None} \cup Structs] /\ slots'[s] = y /\ slots[s] = None
      /\ \A r \in Slots : r # s => slots'[r] = slots[r]
  BY <1>2, <1>7 DEF PluginInv, PluginShape, Used
<1>9. /\ handle' \in [Owners -> Slots \cup {None}] /\ handle'[w] = s
      /\ \A v \in Owners : v # w => handle'[v] = handle[v]
  BY <1>2, <1>4 DEF PluginInv, PluginShape
<1>10. my[t].owner = w /\ my[t].lib = f /\ base[f] = b /\ f # None
  BY <1>4, PluginsAssumption
<1> HIDE DEF w, f, b, y
<1>11. y # None
  BY <1>7, PluginsAssumption
<1>12. /\ \A r : r # s => (r \in Used' <=> r \in Used)
       /\ s \in Used' /\ s \notin Used /\ Used \subseteq Slots
  BY <1>8, <1>11 DEF Used
<1>13. NoCall \in Locals /\ CallOK("idle", NoCall)
  BY IdleCall
<1>14. /\ at'[t] = "idle" /\ my'[t] = NoCall /\ CallsOK'
       /\ \A u \in Threads : u # t => at'[u] = at[u] /\ my'[u] = my[u]
  BY <1>1, <1>3, <1>13, GoFacts DEF PluginInv
<1>15. HoldOK'
  <2>1. \A r, image : SlotOf(slots, r, image) => SlotOf(slots', r, image)
    BY <1>8 DEF SlotOf
  <2> QED
    BY <1>1, <1>3, <1>14, <2>1, IdleCall, HoldKept DEF PluginInv
<1>16. PlatformOK'
  <2>1. /\ \A g \in Libs : base'[g] = None <=> refs'[g] = 0
        /\ \A g, h \in Libs : base'[g] = base'[h] /\ base'[g] # None => g = h
    BY <1>1 DEF PluginInv, PlatformOK
  <2>2. \A r \in Used' : base'[slots'[r].lib] = slots'[r].base
    BY <1>1, <1>7, <1>8, <1>10, <1>12 DEF PluginInv, PlatformOK
  <2>3. \A r \in Used : slots[r].lib # f
    BY <1>6, <1>10 DEF PluginInv, PlatformOK
  <2>4. \A q, r \in Used' : slots'[q].lib = slots'[r].lib => q = r
    BY <1>7, <1>8, <1>12, <2>3 DEF PluginInv, PlatformOK
  <2> QED
    BY <2>1, <2>2, <2>4 DEF PlatformOK
<1>17. OpensOK'
  <2>1. refs[f] \in Nat /\ openCount \in Nat
    BY <1>4 DEF PluginInv, PluginShape
  <2>2. my[t].lib = f /\ my'[t].lib = None
    BY <1>10, <1>14, IdleCall
  <2>3. /\ refs'[f] = refs[f] + One(my'[t].lib = f) - One(my[t].lib = f)
                            + One(s \in Used') - One(s \in Used)
        /\ openCount' = openCount + One(s \in Used') - One(s \in Used)
    BY <1>1, <1>10, <1>12, <2>1, <2>2 DEF One
  <2>4. /\ \A u \in Threads : u # t => my'[u].lib = my[u].lib
        /\ \A g \in Libs : g # f => refs'[g] = refs[g]
        /\ s \in Used => slots[s].lib = f
        /\ s \in Used' => slots'[s].lib = f
    BY <1>1, <1>7, <1>8, <1>12, <1>14
  <2> QED
    BY <1>4, <1>8, <2>2, <2>3, <2>4, OpenMoves
<1>18. OwnersOK' /\ LoadsAreOwners'
  <2>1. ASSUME NEW r \in Slots
        PROVE  NumberOf(slots', r) =
                   NumberOf(slots, r) + One(OwnIn(handle'[w], at'[t], my'[t], r))
                                      - One(OwnIn(handle[w], at[t], my[t], r))
    <3>1. NumberOf(slots, r) \in Nat /\ r # None
      BY NumberType DEF PluginInv
    <3>2. /\ OwnIn(handle'[w], at'[t], my'[t], r) <=> r = s
          /\ ~OwnIn(handle[w], at[t], my[t], r)
      BY <1>1, <1>4, <1>9, <1>14, <3>1 DEF OwnIn
    <3>3. NumberOf(slots', r) = NumberOf(slots, r) + (IF r = s THEN 1 ELSE 0)
      BY <1>7, <1>8, <1>11, <3>1 DEF NumberOf
    <3> QED
      BY <3>1, <3>2, <3>3 DEF One
  <2>2. at'[t] \notin {"claim", "closeLoad"} /\ at'[t] \notin {"unload", "closeGone"}
    BY <1>14
  <2>3. my[t].owner \in {w, None} /\ my'[t].owner \in {w, None}
    BY <1>10, <1>14, IdleCall
  <2> QED
    BY <1>4, <1>9, <1>14, <2>1, <2>2, <2>3, OwnMoves
<1>19. LiveOK'
  <2>1. \A c, d : {u \in Threads : Owes(u, c, d)}' = {u \in Threads : Owes(u, c, d)}
    <3>1. \A c, d : ~Owes(t, c, d)' /\ ~Owes(t, c, d)
      BY <1>1, <1>3, <1>14 DEF Owes, Hooking
    <3> QED
      BY <1>14, <3>1 DEF Owes
  <2>2. \A r : {u \in Threads : Reserves(u, r)}' = {u \in Threads : Reserves(u, r)}
    <3>1. \A r : ~Reserves(t, r)
      BY <1>1, <1>3, RestOwesNothing
    <3>2. \A r : ~Reserves(t, r)'
      BY <1>3, <1>14, IdleCall DEF Reserves
    <3> QED
      BY <1>14, <3>1, <3>2 DEF Reserves
  <2>3. \A image : HasSlot(slots, image) => image.base # b
    BY <1>6 DEF HasSlot, SlotOf, Used
  <2>4. {o \in Objects : object[o] # None /\ object[o].base = b} = {}
    BY <2>3 DEF PluginInv, HoldOK
  <2>5. \A d : {u \in Threads : Owes(u, b, d)} = {}
    BY <2>3 DEF PluginInv, HoldOK, Owes, Coding, Hooking
  <2>6. {u \in Threads : Reserves(u, s)} = {}
    BY <1>8 DEF PluginInv, HoldOK, Reserves, Reserving, SlotOf
  <2>7. left[s] = 0
    BY <1>12 DEF PluginInv, LiveOK
  <2>8. ASSUME NEW r \in Used'
        PROVE  slots'[r].live =
                   Cardinality({o \in Objects : object[o] # None /\ object[o].base = slots'[r].base})
                   - Cardinality({u \in Threads : Owes(u, slots'[r].base, 1)})
                   + Cardinality({u \in Threads : Owes(u, slots'[r].base, -1)})
                   + Cardinality({u \in Threads : Reserves(u, r)})
                   + left[r]
    <3>1. CASE r = s
      <4>1. slots'[r].base = b /\ slots'[r].live = 0
        BY <1>7, <1>8, <3>1
      <4>2. Cardinality({}) = 0
        BY FS_EmptySet
      <4>3. /\ {o \in Objects : object[o] # None /\ object[o].base = slots'[r].base} = {}
            /\ {u \in Threads : Owes(u, slots'[r].base, 1)} = {}
            /\ {u \in Threads : Owes(u, slots'[r].base, -1)} = {}
            /\ {u \in Threads : Reserves(u, r)} = {}
        BY <2>4, <2>5, <2>6, <3>1, <4>1
      <4>4. slots'[r].live = 0 - 0 + 0 + 0 + left[r]
        BY <2>7, <3>1, <4>1
      <4> QED
        BY <4>2, <4>3, <4>4
    <3>2. CASE r # s
      <4>1. r \in Used /\ slots'[r] = slots[r]
        BY <1>8, <1>12, <3>2
      <4> QED
        BY <4>1 DEF PluginInv, LiveOK, LiveExact
    <3> QED
      BY <3>1, <3>2
  <2>9. LiveExact'
    BY <1>1, <2>1, <2>2, <2>8 DEF LiveExact
  <2>10. \A r \in Slots \ Used' : left'[r] = 0
    BY <1>1, <1>12 DEF PluginInv, LiveOK
  <2> QED
    BY <2>9, <2>10 DEF LiveOK
<1> QED
  BY <1>1, <1>3, <1>8, <1>9, <1>13, <1>15, <1>16, <1>17, <1>18, <1>19, LoaderInv
     DEF PluginInv, PluginShape

-----------------------------------------------------------------------------
(* The invariant holds *)

LEMMA FirstInv == PluginInit => PluginInv
<1> SUFFICES ASSUME PluginInit PROVE PluginInv
  OBVIOUS
<1>1. /\ refs = [f \in Libs |-> 0] /\ base = [f \in Libs |-> None]
      /\ slots = [s \in Slots |-> None] /\ openCount = 0
      /\ handle = [w \in Owners |-> None] /\ object = [o \in Objects |-> None]
      /\ at = [t \in Threads |-> "idle"] /\ my = [t \in Threads |-> NoCall]
      /\ left = [s \in Slots |-> 0]
  BY DEF PluginInit
<1>2. PluginShape
  BY <1>1, IdleCall DEF PluginShape
<1>3. Used = {} /\ Cardinality({}) = 0
  BY <1>1, FS_EmptySet DEF Used
<1>4. /\ \A t \in Threads : at[t] = "idle" /\ my[t] = NoCall
      /\ NoCall.owner = None /\ NoCall.lib = None /\ NoCall.made = None
      /\ NoCall.source = None /\ NoCall.after = "idle"
  BY <1>1, IdleCall
<1>5. CallsOK
  BY <1>4, IdleCall DEF CallsOK
<1>6. HoldOK
  BY <1>1, <1>4 DEF HoldOK, Reserving, Coding, Hooking
<1>7. PlatformOK
  BY <1>1, <1>3 DEF PlatformOK
<1>8. OpensOK
  <2>1. ASSUME NEW f \in Libs PROVE SlotsFor(f) = {} /\ Holders(f) = {}
    BY <1>3, <1>4, PluginsAssumption DEF SlotsFor, Holders
  <2>2. ASSUME NEW f \in Libs
        PROVE  refs[f] = Cardinality(SlotsFor(f)) + Cardinality(Holders(f))
    <3>1. Cardinality(SlotsFor(f)) = 0 /\ Cardinality(Holders(f)) = 0 /\ refs[f] = 0
      BY <1>1, <1>3, <2>1
    <3> QED
      BY <3>1
  <2> QED
    BY <1>1, <1>3, <2>2 DEF OpensOK
<1>9. OwnersOK
  BY <1>4 DEF OwnersOK
<1>10. LoadsAreOwners
  <2>1. ASSUME NEW s \in Slots PROVE {w \in Owners : Loads(w, s)} = {}
    <3>1. s # None
      BY PluginsAssumption DEF Slots
    <3> QED
      BY <1>1, <1>4, <3>1 DEF Loads
  <2> QED
    BY <1>3, <2>1 DEF LoadsAreOwners
<1>11. LiveOK
  BY <1>1, <1>3 DEF LiveOK, LiveExact
<1> QED
  BY <1>2, <1>5, <1>6, <1>7, <1>8, <1>9, <1>10, <1>11 DEF PluginInv

LEMMA StutterInv == ASSUME PluginInv, UNCHANGED pluginVars PROVE PluginInv'
<1>1. UNCHANGED <<refs, base, slots, openCount, handle, object, at, my, left>>
  BY DEF pluginVars
<1>2. PluginShape' /\ CallsOK' /\ HoldOK'
  BY <1>1 DEF PluginInv, PluginShape, CallsOK, HoldOK, Reserving
<1>3. Used' = Used /\ \A f : SlotsFor(f)' = SlotsFor(f) /\ Holders(f)' = Holders(f)
  BY <1>1 DEF Used, SlotsFor, Holders
<1>4. PlatformOK' /\ OpensOK' /\ OwnersOK'
  BY <1>1, <1>3 DEF PluginInv, PlatformOK, OpensOK, OwnersOK
<1>5. LoadsAreOwners'
  BY <1>1, <1>3 DEF PluginInv, LoadsAreOwners, Loads
<1>6. LiveOK'
  BY <1>1, <1>3 DEF PluginInv, LiveOK, LiveExact, Owes, Reserves
<1> QED
  BY <1>2, <1>4, <1>5, <1>6 DEF PluginInv

LEMMA StepInv ==
  ASSUME PluginInv, NEW t \in Threads, Step(t)
  PROVE  PluginInv'
<1>1. CASE \E w \in Owners, f \in Libs : Load(t, w, f)
  BY <1>1, LoadInv
<1>2. CASE ClaimSame(t) \/ ClaimFree(t) \/ ClaimFull(t) \/ CloseLoad(t)
  BY <1>2, ClaimSameInv, ClaimFreeInv, ClaimFullInv, CloseLoadInv
<1>3. CASE \E w \in Owners : Instance(t, w) \/ Unload(t, w)
  BY <1>3, InstanceInv, UnloadInv
<1>4. CASE Reserve(t)
  <2>1. at[t] = "reserve" /\ UNCHANGED <<refs, base, openCount, left, handle, object>>
    BY <1>4 DEF Reserve, platform
  <2>2. CASE my[t].slot \in Used /\ Reserved(t, my[t].slot, FALSE)
    BY <2>1, <2>2, ReservedInv
  <2>3. CASE UNCHANGED slots /\ Return(t)
    BY <2>1, <2>3, RestInv
  <2> QED
    BY <1>4, <2>2, <2>3 DEF Reserve
<1>5. CASE FindClass(t)
  <2>1. /\ at[t] = "idle" /\ Go(t, "find", NoCall)
        /\ UNCHANGED <<refs, base, openCount, slots, handle, object, left>>
    BY <1>5 DEF FindClass, platform, loaded
  <2> QED
    BY <2>1, RestInv
<1>6. CASE Find(t)
  <2>1. at[t] = "find" /\ UNCHANGED <<refs, base, openCount, left, handle, object>>
    BY <1>6 DEF Find, platform
  <2>2. CASE \E s \in Used, arena \in BOOLEAN : Reserved(t, s, arena)
    BY <2>1, <2>2, ReservedInv
  <2>3. CASE UNCHANGED slots /\ Return(t)
    BY <2>1, <2>3, RestInv
  <2> QED
    BY <1>6, <2>2, <2>3 DEF Find
<1>7. CASE Build(t) \/ BuildNot(t) \/ Give(t)
  BY <1>7, BuildInv, BuildNotInv, GiveInv
<1>8. CASE \E o \in Objects : Dup(t, o) \/ Delete(t, o) \/ Destroy(t, o)
  BY <1>8, DupInv, DeleteInv, DestroyInv
<1>9. CASE Freed(t) \/ CountOpen(t) \/ CountImage(t) \/ CountSlot(t)
  BY <1>9, FreedInv, CountOpenInv, CountSlotInv
<1>10. CASE UnloadNot(t) \/ UnloadOne(t) \/ UnloadLast(t) \/ CloseGone(t)
  BY <1>10, UnloadNotInv, UnloadOneInv, UnloadLastInv, CloseGoneInv
<1> QED
  BY <1>1, <1>2, <1>3, <1>4, <1>5, <1>6, <1>7, <1>8, <1>9, <1>10 DEF Step

\* The loader keeps PluginInv, whatever the threads do (loaded.c, plugin.c).
THEOREM PluginInvHolds == PluginSpec => []PluginInv
<1>1. PluginInit => PluginInv
  BY FirstInv
<1>2. PluginInv /\ [PluginNext]_pluginVars => PluginInv'
  BY StepInv, StutterInv DEF PluginNext
<1> QED
  BY <1>1, <1>2, PTL DEF PluginSpec

\* No library is closed under an object of it, nor under a thread that builds,
\* copies or ends one: anti_rt_plugin_unload sees a live count of 0 only when
\* nothing of the library is in use.
THEOREM CodeAlwaysStays == PluginSpec => []CodeStays
<1>1. PluginInv => CodeStays
  <2> SUFFICES ASSUME PluginInv PROVE CodeStays
    OBVIOUS
  <2>1. ASSUME NEW o \in Objects, object[o] # None PROVE Mapped(object[o])
    <3>1. object[o] \in Images /\ HasSlot(slots, object[o])
      BY <2>1 DEF PluginInv, PluginShape, HoldOK
    <3> QED
      BY <3>1, ImageMapped DEF Mapped
  <2>2. ASSUME NEW t \in Threads, InLibrary(t) PROVE Mapped(my[t].image)
    <3>1. at[t] \in Coding
      BY <2>2 DEF InLibrary, Coding, Hooking
    <3>2. my[t] \in Locals /\ my[t].image # None /\ HasSlot(slots, my[t].image)
      BY <3>1 DEF PluginInv, PluginShape, CallsOK, CallOK, HoldOK
    <3>3. my[t].image \in Images
      BY <3>2 DEF Locals
    <3> QED
      BY <3>2, <3>3, ImageMapped DEF Mapped
  <2> QED
    BY <2>1, <2>2 DEF CodeStays
<1> QED
  BY <1>1, PluginInvHolds, PTL

\* The counts of a library are exact in every state: of its objects, those that are
\* being made and ended included, of its loads, and of its opens by the platform.
THEOREM CountsAlwaysExact == PluginSpec => []CountsExact
<1>1. PluginInv => CountsExact
  <2> SUFFICES ASSUME PluginInv PROVE CountsExact
    OBVIOUS
  <2>1. PluginTypeOK
    <3>1. \A t \in Threads : my[t] \in Locals
      BY DEF PluginInv, PluginShape
    <3>2. \A t \in Threads : my[t].image \in Images \cup {None}
      BY <3>1 DEF Locals
    <3> QED
      BY <3>2 DEF PluginInv, PluginShape, PluginTypeOK
  <2>2. OpensMatch
    <3>1. openCount = Cardinality(Used)
      BY DEF PluginInv, OpensOK
    <3>2. ASSUME NEW f \in Libs
          PROVE  /\ refs[f] = Cardinality({s \in Used : slots[s].lib = f})
                              + Cardinality({t \in Threads : my[t].lib = f})
                 /\ Cardinality({s \in Used : slots[s].lib = f}) <= 1
      <4> DEFINE A == {s \in Used : slots[s].lib = f}
      <4>1. A = SlotsFor(f) /\ A \subseteq Slots
        BY DEF SlotsFor, Used
      <4>2. refs[f] = Cardinality(A) + Cardinality({t \in Threads : my[t].lib = f})
        BY <4>1 DEF PluginInv, OpensOK, Holders
      <4>3. \A s, r \in A : s = r
        BY DEF PluginInv, PlatformOK
      <4> HIDE DEF A
      <4>4. Cardinality(A) <= 1
        <5>1. CASE A = {}
          BY <5>1, FS_EmptySet
        <5>2. CASE A # {}
          <6>1. PICK s \in A : A = {s}
            BY <4>3, <5>2
          <6>2. Cardinality({s}) = 1
            BY FS_Singleton
          <6> QED
            BY <6>1, <6>2
        <5> QED
          BY <5>1, <5>2
      <4> QED
        BY <4>2, <4>4 DEF A
    <3> QED
      BY <3>1, <3>2 DEF OpensMatch
  <2> QED
    BY <2>1, <2>2 DEF PluginInv, LiveOK, CountsExact
<1> QED
  BY <1>1, PluginInvHolds, PTL
==============================================================================
