------------------------- MODULE ConcurrentMapProofs -------------------------
(* What anti.collection.ConcurrentMap promises, for any callers, maps, parts,  *)
(* keys and values.  The invariant MapInv speaks of a part (PartOK), of the    *)
(* size, and of the call and the token of each caller, in terms of what the    *)
(* call has done so far.                                                       *)
EXTENDS ConcurrentMap, FiniteSetTheorems, SequenceTheorems, WellFoundedInduction,
        NaturalsInduction, TLAPS

-----------------------------------------------------------------------------
(* The invariant *)

\* The tables of a part: some of the keys, each with an element of S.
Tables(S) == UNION {[K -> S] : K \in SUBSET Keys}

\* The keys that belong in part r.
Home(r) == {k \in Keys : partOf[k] = r[2]}

\* A part with home keys H: entries e, versions vs and the clock c.
PartOK(H, e, vs, c) ==
    /\ e \in Tables(Values) /\ vs \in Tables(Nat)
    /\ DOMAIN e \subseteq H /\ DOMAIN vs = DOMAIN e
    /\ c \in 0 .. MaxChanges
    /\ \A k \in DOMAIN vs : vs[k] \in 1 .. c
    /\ \A k, j \in DOMAIN vs : vs[j] = vs[k] => j = k

Walks(M) == [op : {"walk"}, m : M, at : 1 .. NParts + 1, seen : SUBSET Keys,
             always : SUBSET Keys, ever : SUBSET Keys]
SweepCalls(M) == [op : Sweeps, m : M, at : Parts, test : SUBSET Values, v : Values]
Copies(M) == [op : {"copy"}, m : M, to : Maps \ M, at : 1 .. NParts + 1, total : Nat]
OneCalls(M) == [op : Ones, todo : Seq(Rooms), m : M, test : SUBSET Values,
                v : Values, n : Int]
Equals == [op : {"equal"}, todo : Seq(Rooms)]

\* The calls under way while the maps M can be reached.
CallsOver(M) == {NoMapCall} \cup Walks(M) \cup SweepCalls(M) \cup Copies(M)
                \cup OneCalls(M) \cup Equals

Tokens(M) == [version : Nat, m : M, k : Keys, stale : BOOLEAN]

MapShape ==
    /\ partOf \in [Keys -> Parts] /\ made \subseteq Maps
    /\ entries \in [Rooms -> Tables(Values)]
    /\ versions \in [Rooms -> Tables(Nat)]
    /\ clock \in [Rooms -> Nat]
    /\ lock \in [Rooms -> Callers \cup {NoThread}]
    /\ size \in [Maps -> Nat]
    /\ mapCall \in [Callers -> CallsOver(made)]
    /\ token \in [Callers -> {NoToken} \cup Tokens(made)]

PartsOK == \A r \in Rooms : PartOK(Home(r), entries[r], versions[r], clock[r])

\* The keys in parts lo to hi of map m, in the entries E.
Span(E, m, lo, hi) == UNION {DOMAIN E[<<m, p>>] : p \in lo .. hi}

\* size counts the entries of a map from the moment it can be reached.
SizeOK == \A m \in Maps : size[m] = IF m \in made THEN Cardinality(KeysOf(m)) ELSE 0

\* A copy has counted what it has filled so far, and each copy fills its own map.
CopyOK ==
    /\ \A t \in Callers : mapCall[t].op = "copy" =>
          mapCall[t].total = Cardinality(Span(entries, mapCall[t].to, 1, mapCall[t].at - 1))
    /\ \A t, u \in Callers :
          (mapCall[t].op = "copy" /\ mapCall[u].op = "copy"
              /\ mapCall[t].to = mapCall[u].to) => t = u

\* A walk has seen what was there all along, but for the parts it has ahead, and
\* counts among `ever` what it saw and what is there now.
WalkOK(c, E) ==
    c.op = "walk" =>
        /\ c.always \subseteq c.seen \cup Span(E, c.m, c.at, NParts)
        /\ c.seen \subseteq c.ever
        /\ Span(E, c.m, 1, NParts) \subseteq c.ever

\* The order in which every call takes the Mutexes.
Before(r, s) == r[1] < s[1] \/ (r[1] = s[1] /\ r[2] < s[2])

\* Thread t in call c with the locks L: it has what comes before the rest of its
\* list, and an `_one` form has the parts that are no longer on it.
LockOK(t, c, L) ==
    /\ c.op \notin Ones \cup {"equal"} => \A r \in Rooms : L[r] # t
    /\ c.op \in Ones \cup {"equal"} =>
          /\ \A i, j \in 1 .. Len(c.todo) : i < j => Before(c.todo[i], c.todo[j])
          /\ \A r \in Rooms : L[r] = t => \A i \in 1 .. Len(c.todo) : Before(r, c.todo[i])
    /\ c.op \in Ones =>
          /\ \A p \in Parts : \/ L[<<c.m, p>>] = t
                              \/ \E i \in 1 .. Len(c.todo) : c.todo[i] = <<c.m, p>>
          /\ c.n >= 0 => c.todo = <<>>

\* The keys of map m that the test accepts, in the entries E.
Matching(E, m, test) ==
    UNION {{k \in DOMAIN E[<<m, p>>] : E[<<m, p>>][k] \in test} : p \in Parts}

\* An `_one` form that has counted counted what is there.
OneOK(c, E) ==
    (c.op \in Ones /\ c.todo = <<>> /\ c.n >= 0) =>
        c.n = Cardinality(Matching(E, c.m, c.test))

\* A token is stale exactly when its version is no longer that of its key, and
\* never comes from the future, so that no later stamp meets it.
TokenOK(x, V, C, P) ==
    x # NoToken =>
        LET r == <<x.m, P[x.k]>> IN
        /\ x.version <= C[r]
        /\ x.stale <=> ~(x.k \in DOMAIN V[r] /\ V[r][x.k] = x.version)

MapInv ==
    /\ MapShape /\ PartsOK /\ SizeOK /\ CopyOK
    /\ \A t \in Callers : /\ WalkOK(mapCall[t], entries)
                          /\ LockOK(t, mapCall[t], lock)
                          /\ OneOK(mapCall[t], entries)
                          /\ TokenOK(token[t], versions, clock, partOf)

-----------------------------------------------------------------------------
(* Tables and parts *)

LEMMA InTables ==
  ASSUME NEW S, NEW f
  PROVE  f \in Tables(S) <=> /\ DOMAIN f \subseteq Keys
                             /\ f \in [DOMAIN f -> S]
<1>1. ASSUME f \in Tables(S) PROVE DOMAIN f \subseteq Keys /\ f \in [DOMAIN f -> S]
  <2>1. PICK K \in SUBSET Keys : f \in [K -> S]
    BY <1>1 DEF Tables
  <2> QED
    BY <2>1
<1>2. ASSUME DOMAIN f \subseteq Keys, f \in [DOMAIN f -> S] PROVE f \in Tables(S)
  BY <1>2 DEF Tables
<1> QED
  BY <1>1, <1>2

LEMMA FiniteKeys ==
  ASSUME NEW K, K \subseteq Keys
  PROVE  /\ IsFiniteSet(K) /\ Cardinality(K) \in Nat
         /\ Cardinality(K) <= Cardinality(Keys) /\ Cardinality(Keys) \in Nat
<1>1. IsFiniteSet(Keys) /\ K \in SUBSET Keys
  BY MapAssumption
<1>2. IsFiniteSet(K) /\ Cardinality(K) <= Cardinality(Keys)
  BY <1>1, FS_Subset
<1> QED
  BY <1>1, <1>2, FS_CardinalityType

\* The keys in A, with those of D replaced by E.
LEMMA SwapCount ==
  ASSUME NEW A, NEW D, NEW E, A \subseteq Keys, E \subseteq Keys,
         D \subseteq A, E \cap (A \ D) = {}
  PROVE  Cardinality((A \ D) \cup E) = Cardinality(A) - Cardinality(D) + Cardinality(E)
<1> DEFINE R == A \ D
<1>1. /\ IsFiniteSet(A) /\ IsFiniteSet(E) /\ IsFiniteSet(R) /\ IsFiniteSet(D)
      /\ Cardinality(A) \in Nat /\ Cardinality(E) \in Nat
      /\ Cardinality(R) \in Nat /\ Cardinality(D) \in Nat
  BY FiniteKeys
<1>2. A \cap D = D
  OBVIOUS
<1>3. Cardinality(R) = Cardinality(A) - Cardinality(D)
  BY <1>1, <1>2, FS_Difference
<1>4. R \cap E = {}
  OBVIOUS
<1> HIDE DEF R
<1>5. Cardinality(R \cup E) = Cardinality(R) + Cardinality(E) - Cardinality(R \cap E)
  BY <1>1, FS_Union
<1>6. Cardinality(R \cap E) = 0
  BY <1>4, FS_EmptySet
<1>7. Cardinality(R \cup E) = Cardinality(R) + Cardinality(E)
  BY <1>1, <1>5, <1>6
<1> QED
  BY <1>1, <1>3, <1>7 DEF R

\* The stamps of changed are new and differ from each other.
LEMMA StampsFresh ==
  ASSUME NEW r, NEW K, K \subseteq Keys, clock[r] \in Nat, versions[r] \in Tables(Nat)
  PROVE  LET vs == Stamped(r, K) IN
         /\ DOMAIN vs = DOMAIN versions[r] \cup K
         /\ vs \in Tables(Nat)
         /\ \A k \in K : vs[k] \in clock[r] + 1 .. clock[r] + Cardinality(K)
         /\ \A j, k \in K : vs[j] = vs[k] => j = k
         /\ \A k \in DOMAIN versions[r] \ K : vs[k] = versions[r][k]
<1> DEFINE n == Cardinality(K)
           I == 1 .. n
           Good(s) == s \in [I -> K] /\ \A i, j \in DOMAIN s : s[i] = s[j] => i = j
           order == CHOOSE s \in [I -> K] : \A i, j \in DOMAIN s : s[i] = s[j] => i = j
           at(k) == CHOOSE i \in DOMAIN order : order[i] = k
<1>1. IsFiniteSet(K) /\ n \in Nat
  BY FiniteKeys
<1>2. ExistsBijection(I, K)
  BY <1>1, FS_CardinalityType
<1>3. \E s : Good(s)
  BY <1>2 DEF ExistsBijection, Bijection, Injection, Surjection, IsInjective
<1>4. Good(order)
  BY <1>3
<1>5. IsFiniteSet(I) /\ Cardinality(I) = n
  BY <1>1, FS_Interval
<1> HIDE DEF order
<1>6. order \in Injection(I, K)
  BY <1>4 DEF Injection, IsInjective
<1>7. order \in Surjection(I, K)
  BY <1>1, <1>5, <1>6, FS_Injection
<1>8. \A k \in K : at(k) \in I /\ order[at(k)] = k
  BY <1>4, <1>7 DEF Surjection
<1> HIDE DEF at
<1> DEFINE vs == Stamped(r, K)
<1>9. vs = [k \in DOMAIN versions[r] \cup K |-> IF k \in K THEN clock[r] + at(k)
                                                ELSE versions[r][k]]
  BY DEF Stamped, at, order
<1> HIDE DEF vs, I
<1>10. /\ \A k \in K : vs[k] = clock[r] + at(k)
       /\ \A k \in DOMAIN versions[r] \ K : vs[k] = versions[r][k]
       /\ DOMAIN vs = DOMAIN versions[r] \cup K
       /\ vs = [k \in DOMAIN vs |-> vs[k]]
  BY <1>9
<1>11. \A k \in K : at(k) \in Nat /\ 1 <= at(k) /\ at(k) <= n
  BY <1>1, <1>8 DEF I
<1>12. \A k \in K : vs[k] \in clock[r] + 1 .. clock[r] + n
  BY <1>1, <1>10, <1>11
<1>13. \A j, k \in K : vs[j] = vs[k] => j = k
  <2> SUFFICES ASSUME NEW j \in K, NEW k \in K, vs[j] = vs[k] PROVE j = k
    OBVIOUS
  <2>1. at(j) = at(k)
    BY <1>10, <1>11
  <2> QED
    BY <1>8, <2>1
<1>14. DOMAIN versions[r] \subseteq Keys /\ \A k \in DOMAIN versions[r] : versions[r][k] \in Nat
  <2>1. versions[r] \in [DOMAIN versions[r] -> Nat]
    BY InTables
  <2> QED
    BY <2>1, InTables
<1>15. \A k \in DOMAIN vs : vs[k] \in Nat
  <2> SUFFICES ASSUME NEW k \in DOMAIN vs PROVE vs[k] \in Nat
    OBVIOUS
  <2>1. CASE k \in K
    BY <1>10, <1>11, <2>1
  <2>2. CASE k \notin K
    BY <1>10, <1>14, <2>2
  <2> QED
    BY <2>1, <2>2
<1>16. vs \in [DOMAIN vs -> Nat]
  BY <1>10, <1>15
<1>17. vs \in Tables(Nat)
  BY <1>10, <1>14, <1>16, InTables
<1> QED
  BY <1>10, <1>12, <1>13, <1>17 DEF vs, n

\* The versions vs with the clock c come of vs0 with c0 by a change of K: the other
\* keys keep theirs, and those of K that are left have one past the old clock.
Restamped(vs0, c0, vs, c, K) ==
    /\ c0 <= c
    /\ \A k \in Keys \ K : /\ k \in DOMAIN vs <=> k \in DOMAIN vs0
                           /\ k \in DOMAIN vs => vs[k] = vs0[k]
    /\ \A k \in K : k \in DOMAIN vs => vs[k] > c0

LEMMA WritePart ==
  ASSUME NEW r, NEW H, H \subseteq Keys, PartOK(H, entries[r], versions[r], clock[r]),
         NEW K, K \subseteq H, NEW v \in Values,
         clock[r] + Cardinality(K) <= MaxChanges
  PROVE  LET e == [k \in DOMAIN entries[r] \cup K |-> IF k \in K THEN v ELSE entries[r][k]]
             vs == Stamped(r, K)
             c == clock[r] + Cardinality(K)
         IN /\ PartOK(H, e, vs, c)
            /\ Restamped(versions[r], clock[r], vs, c, K)
            /\ DOMAIN e = DOMAIN entries[r] \cup K
<1> DEFINE e0 == entries[r]
           vs0 == versions[r]
           c0 == clock[r]
           n == Cardinality(K)
           e == [k \in DOMAIN e0 \cup K |-> IF k \in K THEN v ELSE e0[k]]
           vs == Stamped(r, K)
           c == c0 + n
<1>1. /\ e0 \in Tables(Values) /\ vs0 \in Tables(Nat)
      /\ DOMAIN e0 \subseteq H /\ DOMAIN vs0 = DOMAIN e0
      /\ c0 \in 0 .. MaxChanges
      /\ \A k \in DOMAIN vs0 : vs0[k] \in 1 .. c0
      /\ \A k, j \in DOMAIN vs0 : vs0[j] = vs0[k] => j = k
  BY DEF PartOK
<1>2. n \in Nat /\ c0 \in Nat /\ c \in 0 .. MaxChanges /\ c0 <= c
  <2>1. n \in Nat
    BY FiniteKeys
  <2> QED
    BY <1>1, <2>1, MapAssumption
<1>3. /\ DOMAIN vs = DOMAIN vs0 \cup K
      /\ vs \in Tables(Nat)
      /\ \A k \in K : vs[k] \in c0 + 1 .. c0 + n
      /\ \A j, k \in K : vs[j] = vs[k] => j = k
      /\ \A k \in DOMAIN vs0 \ K : vs[k] = vs0[k]
  BY <1>1, <1>2, StampsFresh
<1>4. e0 \in [DOMAIN e0 -> Values] /\ DOMAIN e0 \subseteq Keys
  BY <1>1, InTables
<1>5. e \in [DOMAIN e -> Values] /\ DOMAIN e = DOMAIN e0 \cup K
  BY <1>4
<1>6. e \in Tables(Values) /\ DOMAIN e = DOMAIN e0 \cup K
  BY <1>4, <1>5, InTables
<1> HIDE DEF e, vs, e0, vs0, c0, n
<1>7. \A k \in DOMAIN vs : vs[k] \in 1 .. c
  <2> SUFFICES ASSUME NEW k \in DOMAIN vs PROVE vs[k] \in 1 .. c
    OBVIOUS
  <2>1. CASE k \in K
    BY <1>2, <1>3, <2>1
  <2>2. CASE k \notin K
    <3>1. vs[k] \in 1 .. c0
      BY <1>1, <1>3, <2>2
    <3> QED
      BY <1>2, <3>1
  <2> QED
    BY <2>1, <2>2
<1>8. \A k, j \in DOMAIN vs : vs[j] = vs[k] => j = k
  <2> SUFFICES ASSUME NEW k \in DOMAIN vs, NEW j \in DOMAIN vs, vs[j] = vs[k] PROVE j = k
    OBVIOUS
  <2>1. ASSUME NEW x \in DOMAIN vs PROVE x \in K <=> vs[x] > c0
    <3>1. CASE x \in K
      BY <1>2, <1>3, <3>1
    <3>2. CASE x \notin K
      BY <1>1, <1>2, <1>3, <3>2
    <3> QED
      BY <3>1, <3>2
  <2>2. j \in K <=> k \in K
    BY <2>1
  <2> QED
    BY <1>1, <1>3, <2>2
<1>9. PartOK(H, e, vs, c)
  BY <1>1, <1>2, <1>3, <1>6, <1>7, <1>8 DEF PartOK
<1>10. Restamped(vs0, c0, vs, c, K)
  <2>1. ASSUME NEW k \in K PROVE vs[k] > c0
    BY <1>2, <1>3, <2>1
  <2>2. ASSUME NEW k \in Keys \ K
        PROVE  (k \in DOMAIN vs <=> k \in DOMAIN vs0) /\ (k \in DOMAIN vs => vs[k] = vs0[k])
    BY <1>3
  <2> QED
    BY <1>2, <2>1, <2>2 DEF Restamped
<1> QED
  BY <1>6, <1>9, <1>10 DEF e, vs, e0, vs0, c0, n

LEMMA ErasePart ==
  ASSUME NEW H, H \subseteq Keys, NEW e, NEW vs, NEW c, PartOK(H, e, vs, c),
         NEW K, K \subseteq DOMAIN e
  PROVE  /\ PartOK(H, Drop(e, K), Drop(vs, K), c)
         /\ Restamped(vs, c, Drop(vs, K), c, K)
         /\ DOMAIN Drop(e, K) = DOMAIN e \ K
<1>1. /\ e \in [DOMAIN e -> Values] /\ DOMAIN e \subseteq Keys
      /\ vs \in [DOMAIN vs -> Nat] /\ DOMAIN vs = DOMAIN e /\ c \in Nat
  BY InTables DEF PartOK
<1> DEFINE e1 == Drop(e, K)
           vs1 == Drop(vs, K)
<1>2. /\ e1 \in [DOMAIN e1 -> Values] /\ DOMAIN e1 = DOMAIN e \ K
      /\ vs1 \in [DOMAIN vs1 -> Nat] /\ DOMAIN vs1 = DOMAIN vs \ K
      /\ \A k \in DOMAIN vs1 : vs1[k] = vs[k]
  BY <1>1 DEF Drop
<1> HIDE DEF e1, vs1
<1>3. e1 \in Tables(Values) /\ vs1 \in Tables(Nat)
  BY <1>1, <1>2, InTables
<1>4. PartOK(H, e1, vs1, c)
  BY <1>1, <1>2, <1>3 DEF PartOK
<1>5. Restamped(vs, c, vs1, c, K)
  BY <1>1, <1>2 DEF Restamped
<1> QED
  BY <1>2, <1>4, <1>5 DEF e1, vs1

LEMMA PutPart ==
  ASSUME NEW H, H \subseteq Keys, NEW e, NEW vs, NEW c, PartOK(H, e, vs, c),
         NEW k \in DOMAIN e, NEW v \in Values, c + 1 <= MaxChanges
  PROVE  /\ PartOK(H, PutEntry(e, k, v), PutEntry(vs, k, c + 1), c + 1)
         /\ Restamped(vs, c, PutEntry(vs, k, c + 1), c + 1, {k})
         /\ DOMAIN PutEntry(e, k, v) = DOMAIN e
<1>1. /\ e \in [DOMAIN e -> Values] /\ DOMAIN e \subseteq Keys
      /\ vs \in [DOMAIN vs -> Nat] /\ DOMAIN vs = DOMAIN e /\ c \in Nat
      /\ c + 1 \in 0 .. MaxChanges
  BY InTables, MapAssumption DEF PartOK
<1>2. /\ \A x \in DOMAIN vs : vs[x] \in 1 .. c
      /\ \A x, j \in DOMAIN vs : vs[j] = vs[x] => j = x
      /\ DOMAIN e \subseteq H
  BY DEF PartOK
<1> DEFINE e1 == PutEntry(e, k, v)
           vs1 == PutEntry(vs, k, c + 1)
<1>3. /\ e1 \in [DOMAIN e1 -> Values] /\ DOMAIN e1 = DOMAIN e
      /\ vs1 \in [DOMAIN vs1 -> Nat] /\ DOMAIN vs1 = DOMAIN vs
      /\ \A x \in DOMAIN vs1 : vs1[x] = IF x = k THEN c + 1 ELSE vs[x]
  BY <1>1 DEF PutEntry
<1> HIDE DEF e1, vs1
<1>4. e1 \in Tables(Values) /\ vs1 \in Tables(Nat)
  BY <1>1, <1>3, InTables
<1>5. \A x \in DOMAIN vs1 : vs1[x] \in 1 .. c + 1
  BY <1>1, <1>2, <1>3
<1>6. \A x, j \in DOMAIN vs1 : vs1[j] = vs1[x] => j = x
  BY <1>1, <1>2, <1>3
<1>7. PartOK(H, e1, vs1, c + 1)
  BY <1>1, <1>2, <1>3, <1>4, <1>5, <1>6 DEF PartOK
<1>8. Restamped(vs, c, vs1, c + 1, {k})
  BY <1>1, <1>3 DEF Restamped
<1> QED
  BY <1>3, <1>7, <1>8 DEF e1, vs1

\* The clock of a part is not past the changes of its map.
LEMMA ClockBound ==
  ASSUME NEW m, NEW p \in Parts, clock[<<m, p>>] \in 0 .. MaxChanges
  PROVE  Changes(m) \in Nat /\ clock[<<m, p>>] <= Changes(m)
<1> DEFINE A == Parts \X (1 .. MaxChanges)
           S == {x \in A : x[2] <= clock[<<m, x[1]>>]}
           c == clock[<<m, p>>]
           T == {p} \X (1 .. c)
<1>1. IsFiniteSet(A)
  <2>1. IsFiniteSet(1 .. NParts) /\ IsFiniteSet(1 .. MaxChanges)
    BY FS_Interval, MapAssumption
  <2> QED
    BY <2>1, FS_Product DEF Parts
<1>2. IsFiniteSet(S) /\ Cardinality(S) \in Nat
  <2>1. S \in SUBSET A
    OBVIOUS
  <2>2. IsFiniteSet(S)
    BY <1>1, <2>1, FS_Subset
  <2> QED
    BY <2>2, FS_CardinalityType
<1>3. T \in SUBSET S
  BY MapAssumption
<1>4. IsFiniteSet({p}) /\ Cardinality({p}) = 1
  BY FS_Singleton
<1>5. IsFiniteSet(1 .. c) /\ Cardinality(1 .. c) = c
  <2>1. c \in Int /\ 1 \in Int /\ c >= 0
    BY MapAssumption
  <2> HIDE DEF c
  <2>2. IsFiniteSet(1 .. c) /\ Cardinality(1 .. c) = IF 1 > c THEN 0 ELSE c - 1 + 1
    BY <2>1, FS_Interval
  <2> QED
    BY <2>1, <2>2
<1>6. Cardinality(T) = 1 * c
  BY <1>4, <1>5, FS_Product
<1>7. Cardinality(T) <= Cardinality(S)
  BY <1>2, <1>3, FS_Subset
<1>8. c \in Nat
  BY MapAssumption
<1> HIDE DEF A, S, T, c
<1>9. c <= Cardinality(S)
  BY <1>6, <1>7, <1>8
<1> QED
  BY <1>2, <1>9 DEF A, S, c, Changes

-----------------------------------------------------------------------------
(* A body of thread t that leaves part p of map m with the entries e, the      *)
(* versions vs and the clock c, changes the keys K, and keeps the size.        *)

RoomStep(t, m, p, e, vs, c, K) ==
    LET r == <<m, p>> IN
    /\ PartOK(Home(r), e, vs, c)
    /\ Restamped(versions[r], clock[r], vs, c, K)
    /\ K \subseteq Home(r)
    /\ lock[r] \in {NoThread, t}
    /\ entries' = [entries EXCEPT ![r] = e]
    /\ versions' = [versions EXCEPT ![r] = vs]
    /\ clock' = [clock EXCEPT ![r] = c]
    /\ size' = [size EXCEPT ![m] = @ + Cardinality(DOMAIN e)
                                     - Cardinality(DOMAIN entries[r])]
    /\ UNCHANGED <<partOf, made>>

LEMMA RoomParts ==
  ASSUME MapShape, PartsOK, NEW t, NEW m \in made, NEW p \in Parts,
         NEW e, NEW vs, NEW c, NEW K, RoomStep(t, m, p, e, vs, c, K)
  PROVE  /\ PartsOK'
         /\ entries' \in [Rooms -> Tables(Values)]
         /\ versions' \in [Rooms -> Tables(Nat)]
         /\ clock' \in [Rooms -> Nat]
<1> DEFINE r == <<m, p>>
<1>1. r \in Rooms
  BY DEF MapShape, Rooms
<1>2. /\ entries \in [Rooms -> Tables(Values)] /\ versions \in [Rooms -> Tables(Nat)]
      /\ clock \in [Rooms -> Nat]
  BY DEF MapShape
<1>3. /\ PartOK(Home(r), e, vs, c) /\ entries' = [entries EXCEPT ![r] = e]
      /\ versions' = [versions EXCEPT ![r] = vs] /\ clock' = [clock EXCEPT ![r] = c]
      /\ partOf' = partOf
  BY DEF RoomStep
<1> HIDE DEF r
<1>4. e \in Tables(Values) /\ vs \in Tables(Nat) /\ c \in Nat
  BY <1>3, MapAssumption DEF PartOK
<1>5. \A s \in Rooms : /\ entries'[s] = IF s = r THEN e ELSE entries[s]
                       /\ versions'[s] = IF s = r THEN vs ELSE versions[s]
                       /\ clock'[s] = IF s = r THEN c ELSE clock[s]
  BY <1>1, <1>2, <1>3
<1>6. \A s : Home(s)' = Home(s)
  BY <1>3 DEF Home
<1>7. \A s \in Rooms : PartOK(Home(s), entries'[s], versions'[s], clock'[s])
  BY <1>3, <1>5 DEF PartsOK
<1>8. PartsOK'
  BY <1>6, <1>7 DEF PartsOK
<1> QED
  BY <1>1, <1>2, <1>3, <1>4, <1>8

\* What is where after the step.
LEMMA RoomKeys ==
  ASSUME MapShape, PartsOK, NEW t, NEW m \in made, NEW p \in Parts,
         NEW e, NEW vs, NEW c, NEW K, RoomStep(t, m, p, e, vs, c, K)
  PROVE  /\ KeysOf(m)' = (KeysOf(m) \ DOMAIN entries[<<m, p>>]) \cup DOMAIN e
         /\ KeysOf(m) \subseteq Keys /\ DOMAIN entries[<<m, p>>] \subseteq KeysOf(m)
         /\ DOMAIN e \subseteq Keys
         /\ DOMAIN e \cap (KeysOf(m) \ DOMAIN entries[<<m, p>>]) = {}
         /\ \A n \in Maps : n # m => KeysOf(n)' = KeysOf(n)
<1> DEFINE D(q) == DOMAIN entries[<<m, q>>]
           DD(q) == DOMAIN entries'[<<m, q>>]
<1>1. \A n \in Maps, q \in Parts :
         entries'[<<n, q>>] = IF n = m /\ q = p THEN e ELSE entries[<<n, q>>]
  BY DEF RoomStep, MapShape, Rooms
<1>2. \A q \in Parts : D(q) \subseteq {k \in Keys : partOf[k] = q}
  BY DEF PartsOK, PartOK, MapShape, Rooms, Home
<1>3. DOMAIN e \subseteq {k \in Keys : partOf[k] = p}
  BY DEF RoomStep, PartOK, Home
<1>4. \A q \in Parts : DD(q) = IF q = p THEN DOMAIN e ELSE D(q)
  BY <1>1 DEF MapShape
<1>5. KeysOf(m) = UNION {D(q) : q \in Parts} /\ KeysOf(m)' = UNION {DD(q) : q \in Parts}
  BY DEF KeysOf
<1> HIDE DEF D, DD
<1>6. /\ UNION {D(q) : q \in Parts} \subseteq Keys
      /\ D(p) \subseteq UNION {D(q) : q \in Parts}
      /\ DOMAIN e \cap ((UNION {D(q) : q \in Parts}) \ D(p)) = {}
  BY <1>2, <1>3
<1>7. UNION {DD(q) : q \in Parts} = ((UNION {D(q) : q \in Parts}) \ D(p)) \cup DOMAIN e
  <2>1. ASSUME NEW k \in UNION {DD(q) : q \in Parts}
        PROVE  k \in ((UNION {D(q) : q \in Parts}) \ D(p)) \cup DOMAIN e
    <3>1. PICK q \in Parts : k \in DD(q)
      OBVIOUS
    <3> QED
      BY <1>2, <1>4, <3>1
  <2>2. ASSUME NEW k \in ((UNION {D(q) : q \in Parts}) \ D(p)) \cup DOMAIN e
        PROVE  k \in UNION {DD(q) : q \in Parts}
    <3>1. CASE k \in DOMAIN e
      BY <1>4, <3>1
    <3>2. CASE k \notin DOMAIN e
      <4>1. PICK q \in Parts : k \in D(q) /\ q # p
        BY <3>2
      <4> QED
        BY <1>4, <4>1
    <3> QED
      BY <3>1, <3>2
  <2> QED
    BY <2>1, <2>2
<1>8. \A n \in Maps : n # m => KeysOf(n)' = KeysOf(n)
  BY <1>1 DEF KeysOf
<1> QED
  BY <1>3, <1>5, <1>6, <1>7, <1>8 DEF D

LEMMA RoomSize ==
  ASSUME MapShape, PartsOK, SizeOK, NEW t, NEW m \in made, NEW p \in Parts,
         NEW e, NEW vs, NEW c, NEW K, RoomStep(t, m, p, e, vs, c, K)
  PROVE  SizeOK' /\ size' \in [Maps -> Nat]
<1>0. /\ KeysOf(m)' = (KeysOf(m) \ DOMAIN entries[<<m, p>>]) \cup DOMAIN e
      /\ KeysOf(m) \subseteq Keys /\ DOMAIN entries[<<m, p>>] \subseteq KeysOf(m)
      /\ DOMAIN e \subseteq Keys
      /\ DOMAIN e \cap (KeysOf(m) \ DOMAIN entries[<<m, p>>]) = {}
      /\ \A n \in Maps : n # m => KeysOf(n)' = KeysOf(n)
  BY RoomKeys
<1> DEFINE D == DOMAIN entries[<<m, p>>]
           E == DOMAIN e
           A == KeysOf(m)
<1>1. /\ A' = (A \ D) \cup E /\ A \subseteq Keys /\ D \subseteq A
      /\ E \subseteq Keys /\ E \cap (A \ D) = {}
      /\ \A n \in Maps : n # m => KeysOf(n)' = KeysOf(n)
  BY <1>0
<1>2. m \in Maps /\ size \in [Maps -> Nat] /\ size[m] = Cardinality(A)
  BY DEF MapShape, SizeOK
<1>3. made' = made /\ size' = [size EXCEPT ![m] = size[m] + Cardinality(E) - Cardinality(D)]
  BY DEF RoomStep
<1> HIDE DEF D, E
<1>4. Cardinality(A') = Cardinality(A) - Cardinality(D) + Cardinality(E)
  BY <1>1, SwapCount
<1>5. A' \subseteq Keys
  BY <1>1
<1>6. /\ Cardinality(A) \in Nat /\ Cardinality(D) \in Nat /\ Cardinality(E) \in Nat
      /\ Cardinality(A') \in Nat
  <2>1. D \subseteq Keys
    BY <1>1
  <2> HIDE DEF A
  <2> QED
    BY <1>1, <1>5, <2>1, FiniteKeys
<1>7. size'[m] = Cardinality(A')
  BY <1>2, <1>3, <1>4, <1>6
<1>8. size' \in [Maps -> Nat] /\ \A n \in Maps : n # m => size'[n] = size[n]
  <2>1. size[m] + Cardinality(E) - Cardinality(D) \in Nat
    BY <1>2, <1>4, <1>6
  <2> QED
    BY <1>2, <1>3, <2>1
<1>9. \A n \in Maps : size'[n] = IF n \in made THEN Cardinality(KeysOf(n)') ELSE 0
  BY <1>1, <1>7, <1>8 DEF SizeOK
<1>10. SizeOK'
  BY <1>3, <1>9 DEF SizeOK
<1> QED
  BY <1>8, <1>10

LEMMA RoomWalk ==
  ASSUME MapShape, PartsOK, NEW t, NEW m \in made, NEW p \in Parts,
         NEW e, NEW vs, NEW c, NEW K, RoomStep(t, m, p, e, vs, c, K),
         NEW x \in CallsOver(made), WalkOK(x, entries)
  PROVE  LET y == Witness(x, <<m, p>>, e) IN
         /\ y \in CallsOver(made) /\ WalkOK(y, entries') /\ y.op = x.op
         /\ x.op # "walk" => y = x
<1> DEFINE y == Witness(x, <<m, p>>, e)
<1>1. CASE x.op # "walk"
  BY <1>1 DEF Witness, WalkOK
<1>2. CASE x.op = "walk"
  <2>1. x \in Walks(made)
    BY <1>2 DEF CallsOver, NoMapCall, Walks, SweepCalls, Copies, OneCalls, Equals,
                Sweeps, Ones
  <2>2. /\ x.m \in made /\ x.at \in 1 .. NParts + 1 /\ x.seen \subseteq Keys
        /\ x.always \subseteq Keys /\ x.ever \subseteq Keys
    BY <2>1 DEF Walks
  <2>3. \A n \in Maps, q \in Parts :
           entries'[<<n, q>>] = IF n = m /\ q = p THEN e ELSE entries[<<n, q>>]
    BY DEF RoomStep, MapShape, Rooms
  <2>4. \A q \in 1 .. NParts : q \in Parts
    BY DEF Parts
  <2>5. x.at .. NParts \subseteq 1 .. NParts
    BY <2>2, MapAssumption
  <2>6. CASE x.m # m
    <3>1. y = x
      BY <2>6 DEF Witness
    <3>2. \A q \in Parts : entries'[<<x.m, q>>] = entries[<<x.m, q>>]
      BY <2>2, <2>3, <2>6 DEF MapShape
    <3>3. /\ Span(entries', x.m, x.at, NParts) = Span(entries, x.m, x.at, NParts)
          /\ Span(entries', x.m, 1, NParts) = Span(entries, x.m, 1, NParts)
      BY <2>4, <2>5, <3>2 DEF Span
    <3> QED
      BY <3>1, <3>3 DEF WalkOK
  <2>7. CASE x.m = m
    <3> DEFINE now == (KeysOf(m) \ DOMAIN entries[<<m, p>>]) \cup DOMAIN e
               S == Span(entries, m, x.at, NParts)
               SS == Span(entries', m, x.at, NParts)
    <3>1. now = KeysOf(m)' /\ now \subseteq Keys
      BY RoomKeys
    <3>2. y = [x EXCEPT !.always = x.always \cap now, !.ever = x.ever \cup now]
      BY <1>2, <2>7 DEF Witness
    <3> HIDE DEF y
    <3>3. /\ y.always = x.always \cap now /\ y.ever = x.ever \cup now
          /\ y.seen = x.seen /\ y.m = m /\ y.at = x.at /\ y.op = "walk"
      BY <1>2, <2>1, <2>7, <3>2 DEF Walks
    <3>4. y \in Walks(made)
      <4> HIDE DEF now
      <4> QED
        BY <2>1, <2>2, <3>1, <3>2 DEF Walks
    <3>5. ASSUME NEW k \in S, k \in now PROVE k \in SS
      <4>1. PICK q \in x.at .. NParts : k \in DOMAIN entries[<<m, q>>]
        BY DEF Span
      <4>2. q \in Parts /\ m \in Maps
        BY <2>4, <2>5 DEF MapShape
      <4>3. CASE q = p
        <5>1. k \in DOMAIN e
          BY <3>5, <4>1, <4>3
        <5> QED
          BY <2>3, <4>2, <4>3, <5>1 DEF Span
      <4>4. CASE q # p
        BY <2>3, <4>1, <4>2, <4>4 DEF Span
      <4> QED
        BY <4>3, <4>4
    <3>6. KeysOf(m)' = Span(entries', m, 1, NParts)
      BY DEF KeysOf, Span, Parts
    <3>7. x.always \subseteq x.seen \cup S /\ x.seen \subseteq x.ever
      BY <1>2, <2>7 DEF WalkOK
    <3> HIDE DEF now, S, SS
    <3>8. /\ y.always \subseteq y.seen \cup SS /\ y.seen \subseteq y.ever
          /\ Span(entries', m, 1, NParts) \subseteq y.ever
      BY <3>1, <3>3, <3>5, <3>6, <3>7
    <3>9. WalkOK(y, entries')
      BY <3>3, <3>8 DEF WalkOK, SS
    <3>10. y \in CallsOver(made)
      BY <3>4 DEF CallsOver
    <3> QED
      BY <1>2, <3>3, <3>9, <3>10 DEF y
  <2> QED
    BY <2>6, <2>7
<1> QED
  BY <1>1, <1>2

\* An `_one` form of another thread holds the parts it has counted.
LEMMA RoomOne ==
  ASSUME MapShape, NEW t, NEW m \in made, NEW p \in Parts,
         NEW e, NEW vs, NEW c, NEW K, RoomStep(t, m, p, e, vs, c, K),
         NEW u \in Callers, u # t, NEW x \in CallsOver(made),
         OneOK(x, entries), LockOK(u, x, lock)
  PROVE  OneOK(x, entries')
<1> SUFFICES ASSUME x.op \in Ones, x.todo = <<>>, x.n >= 0
             PROVE  x.n = Cardinality(Matching(entries', x.m, x.test))
  BY DEF OneOK
<1>1. x \in OneCalls(made)
  BY DEF CallsOver, NoMapCall, Walks, SweepCalls, Copies, OneCalls, Equals, Sweeps, Ones
<1>2. x.m \in Maps
  BY <1>1 DEF OneCalls, MapShape
<1>3. \A q \in Parts : lock[<<x.m, q>>] = u
  BY DEF LockOK
<1>4. \A n \in Maps, q \in Parts :
         entries'[<<n, q>>] = IF n = m /\ q = p THEN e ELSE entries[<<n, q>>]
  BY DEF RoomStep, MapShape, Rooms
<1>5. lock[<<m, p>>] # u
  BY MapAssumption DEF RoomStep
<1>6. \A q \in Parts : entries'[<<x.m, q>>] = entries[<<x.m, q>>]
  BY <1>2, <1>3, <1>4, <1>5
<1>7. Matching(entries', x.m, x.test) = Matching(entries, x.m, x.test)
  <2> DEFINE A(q) == {k \in DOMAIN entries[<<x.m, q>>] : entries[<<x.m, q>>][k] \in x.test}
             AA(q) == {k \in DOMAIN entries'[<<x.m, q>>] : entries'[<<x.m, q>>][k] \in x.test}
  <2>1. \A q \in Parts : AA(q) = A(q)
    BY <1>6
  <2>2. /\ Matching(entries, x.m, x.test) = UNION {A(q) : q \in Parts}
        /\ Matching(entries', x.m, x.test) = UNION {AA(q) : q \in Parts}
    BY DEF Matching
  <2> HIDE DEF A, AA
  <2>3. {AA(q) : q \in Parts} = {A(q) : q \in Parts}
    BY <2>1
  <2> QED
    BY <2>2, <2>3
<1> QED
  BY <1>7 DEF OneOK

\* A token after a change of the keys K of part r.
Learned(x, r, K) ==
    IF x # NoToken /\ RoomOf(x.m, x.k) = r /\ x.k \in K
    THEN [x EXCEPT !.stale = TRUE] ELSE x

\* A token learns of the change of its key, and of no other.
LEMMA RoomToken ==
  ASSUME MapShape, PartsOK, NEW t, NEW m \in made, NEW p \in Parts,
         NEW e, NEW vs, NEW c, NEW K, RoomStep(t, m, p, e, vs, c, K),
         NEW x \in {NoToken} \cup Tokens(made), TokenOK(x, versions, clock, partOf)
  PROVE  LET y == Learned(x, <<m, p>>, K) IN
         y \in {NoToken} \cup Tokens(made) /\ TokenOK(y, versions', clock', partOf')
<1> DEFINE y == Learned(x, <<m, p>>, K)
<1>0. y = IF x # NoToken /\ RoomOf(x.m, x.k) = <<m, p>> /\ x.k \in K
          THEN [x EXCEPT !.stale = TRUE] ELSE x
  BY DEF Learned
<1> HIDE DEF y
<1> USE <1>0
<1> SUFFICES y \in {NoToken} \cup Tokens(made) /\ TokenOK(y, versions', clock', partOf')
  BY DEF y
<1>1. CASE x = NoToken
  BY <1>1 DEF TokenOK
<1>2. CASE x # NoToken
  <2> DEFINE r == RoomOf(x.m, x.k)
  <2>1. x \in Tokens(made)
    BY <1>2
  <2>2. x.m \in made /\ x.k \in Keys /\ x.version \in Nat /\ x.stale \in BOOLEAN
    BY <2>1 DEF Tokens
  <2>3. r \in Rooms
    BY <2>2 DEF RoomOf, MapShape, Rooms
  <2>4. /\ x.version <= clock[r]
        /\ x.stale <=> ~(x.k \in DOMAIN versions[r] /\ versions[r][x.k] = x.version)
    BY <1>2 DEF TokenOK, RoomOf
  <2>5. /\ \A s \in Rooms : /\ versions'[s] = IF s = <<m, p>> THEN vs ELSE versions[s]
                            /\ clock'[s] = IF s = <<m, p>> THEN c ELSE clock[s]
        /\ clock[r] \in Nat /\ partOf' = partOf
    BY <2>3 DEF RoomStep, MapShape
  <2>7. y \in Tokens(made) /\ y.m = x.m /\ y.k = x.k /\ y.version = x.version
    BY <1>2, <2>1 DEF Tokens
  <2>8. <<y.m, partOf'[y.k]>> = r
    BY <2>5, <2>7 DEF RoomOf
  <2>9. CASE r # <<m, p>>
    <3>1. y = x /\ versions'[r] = versions[r] /\ clock'[r] = clock[r]
      BY <2>3, <2>5, <2>9
    <3> HIDE DEF r
    <3> QED
      BY <2>4, <2>7, <2>8, <3>1 DEF TokenOK
  <2>10. CASE r = <<m, p>>
    <3>1. versions'[r] = vs /\ clock'[r] = c
      BY <2>3, <2>5, <2>10
    <3>2. Restamped(versions[r], clock[r], vs, c, K) /\ c \in Nat
      BY <2>10, MapAssumption DEF RoomStep, PartOK
    <3>3. \A k \in DOMAIN vs : vs[k] \in Nat
      BY MapAssumption DEF RoomStep, PartOK
    <3>4. x.version <= c
      BY <2>2, <2>4, <2>5, <3>2 DEF Restamped
    <3>5. CASE x.k \in K
      <4>1. y.stale = TRUE
        BY <1>2, <2>1, <2>10, <3>5 DEF Tokens
      <4>2. x.k \in DOMAIN vs => vs[x.k] # x.version
        <5> SUFFICES ASSUME x.k \in DOMAIN vs PROVE vs[x.k] # x.version
          OBVIOUS
        <5>1. vs[x.k] > clock[r]
          BY <3>2, <3>5 DEF Restamped
        <5> HIDE DEF r
        <5> QED
          BY <2>2, <2>4, <2>5, <3>3, <5>1
      <4> HIDE DEF r
      <4> QED
        BY <2>7, <2>8, <3>1, <3>4, <4>1, <4>2 DEF TokenOK
    <3>6. CASE x.k \notin K
      <4>1. y = x
        BY <3>6
      <4>2. /\ x.k \in DOMAIN vs <=> x.k \in DOMAIN versions[r]
            /\ x.k \in DOMAIN vs => vs[x.k] = versions[r][x.k]
        BY <2>2, <3>2, <3>6 DEF Restamped
      <4> HIDE DEF r
      <4> QED
        BY <2>4, <2>7, <2>8, <3>1, <3>4, <4>1, <4>2 DEF TokenOK
    <3> QED
      BY <3>5, <3>6
  <2> QED
    BY <2>7, <2>9, <2>10
<1> QED
  BY <1>1, <1>2

\* No caller can see the map that a copy fills.
LEMMA RoomCopy ==
  ASSUME MapShape, NEW t, NEW m \in made, NEW p \in Parts,
         NEW e, NEW vs, NEW c, NEW K, RoomStep(t, m, p, e, vs, c, K),
         NEW x \in Copies(made)
  PROVE  Span(entries', x.to, 1, x.at - 1) = Span(entries, x.to, 1, x.at - 1)
<1>1. x.to \in Maps /\ x.to # m /\ x.at \in 1 .. NParts + 1
  BY DEF Copies
<1>2. \A n \in Maps, q \in Parts :
         entries'[<<n, q>>] = IF n = m /\ q = p THEN e ELSE entries[<<n, q>>]
  BY DEF RoomStep, MapShape, Rooms
<1>3. \A q \in 1 .. x.at - 1 : q \in Parts
  BY <1>1, MapAssumption DEF Parts
<1> QED
  BY <1>1, <1>2, <1>3 DEF Span

\* What a call holds depends on its own locks alone.
LEMMA LockKept ==
  ASSUME NEW u, NEW M, M \subseteq Maps, NEW x \in CallsOver(M), NEW L, NEW LL,
         LockOK(u, x, L), \A r \in Rooms : LL[r] = u <=> L[r] = u
  PROVE  LockOK(u, x, LL)
<1>1. x.op \in Ones => x.m \in Maps
  BY DEF CallsOver, NoMapCall, Walks, SweepCalls, Copies, OneCalls, Equals, Sweeps, Ones
<1>2. x.op \in Ones => \A p \in Parts : <<x.m, p>> \in Rooms
  BY <1>1 DEF Rooms
<1> QED
  BY <1>2 DEF LockOK

LEMMA WitnessLock ==
  ASSUME NEW u, NEW x, NEW y, NEW L, LockOK(u, x, L), y.op = x.op,
         x.op # "walk" => y = x
  PROVE  LockOK(u, y, L)
<1>1. CASE x.op = "walk"
  BY <1>1 DEF LockOK, Ones
<1>2. CASE x.op # "walk"
  BY <1>2
<1> QED
  BY <1>1, <1>2

\* The whole step: the thread goes on as next, and gives back its locks or has none.
LEMMA RoomInv ==
  ASSUME MapInv, NEW t \in Callers, NEW m \in made, NEW p \in Parts,
         NEW e, NEW vs, NEW c, NEW K, RoomStep(t, m, p, e, vs, c, K),
         NEW next \in {NoMapCall} \cup SweepCalls(made),
         mapCall' = [u \in Callers |-> IF u = t THEN next
                                       ELSE Witness(mapCall[u], <<m, p>>, e)],
         token' \in [Callers -> {NoToken} \cup {Learned(token[u], <<m, p>>, K) : u \in Callers}],
         \A u \in Callers : token'[u] \in {NoToken, Learned(token[u], <<m, p>>, K)},
         \/ lock' = lock /\ mapCall[t].op \notin Ones \cup {"equal"}
         \/ lock' = Unlocked(t)
  PROVE  MapInv'
<1>1. /\ MapShape /\ PartsOK /\ SizeOK /\ CopyOK
      /\ \A u \in Callers : /\ WalkOK(mapCall[u], entries)
                            /\ LockOK(u, mapCall[u], lock)
                            /\ OneOK(mapCall[u], entries)
                            /\ TokenOK(token[u], versions, clock, partOf)
  BY DEF MapInv
<1>2. /\ made \subseteq Maps
      /\ \A u \in Callers : /\ mapCall[u] \in CallsOver(made)
                            /\ token[u] \in {NoToken} \cup Tokens(made)
      /\ lock \in [Rooms -> Callers \cup {NoThread}]
  BY <1>1 DEF MapShape
<1>3. made' = made /\ partOf' = partOf
  BY DEF RoomStep
<1>4. /\ PartsOK' /\ SizeOK'
      /\ entries' \in [Rooms -> Tables(Values)] /\ versions' \in [Rooms -> Tables(Nat)]
      /\ clock' \in [Rooms -> Nat] /\ size' \in [Maps -> Nat]
  BY <1>1, RoomParts, RoomSize
<1> DEFINE y(u) == Witness(mapCall[u], <<m, p>>, e)
<1>5. ASSUME NEW u \in Callers
      PROVE  /\ y(u) \in CallsOver(made) /\ WalkOK(y(u), entries')
             /\ y(u).op = mapCall[u].op
             /\ mapCall[u].op # "walk" => y(u) = mapCall[u]
  BY <1>1, <1>2, RoomWalk
<1> HIDE DEF y
<1>6. mapCall'[t] = next /\ \A u \in Callers : u # t => mapCall'[u] = y(u)
  BY DEF y
<1>7. /\ next \in CallsOver(made) /\ next.op \in {"idle"} \cup Sweeps
      /\ next.op # "walk" /\ next.op # "copy" /\ next.op \notin Ones \cup {"equal"}
  BY DEF CallsOver, NoMapCall, SweepCalls, Sweeps, Ones
<1>8. mapCall' \in [Callers -> CallsOver(made)]
  <2>1. \A u \in Callers : mapCall'[u] \in CallsOver(made)
    BY <1>5, <1>6, <1>7
  <2>2. mapCall' = [u \in Callers |-> mapCall'[u]]
    OBVIOUS
  <2> QED
    BY <2>1, <2>2
<1>9. ASSUME NEW u \in Callers
      PROVE  token'[u] \in {NoToken} \cup Tokens(made) /\ TokenOK(token'[u], versions', clock', partOf')
  <2>1. CASE token'[u] = NoToken
    BY <2>1 DEF TokenOK
  <2>2. CASE token'[u] = Learned(token[u], <<m, p>>, K)
    <3>1. token[u] \in {NoToken} \cup Tokens(made) /\ TokenOK(token[u], versions, clock, partOf)
      BY <1>1, <1>2
    <3>2. LET z == Learned(token[u], <<m, p>>, K) IN
          z \in {NoToken} \cup Tokens(made) /\ TokenOK(z, versions', clock', partOf')
      BY <1>1, <3>1, RoomToken DEF Learned
    <3> QED
      BY <2>2, <3>2
  <2> QED
    BY <2>1, <2>2
<1>10. token' \in [Callers -> {NoToken} \cup Tokens(made)]
  BY <1>9
<1>11. lock' \in [Rooms -> Callers \cup {NoThread}]
  BY <1>2 DEF Unlocked
<1>12. MapShape'
  BY <1>1, <1>3, <1>4, <1>8, <1>10, <1>11 DEF MapShape
<1>13. /\ \A r \in Rooms : lock'[r] # t
       /\ \A u \in Callers : u # t => \A r \in Rooms : lock'[r] = u <=> lock[r] = u
  <2>1. CASE lock' = lock /\ mapCall[t].op \notin Ones \cup {"equal"}
    BY <1>1, <2>1 DEF LockOK
  <2>2. CASE lock' = Unlocked(t)
    BY <2>2, MapAssumption DEF Unlocked
  <2> QED
    BY <2>1, <2>2
<1>14. ASSUME NEW u \in Callers
       PROVE  /\ WalkOK(mapCall'[u], entries') /\ LockOK(u, mapCall'[u], lock')
              /\ OneOK(mapCall'[u], entries')
  <2>1. CASE u = t
    BY <1>6, <1>7, <1>13, <2>1 DEF WalkOK, LockOK, OneOK
  <2>2. CASE u # t
    <3>1. mapCall'[u] = y(u) /\ WalkOK(y(u), entries')
      BY <1>5, <1>6, <2>2
    <3>2. LockOK(u, y(u), lock) /\ y(u) \in CallsOver(made)
      BY <1>1, <1>5, WitnessLock
    <3>3. LockOK(u, y(u), lock')
      BY <1>2, <1>13, <2>2, <3>2, LockKept
    <3>4. OneOK(y(u), entries')
      <4>1. CASE mapCall[u].op = "walk"
        BY <1>5, <4>1 DEF OneOK, Ones
      <4>2. CASE mapCall[u].op # "walk"
        <5>1. y(u) = mapCall[u] /\ OneOK(mapCall[u], entries)
          BY <1>1, <1>5, <4>2
        <5> QED
          BY <1>1, <1>2, <2>2, <3>2, <5>1, RoomOne
      <4> QED
        BY <4>1, <4>2
    <3> QED
      BY <3>1, <3>3, <3>4
  <2> QED
    BY <2>1, <2>2
<1>15. ASSUME NEW u \in Callers, mapCall'[u].op = "copy"
       PROVE  /\ mapCall'[u] = mapCall[u] /\ mapCall[u].op = "copy"
              /\ mapCall[u] \in Copies(made)
  <2>1. u # t
    BY <1>6, <1>7, <1>15
  <2>2. mapCall'[u] = mapCall[u] /\ mapCall[u].op = "copy"
    BY <1>5, <1>6, <1>15, <2>1
  <2> QED
    BY <1>2, <2>2 DEF CallsOver, NoMapCall, Walks, SweepCalls, Copies, OneCalls, Equals,
                      Sweeps, Ones
<1>16. CopyOK'
  <2>1. ASSUME NEW u \in Callers, mapCall'[u].op = "copy"
        PROVE  mapCall'[u].total =
                  Cardinality(Span(entries', mapCall'[u].to, 1, mapCall'[u].at - 1))
    <3> DEFINE x == mapCall[u]
    <3>1. mapCall'[u] = x /\ x.op = "copy" /\ x \in Copies(made)
      BY <1>15, <2>1
    <3>2. x.total = Cardinality(Span(entries, x.to, 1, x.at - 1))
      BY <1>1, <3>1 DEF CopyOK
    <3> HIDE DEF x
    <3>3. Span(entries', x.to, 1, x.at - 1) = Span(entries, x.to, 1, x.at - 1)
      BY <1>1, <3>1, RoomCopy
    <3> QED
      BY <3>1, <3>2, <3>3
  <2>2. ASSUME NEW u \in Callers, NEW w \in Callers, mapCall'[u].op = "copy",
               mapCall'[w].op = "copy", mapCall'[u].to = mapCall'[w].to
        PROVE  u = w
    BY <1>1, <1>15, <2>2 DEF CopyOK
  <2> QED
    BY <2>1, <2>2 DEF CopyOK
<1> QED
  BY <1>4, <1>9, <1>12, <1>14, <1>16 DEF MapInv

-----------------------------------------------------------------------------
(* The bodies that change a part *)

\* The lock of the part is free or the thread's own, and the thread gives back
\* what it holds.
Enters(t, r) ==
    /\ lock[r] \in {NoThread, t}
    /\ \/ lock' = lock /\ mapCall[t].op \notin Ones \cup {"equal"}
       \/ lock' = Unlocked(t)

LEMMA ChangeInv ==
  ASSUME MapInv, NEW t \in Callers, NEW m \in made, NEW p \in Parts,
         NEW e, NEW vs, NEW c, NEW K, NEW next \in {NoMapCall} \cup SweepCalls(made),
         Change(t, <<m, p>>, e, vs, c, K, next), Enters(t, <<m, p>>),
         PartOK(Home(<<m, p>>), e, vs, c),
         Restamped(versions[<<m, p>>], clock[<<m, p>>], vs, c, K),
         K \subseteq Home(<<m, p>>),
         size' = [size EXCEPT ![m] = @ + Cardinality(DOMAIN e)
                                       - Cardinality(DOMAIN entries[<<m, p>>])],
         UNCHANGED <<partOf, made>>
  PROVE  MapInv'
<1> DEFINE L(u) == Learned(token[u], <<m, p>>, K)
<1>1. RoomStep(t, m, p, e, vs, c, K)
  BY DEF RoomStep, Change, Enters
<1>2. token' = [u \in Callers |-> L(u)]
  BY DEF Change, Learned
<1> HIDE DEF L
<1>3. token' \in [Callers -> {NoToken} \cup {L(u) : u \in Callers}]
  BY <1>2
<1>4. \A u \in Callers : token'[u] \in {NoToken, L(u)}
  BY <1>2
<1>5. mapCall' = [u \in Callers |-> IF u = t THEN next
                                    ELSE Witness(mapCall[u], <<m, p>>, e)]
  BY DEF Change
<1> QED
  BY <1>1, <1>3, <1>4, <1>5, RoomInv DEF L, Enters

LEMMA PartFacts ==
  ASSUME MapInv, NEW m \in made, NEW p \in Parts
  PROVE  LET r == <<m, p>> IN
         /\ r \in Rooms /\ m \in Maps
         /\ PartOK(Home(r), entries[r], versions[r], clock[r])
         /\ Home(r) \subseteq Keys /\ DOMAIN entries[r] \subseteq Home(r)
         /\ clock[r] \in 0 .. MaxChanges /\ size \in [Maps -> Nat]
         /\ Changes(m) \in Nat /\ clock[r] <= Changes(m)
<1> DEFINE r == <<m, p>>
<1>1. r \in Rooms /\ m \in Maps /\ size \in [Maps -> Nat]
  BY DEF MapInv, MapShape, Rooms
<1>2. PartOK(Home(r), entries[r], versions[r], clock[r])
  BY <1>1 DEF MapInv, PartsOK
<1>3. DOMAIN entries[r] \subseteq Home(r) /\ clock[r] \in 0 .. MaxChanges
  BY <1>2 DEF PartOK
<1>4. Changes(m) \in Nat /\ clock[r] <= Changes(m)
  BY <1>3, ClockBound
<1> QED
  BY <1>1, <1>2, <1>3, <1>4 DEF Home

LEMMA WriteInv ==
  ASSUME MapInv, NEW t \in Callers, NEW m \in made, NEW p \in Parts,
         NEW K, K \subseteq Home(<<m, p>>), NEW v \in Values,
         NEW next \in {NoMapCall} \cup SweepCalls(made),
         Write(t, <<m, p>>, K, v, next), Enters(t, <<m, p>>),
         size' = [size EXCEPT ![m] = @ + Cardinality(DOMAIN entries[<<m, p>>] \cup K)
                                       - Cardinality(DOMAIN entries[<<m, p>>])],
         UNCHANGED <<partOf, made>>
  PROVE  MapInv'
<1> DEFINE r == <<m, p>>
           e == [k \in DOMAIN entries[r] \cup K |-> IF k \in K THEN v ELSE entries[r][k]]
           vs == Stamped(r, K)
           c == clock[r] + Cardinality(K)
<1>1. /\ PartOK(Home(r), entries[r], versions[r], clock[r]) /\ Home(r) \subseteq Keys
      /\ clock[r] \in 0 .. MaxChanges /\ Changes(m) \in Nat /\ clock[r] <= Changes(m)
  BY PartFacts
<1>2. Changes(m) + Cardinality(K) <= MaxChanges /\ Change(t, r, e, vs, c, K, next)
  BY DEF Write
<1>3. Cardinality(K) \in Nat
  <2>1. K \subseteq Keys
    BY <1>1
  <2> QED
    BY <2>1, FiniteKeys
<1>4. c <= MaxChanges
  BY <1>1, <1>2, <1>3, MapAssumption
<1>5. /\ PartOK(Home(r), e, vs, c) /\ Restamped(versions[r], clock[r], vs, c, K)
      /\ DOMAIN e = DOMAIN entries[r] \cup K
  BY <1>1, <1>4, WritePart
<1> HIDE DEF e, vs, c
<1>6. size' = [size EXCEPT ![m] = @ + Cardinality(DOMAIN e) - Cardinality(DOMAIN entries[r])]
  BY <1>5
<1> QED
  BY <1>2, <1>5, <1>6, ChangeInv

\* The size after a body: it stays when the keys were there, and grows by a key
\* that was not.
SizeFrom(m, p, S) == [size EXCEPT ![m] = @ + Cardinality(S)
                                           - Cardinality(DOMAIN entries[<<m, p>>])]
SizeLess(m, K) == [size EXCEPT ![m] = @ - Cardinality(K)]
SizeMore(m) == [size EXCEPT ![m] = @ + 1]

\* The keys in part p of map m.
Within(m, p) == DOMAIN entries[<<m, p>>]

LEMMA SizeAfter ==
  ASSUME MapInv, NEW m \in made, NEW p \in Parts
  PROVE  /\ \A K : K \subseteq Within(m, p) =>
               /\ SizeFrom(m, p, Within(m, p) \cup K) = size
               /\ SizeFrom(m, p, Within(m, p) \ K) = SizeLess(m, K)
         /\ \A k : k \notin Within(m, p) => SizeFrom(m, p, Within(m, p) \cup {k}) = SizeMore(m)
<1> DEFINE s == size[m]
           D == Within(m, p)
<1>1. s \in Nat /\ D \subseteq Keys /\ size \in [Maps -> Nat] /\ m \in Maps
  BY PartFacts DEF Within
<1>2. IsFiniteSet(D) /\ Cardinality(D) \in Nat
  BY <1>1, FiniteKeys
<1> HIDE DEF s, D
<1>3. ASSUME NEW K, K \subseteq D
      PROVE  /\ s + Cardinality(D \cup K) - Cardinality(D) = s
             /\ s + Cardinality(D \ K) - Cardinality(D) = s - Cardinality(K)
  <2>1. D \cup K = D /\ D \cap K = K /\ K \subseteq Keys
    BY <1>1, <1>3
  <2>2. Cardinality(K) \in Nat
    BY <2>1, FiniteKeys
  <2>3. Cardinality(D \ K) = Cardinality(D) - Cardinality(K)
    <3>1. Cardinality(D \ K) = Cardinality(D) - Cardinality(D \cap K)
      BY <1>2, FS_Difference
    <3> QED
      BY <2>1, <3>1
  <2>4. Cardinality(D \cup K) = Cardinality(D)
    BY <2>1
  <2> QED
    BY <1>1, <1>2, <2>2, <2>3, <2>4
<1>4. ASSUME NEW k, k \notin D
      PROVE  s + Cardinality(D \cup {k}) - Cardinality(D) = s + 1
  <2>1. Cardinality(D \cup {k}) = Cardinality(D) + 1
    BY <1>2, <1>4, FS_AddElement
  <2> QED
    BY <1>1, <1>2, <2>1
<1> DEFINE Put(v) == [size EXCEPT ![m] = v]
<1>5. size = Put(s)
  BY <1>1 DEF s
<1>6. /\ \A S : SizeFrom(m, p, S) = Put(s + Cardinality(S) - Cardinality(D))
      /\ \A S : SizeLess(m, S) = Put(s - Cardinality(S))
      /\ SizeMore(m) = Put(s + 1)
  BY DEF SizeFrom, SizeLess, SizeMore, s, D, Within
<1> HIDE DEF Put
<1>7. ASSUME NEW K, K \subseteq D
      PROVE  /\ SizeFrom(m, p, D \cup K) = size
             /\ SizeFrom(m, p, D \ K) = SizeLess(m, K)
  BY <1>3, <1>5, <1>6, <1>7
<1>8. ASSUME NEW k, k \notin D
      PROVE  SizeFrom(m, p, D \cup {k}) = SizeMore(m)
  BY <1>4, <1>6, <1>8
<1> QED
  BY <1>7, <1>8 DEF D

LEMMA SizeStays ==
  ASSUME MapInv, NEW m \in made, NEW p \in Parts, NEW K, K \subseteq Within(m, p)
  PROVE  SizeFrom(m, p, Within(m, p) \cup K) = size
BY SizeAfter

LEMMA EraseInv ==
  ASSUME MapInv, NEW t \in Callers, NEW m \in made, NEW p \in Parts,
         NEW K, K \subseteq DOMAIN entries[<<m, p>>],
         NEW next \in {NoMapCall} \cup SweepCalls(made),
         Erase(t, <<m, p>>, K, next), Enters(t, <<m, p>>),
         UNCHANGED <<partOf, made>>
  PROVE  MapInv'
<1> DEFINE r == <<m, p>>
           e == Drop(entries[r], K)
           vs == Drop(versions[r], K)
           c == clock[r]
<1>1. /\ PartOK(Home(r), entries[r], versions[r], clock[r]) /\ Home(r) \subseteq Keys
      /\ DOMAIN entries[r] \subseteq Home(r)
  BY PartFacts
<1>2. /\ PartOK(Home(r), e, vs, c) /\ Restamped(versions[r], clock[r], vs, c, K)
      /\ DOMAIN e = DOMAIN entries[r] \ K
  BY <1>1, ErasePart
<1>3. Change(t, r, e, vs, c, K, next) /\ size' = SizeLess(m, K)
  BY DEF Erase, SizeLess
<1> HIDE DEF e, vs, c
<1>4. size' = [size EXCEPT ![m] = @ + Cardinality(DOMAIN e) - Cardinality(DOMAIN entries[r])]
  <2>1. SizeFrom(m, p, DOMAIN entries[r] \ K) = SizeLess(m, K)
    BY SizeAfter DEF Within
  <2> QED
    BY <1>2, <1>3, <2>1 DEF SizeFrom
<1>5. K \subseteq Home(r)
  BY <1>1
<1> QED
  BY <1>2, <1>3, <1>4, <1>5, ChangeInv

\* The part of a key, for a thread that is in no call.
LEMMA KeyRoom ==
  ASSUME MapInv, NEW t \in Callers, NEW m, NEW k \in Keys, OpenFor(t, RoomOf(m, k)),
         UNCHANGED lock
  PROVE  /\ m \in made /\ partOf[k] \in Parts /\ RoomOf(m, k) = <<m, partOf[k]>>
         /\ {k} \subseteq Home(<<m, partOf[k]>>)
         /\ Enters(t, <<m, partOf[k]>>)
<1>1. mapCall[t] = NoMapCall /\ m \in made /\ lock[<<m, partOf[k]>>] = NoThread
  BY DEF OpenFor, RoomOf
<1>2. partOf[k] \in Parts
  BY DEF MapInv, MapShape
<1> QED
  BY <1>1, <1>2 DEF RoomOf, Home, Enters, NoMapCall, Ones

LEMMA KeyActions ==
  ASSUME MapInv, NEW t \in Callers, NEW m \in Maps, NEW k \in Keys, NEW v \in Values,
         \/ MapSet(t, m, k, v) \/ AddKey(t, m, k, v) \/ Update(t, m, k, v)
         \/ RemoveKey(t, m, k)
  PROVE  MapInv'
<1> DEFINE p == partOf[k]
           r == <<m, p>>
           D == DOMAIN entries[r]
<1>1. OpenFor(t, RoomOf(m, k)) /\ UNCHANGED <<partOf, made, lock>>
  BY DEF MapSet, AddKey, Update, RemoveKey
<1>2. /\ m \in made /\ p \in Parts /\ RoomOf(m, k) = r /\ {k} \subseteq Home(r)
      /\ Enters(t, r)
  BY <1>1, KeyRoom
<1> HIDE DEF p
<1>3. NoMapCall \in {NoMapCall} \cup SweepCalls(made)
  OBVIOUS
<1>4. ASSUME Write(t, r, {k}, v, NoMapCall),
             size' = SizeFrom(m, p, D \cup {k})
      PROVE  MapInv'
  BY <1>1, <1>2, <1>3, <1>4, WriteInv DEF SizeFrom
<1>5. k \in D => SizeFrom(m, p, D \cup {k}) = size
  BY <1>2, SizeStays DEF Within
<1>6. k \notin D => SizeFrom(m, p, D \cup {k}) = SizeMore(m)
  BY <1>2, SizeAfter DEF Within
<1>7. CASE MapSet(t, m, k, v)
  <2>1. Write(t, r, {k}, v, NoMapCall)
    BY <1>2, <1>7 DEF MapSet
  <2>2. size' = [size EXCEPT ![m] = IF k \in D THEN @ ELSE @ + 1]
    BY <1>2, <1>7 DEF MapSet
  <2>3. size \in [Maps -> Nat]
    BY DEF MapInv, MapShape
  <2>4. CASE k \in D
    <3>1. size' = size
      BY <2>2, <2>3, <2>4
    <3> QED
      BY <1>4, <1>5, <2>1, <2>4, <3>1
  <2>5. CASE k \notin D
    <3>1. size' = SizeMore(m)
      BY <2>2, <2>5 DEF SizeMore
    <3> QED
      BY <1>4, <1>6, <2>1, <2>5, <3>1
  <2> QED
    BY <2>4, <2>5
<1>8. CASE AddKey(t, m, k, v)
  <2>1. Write(t, r, {k}, v, NoMapCall) /\ k \notin D
    BY <1>2, <1>8 DEF AddKey
  <2>2. size' = SizeMore(m)
    BY <1>8 DEF AddKey, SizeMore
  <2> QED
    BY <1>4, <1>6, <2>1, <2>2
<1>9. CASE Update(t, m, k, v)
  <2>1. Write(t, r, {k}, v, NoMapCall) /\ k \in D /\ size' = size
    BY <1>2, <1>9 DEF Update
  <2> QED
    BY <1>4, <1>5, <2>1
<1>10. CASE RemoveKey(t, m, k)
  <2>1. Erase(t, r, {k}, NoMapCall) /\ {k} \subseteq D
    BY <1>2, <1>10 DEF RemoveKey
  <2> QED
    BY <1>1, <1>2, <1>3, <2>1, EraseInv
<1> QED
  BY <1>7, <1>8, <1>9, <1>10

LEMMA SetIfVersionInv ==
  ASSUME MapInv, NEW t \in Callers, NEW v \in Values, SetIfVersion(t, v)
  PROVE  MapInv'
<1> DEFINE x == token[t]
           m == x.m
           k == x.k
           p == partOf[k]
           r == <<m, p>>
           e == PutEntry(entries[r], k, v)
           vs == PutEntry(versions[r], k, clock[r] + 1)
           c == clock[r] + 1
<1>1. x # NoToken /\ OpenFor(t, RoomOf(m, k)) /\ UNCHANGED <<partOf, made, lock, size>>
  BY DEF SetIfVersion
<1>2. x \in Tokens(made)
  BY <1>1 DEF MapInv, MapShape
<1>3. m \in made /\ k \in Keys
  BY <1>2 DEF Tokens
<1>4. /\ p \in Parts /\ RoomOf(m, k) = r /\ {k} \subseteq Home(r) /\ Enters(t, r)
  BY <1>1, <1>3, KeyRoom
<1>5. /\ k \in DOMAIN versions[r] /\ Changes(m) < MaxChanges
      /\ entries' = [entries EXCEPT ![r] = e]
      /\ versions' = [versions EXCEPT ![r] = vs]
      /\ clock' = [clock EXCEPT ![r] = c]
      /\ mapCall' = [u \in Callers |-> Witness(mapCall[u], r, entries'[r])]
      /\ token' = [u \in Callers |->
                     IF u = t THEN NoToken
                     ELSE IF token[u] # NoToken /\ token[u].k = k /\ token[u].m = m
                          THEN [token[u] EXCEPT !.stale = TRUE] ELSE token[u]]
  BY <1>4 DEF SetIfVersion
<1>6. /\ PartOK(Home(r), entries[r], versions[r], clock[r]) /\ Home(r) \subseteq Keys
      /\ clock[r] \in 0 .. MaxChanges /\ Changes(m) \in Nat /\ clock[r] <= Changes(m)
      /\ r \in Rooms
  BY <1>3, <1>4, PartFacts
<1>7. c <= MaxChanges /\ k \in DOMAIN entries[r]
  BY <1>5, <1>6, MapAssumption DEF PartOK
<1>9. mapCall[t] = NoMapCall
  BY <1>1 DEF OpenFor
<1>10. entries'[r] = e
  BY <1>5, <1>6 DEF MapInv, MapShape
<1> HIDE DEF p, x, m, k
<1>8. /\ PartOK(Home(r), e, vs, c) /\ Restamped(versions[r], clock[r], vs, c, {k})
      /\ DOMAIN e = DOMAIN entries[r]
  <2> DEFINE H == Home(r)
             e0 == entries[r]
             v0 == versions[r]
             c0 == clock[r]
  <2>1. H \subseteq Keys /\ PartOK(H, e0, v0, c0) /\ k \in DOMAIN e0 /\ c0 + 1 <= MaxChanges
    BY <1>6, <1>7
  <2> HIDE DEF H, e0, v0, c0
  <2>2. /\ PartOK(H, PutEntry(e0, k, v), PutEntry(v0, k, c0 + 1), c0 + 1)
        /\ Restamped(v0, c0, PutEntry(v0, k, c0 + 1), c0 + 1, {k})
        /\ DOMAIN PutEntry(e0, k, v) = DOMAIN e0
    BY <2>1, PutPart
  <2> QED
    BY <2>2 DEF H, e0, v0, c0
<1> HIDE DEF e, vs, c
<1>11. size' = SizeFrom(m, p, DOMAIN e)
  <2>1. SizeFrom(m, p, DOMAIN entries[r] \cup {}) = size
    BY <1>3, <1>4, SizeStays DEF Within
  <2>2. DOMAIN entries[r] \cup {} = DOMAIN entries[r]
    OBVIOUS
  <2> QED
    BY <1>1, <1>8, <2>1, <2>2
<1>12. RoomStep(t, m, p, e, vs, c, {k})
  BY <1>1, <1>4, <1>5, <1>8, <1>11 DEF RoomStep, Enters, SizeFrom
<1>13. mapCall' = [u \in Callers |-> IF u = t THEN NoMapCall ELSE Witness(mapCall[u], r, e)]
  <2>1. Witness(NoMapCall, r, e) = NoMapCall
    BY DEF Witness, NoMapCall
  <2> QED
    BY <1>5, <1>9, <1>10, <2>1
<1> DEFINE L(u) == Learned(token[u], r, {k})
<1>14. ASSUME NEW u \in Callers PROVE token'[u] \in {NoToken, L(u)}
  <2>1. CASE u = t \/ token[u] = NoToken
    BY <1>5, <2>1
  <2>2. CASE u # t /\ token[u] # NoToken
    <3>1. token[u] \in Tokens(made)
      BY <2>2 DEF MapInv, MapShape
    <3>2. (token[u].k = k /\ token[u].m = m) <=>
             (RoomOf(token[u].m, token[u].k) = r /\ token[u].k \in {k})
      BY DEF RoomOf, p
    <3> QED
      BY <1>5, <2>2, <3>2 DEF Learned
  <2> QED
    BY <2>1, <2>2
<1> HIDE DEF L
<1>15. token' \in [Callers -> {NoToken} \cup {L(u) : u \in Callers}]
  BY <1>5, <1>14
<1> QED
  <2> DEFINE K == {k}
  <2>1. NoMapCall \in {NoMapCall} \cup SweepCalls(made)
    OBVIOUS
  <2>2. /\ RoomStep(t, m, p, e, vs, c, K)
        /\ token' \in [Callers -> {NoToken} \cup {Learned(token[u], r, K) : u \in Callers}]
        /\ \A u \in Callers : token'[u] \in {NoToken, Learned(token[u], r, K)}
    BY <1>12, <1>14, <1>15 DEF L
  <2> HIDE DEF K
  <2> QED
    BY <1>3, <1>4, <1>13, <2>1, <2>2, RoomInv DEF Enters

LEMMA SweepInv ==
  ASSUME MapInv, NEW t \in Callers, NEW x \in SweepCalls(made),
         mapCall[t].op \notin Ones \cup {"equal"}, Sweep(t, x)
  PROVE  MapInv'
<1> DEFINE m == x.m
           p == x.at
           r == <<m, p>>
           v == x.v
<1>1. m \in made /\ p \in Parts /\ v \in Values
  BY DEF SweepCalls
<1>2. Enters(t, r) /\ UNCHANGED <<partOf, made>>
  BY DEF Sweep, Enters
<1>3. PICK K \in Chosen(x) :
         IF x.op \in {"update_all", "update_first"}
         THEN Write(t, r, K, v, Onward(x, K # {})) /\ UNCHANGED size
         ELSE Erase(t, r, K, Onward(x, K # {}))
  BY DEF Sweep
<1>4. K \subseteq DOMAIN entries[r]
  BY DEF Chosen, Accepted
<1> DEFINE next == Onward(x, K # {})
<1>5. next \in {NoMapCall} \cup SweepCalls(made)
  <2>1. CASE next = NoMapCall
    BY <2>1
  <2>2. CASE next # NoMapCall
    <3>1. next = [x EXCEPT !.at = p + 1] /\ p # NParts
      BY <2>2 DEF Onward
    <3>2. p + 1 \in Parts
      BY <1>1, <3>1, MapAssumption DEF Parts
    <3> HIDE DEF next
    <3> QED
      BY <3>1, <3>2 DEF SweepCalls
  <2> QED
    BY <2>1, <2>2
<1> HIDE DEF next, m, p, v
<1>6. /\ DOMAIN entries[r] \subseteq Home(r)
  BY <1>1, PartFacts
<1>7. CASE x.op \in {"update_all", "update_first"}
  <2>1. Write(t, r, K, v, next) /\ size' = size
    BY <1>3, <1>7 DEF next
  <2>2. SizeFrom(m, p, DOMAIN entries[r] \cup K) = size
    BY <1>1, <1>4, SizeStays DEF Within
  <2>3. size' = [size EXCEPT ![m] = @ + Cardinality(DOMAIN entries[r] \cup K)
                                      - Cardinality(DOMAIN entries[r])]
    BY <2>1, <2>2 DEF SizeFrom
  <2>4. K \subseteq Home(r)
    BY <1>4, <1>6
  <2> QED
    BY <1>1, <1>2, <1>5, <2>1, <2>3, <2>4, WriteInv
<1>8. CASE x.op \notin {"update_all", "update_first"}
  <2>1. Erase(t, r, K, next)
    BY <1>3, <1>8 DEF next
  <2> QED
    BY <1>1, <1>2, <1>4, <1>5, <2>1, EraseInv
<1> QED
  BY <1>7, <1>8

\* A step that changes no part: one thread goes on as next, with other locks or
\* another token.
LEMMA QuietInv ==
  ASSUME MapInv, NEW t \in Callers, NEW next \in CallsOver(made),
         UNCHANGED <<partOf, made, entries, versions, clock, size>>,
         mapCall' = [mapCall EXCEPT ![t] = next],
         next.op # "copy", WalkOK(next, entries), LockOK(t, next, lock'),
         OneOK(next, entries),
         lock' \in [Rooms -> Callers \cup {NoThread}],
         \A u \in Callers : u # t => \A r \in Rooms : lock'[r] = u <=> lock[r] = u,
         token' \in [Callers -> {NoToken} \cup Tokens(made)],
         \A u \in Callers : TokenOK(token'[u], versions, clock, partOf)
  PROVE  MapInv'
<1>1. /\ MapShape /\ PartsOK /\ SizeOK /\ CopyOK
      /\ \A u \in Callers : /\ WalkOK(mapCall[u], entries)
                            /\ LockOK(u, mapCall[u], lock)
                            /\ OneOK(mapCall[u], entries)
  BY DEF MapInv
<1>2. \A u \in Callers : mapCall'[u] = IF u = t THEN next ELSE mapCall[u]
  BY <1>1 DEF MapShape
<1>3. /\ made \subseteq Maps /\ mapCall \in [Callers -> CallsOver(made)]
      /\ mapCall' \in [Callers -> CallsOver(made)]
  BY <1>1 DEF MapShape
<1>4. MapShape'
  BY <1>1, <1>3 DEF MapShape
<1>5. PartsOK' /\ SizeOK'
  <2>1. (\A r : Home(r)' = Home(r)) /\ (\A m : KeysOf(m)' = KeysOf(m))
    BY DEF Home, KeysOf
  <2> QED
    BY <1>1, <2>1 DEF PartsOK, SizeOK
<1>6. CopyOK'
  BY <1>1, <1>2 DEF CopyOK
<1>7. ASSUME NEW u \in Callers
      PROVE  /\ WalkOK(mapCall'[u], entries') /\ LockOK(u, mapCall'[u], lock')
             /\ OneOK(mapCall'[u], entries')
  <2>1. CASE u = t
    BY <1>2, <2>1
  <2>2. CASE u # t
    <3>1. mapCall[u] \in CallsOver(made) /\ LockOK(u, mapCall[u], lock)
      BY <1>1, <1>3
    <3>2. LockOK(u, mapCall[u], lock')
      BY <1>3, <2>2, <3>1, LockKept
    <3> QED
      BY <1>1, <1>2, <2>2, <3>2
  <2> QED
    BY <2>1, <2>2
<1> QED
  BY <1>4, <1>5, <1>6, <1>7 DEF MapInv

\* The thread gives back what it holds and leaves its call.
LEMMA LeaveInv ==
  ASSUME MapInv, NEW t \in Callers,
         UNCHANGED <<partOf, made, entries, versions, clock, size, token>>,
         mapCall' = [mapCall EXCEPT ![t] = NoMapCall], lock' = Unlocked(t)
  PROVE  MapInv'
<1>1. /\ lock \in [Rooms -> Callers \cup {NoThread}]
      /\ token \in [Callers -> {NoToken} \cup Tokens(made)]
      /\ \A u \in Callers : TokenOK(token[u], versions, clock, partOf)
  BY DEF MapInv, MapShape
<1>2. lock' \in [Rooms -> Callers \cup {NoThread}] /\ \A r \in Rooms : lock'[r] # t
  BY <1>1, MapAssumption DEF Unlocked
<1>3. \A u \in Callers : u # t => \A r \in Rooms : lock'[r] = u <=> lock[r] = u
  BY MapAssumption DEF Unlocked
<1>4. NoMapCall.op = "idle" /\ NoMapCall \in CallsOver(made)
  BY DEF NoMapCall, CallsOver
<1>5. WalkOK(NoMapCall, entries) /\ LockOK(t, NoMapCall, lock') /\ OneOK(NoMapCall, entries)
  BY <1>2, <1>4 DEF WalkOK, LockOK, OneOK, Ones
<1> HIDE DEF NoMapCall
<1> QED
  BY <1>1, <1>2, <1>3, <1>4, <1>5, QuietInv

LEMMA OnesOf ==
  ASSUME MapInv, NEW t \in Callers, mapCall[t].op \in Ones
  PROVE  /\ mapCall[t] \in OneCalls(made) /\ LockOK(t, mapCall[t], lock)
         /\ OneOK(mapCall[t], entries)
<1>1. /\ mapCall[t] \in CallsOver(made) /\ LockOK(t, mapCall[t], lock)
      /\ OneOK(mapCall[t], entries)
  BY DEF MapInv, MapShape
<1>2. mapCall[t] \in OneCalls(made)
  BY <1>1 DEF CallsOver, NoMapCall, Walks, SweepCalls, Copies, OneCalls, Equals, Sweeps, Ones
<1> QED
  BY <1>1, <1>2

LEMMA ApplyInv ==
  ASSUME MapInv, NEW t \in Callers, Apply(t)
  PROVE  MapInv'
<1> DEFINE x == mapCall[t]
           m == x.m
           v == x.v
<1>1. /\ x.op \in Ones /\ x.todo = <<>> /\ x.n >= 0 /\ lock' = Unlocked(t)
      /\ UNCHANGED <<partOf, made>>
  BY DEF Apply
<1>2. x \in OneCalls(made) /\ LockOK(t, x, lock)
  BY <1>1, OnesOf
<1>3. m \in made /\ v \in Values
  BY <1>2 DEF OneCalls
<1>4. \A p \in Parts : lock[<<m, p>>] = t
  BY <1>1, <1>2 DEF LockOK
<1>5. CASE ~(x.n = 1 /\ x.op # "find_one")
  <2>1. /\ mapCall' = [mapCall EXCEPT ![t] = NoMapCall]
        /\ UNCHANGED <<entries, versions, clock, size, token>>
    BY <1>5 DEF Apply
  <2> QED
    BY <1>1, <2>1, LeaveInv
<1>6. CASE x.n = 1 /\ x.op # "find_one"
  <2>0. PICK p \in Parts : \E k \in Accepted(<<m, p>>, x.test) :
           IF x.op = "update_one"
           THEN Write(t, <<m, p>>, {k}, v, NoMapCall) /\ UNCHANGED size
           ELSE Erase(t, <<m, p>>, {k}, NoMapCall)
    BY <1>6 DEF Apply
  <2>1. PICK k \in Accepted(<<m, p>>, x.test) :
           IF x.op = "update_one"
           THEN Write(t, <<m, p>>, {k}, v, NoMapCall) /\ UNCHANGED size
           ELSE Erase(t, <<m, p>>, {k}, NoMapCall)
    BY <2>0
  <2> DEFINE r == <<m, p>>
             K == {k}
  <2>2. K \subseteq DOMAIN entries[r]
    BY DEF Accepted
  <2>3. Enters(t, r)
    BY <1>1, <1>4 DEF Enters
  <2>4. NoMapCall \in {NoMapCall} \cup SweepCalls(made)
    OBVIOUS
  <2>5. /\ x.op = "update_one" => Write(t, r, K, v, NoMapCall) /\ size' = size
        /\ x.op # "update_one" => Erase(t, r, K, NoMapCall)
    BY <2>1
  <2> HIDE DEF x, m, v, K
  <2>6. DOMAIN entries[r] \subseteq Home(r)
    BY <1>3, PartFacts
  <2>7. CASE x.op = "update_one"
    <3>1. SizeFrom(m, p, DOMAIN entries[r] \cup K) = size
      BY <1>3, <2>2, SizeStays DEF Within
    <3>2. size' = [size EXCEPT ![m] = @ + Cardinality(DOMAIN entries[r] \cup K)
                                        - Cardinality(DOMAIN entries[r])]
      BY <2>5, <2>7, <3>1 DEF SizeFrom
    <3>3. K \subseteq Home(r)
      BY <2>2, <2>6
    <3> QED
      BY <1>1, <1>3, <2>3, <2>4, <2>5, <2>7, <3>2, <3>3, WriteInv
  <2>8. CASE x.op # "update_one"
    BY <1>1, <1>3, <2>2, <2>3, <2>4, <2>5, <2>8, EraseInv
  <2> QED
    BY <2>7, <2>8
<1> QED
  BY <1>5, <1>6

-----------------------------------------------------------------------------
(* The calls of several steps *)

\* Thread t may be at x: where it is, or at the start of a call.
At(t, x) ==
    /\ x \in CallsOver(made) /\ WalkOK(x, entries) /\ LockOK(t, x, lock)
    /\ OneOK(x, entries)
    /\ x.op = "copy" =>
          /\ x.total = Cardinality(Span(entries, x.to, 1, x.at - 1))
          /\ \A u \in Callers : (u # t /\ mapCall[u].op = "copy") => mapCall[u].to # x.to

LEMMA PartsInOrder ==
  ASSUME NEW m \in Maps
  PROVE  /\ PartsOf(m) \in Seq(Rooms) /\ Len(PartsOf(m)) = NParts
         /\ \A i \in 1 .. NParts : PartsOf(m)[i] = <<m, i>>
<1>1. NParts \in Nat
  BY MapAssumption
<1>2. PartsOf(m) = [i \in 1 .. NParts |-> <<m, i>>]
  BY DEF PartsOf, Parts
<1>3. \A i \in 1 .. NParts : <<m, i>> \in Rooms
  BY DEF Rooms, Parts
<1> QED
  BY <1>1, <1>2, <1>3

\* The parts of two maps in the order of their addresses.
LEMMA PairInOrder ==
  ASSUME NEW a \in Maps, NEW b \in Maps, a < b
  PROVE  LET d == PartsOf(a) \o PartsOf(b) IN
         d \in Seq(Rooms) /\ \A i, j \in 1 .. Len(d) : i < j => Before(d[i], d[j])
<1> DEFINE A == PartsOf(a)
           B == PartsOf(b)
           d == A \o B
<1>1. /\ A \in Seq(Rooms) /\ Len(A) = NParts /\ \A i \in 1 .. NParts : A[i] = <<a, i>>
      /\ B \in Seq(Rooms) /\ Len(B) = NParts /\ \A i \in 1 .. NParts : B[i] = <<b, i>>
  BY PartsInOrder
<1>2. NParts \in Nat /\ a \in Nat /\ b \in Nat
  BY MapAssumption
<1> HIDE DEF A, B
<1>3. /\ d \in Seq(Rooms) /\ Len(d) = NParts + NParts
      /\ \A i \in 1 .. NParts + NParts :
            d[i] = IF i <= NParts THEN <<a, i>> ELSE <<b, i - NParts>>
  <2>1. /\ d \in Seq(Rooms) /\ Len(d) = NParts + NParts
        /\ \A i \in 1 .. NParts + NParts :
              d[i] = IF i <= NParts THEN A[i] ELSE B[i - NParts]
    <3>1. /\ d \in Seq(Rooms) /\ Len(d) = Len(A) + Len(B)
          /\ \A i \in 1 .. Len(A) + Len(B) :
                d[i] = IF i <= Len(A) THEN A[i] ELSE B[i - Len(A)]
      BY <1>1, ConcatProperties
    <3> HIDE DEF d
    <3> QED
      BY <1>1, <3>1
  <2> HIDE DEF d
  <2>2. ASSUME NEW i \in 1 .. NParts + NParts
        PROVE  d[i] = IF i <= NParts THEN <<a, i>> ELSE <<b, i - NParts>>
    <3>1. CASE i <= NParts
      BY <1>1, <1>2, <2>1, <3>1
    <3>2. CASE ~(i <= NParts)
      <4>1. i - NParts \in 1 .. NParts
        BY <1>2, <3>2
      <4> QED
        BY <1>1, <2>1, <3>2, <4>1
    <3> QED
      BY <3>1, <3>2
  <2> QED
    BY <2>1, <2>2
<1> HIDE DEF d
<1>4. ASSUME NEW i \in 1 .. Len(d), NEW j \in 1 .. Len(d), i < j
      PROVE  Before(d[i], d[j])
  <2>1. /\ i \in 1 .. NParts + NParts /\ j \in 1 .. NParts + NParts
        /\ d[i] = IF i <= NParts THEN <<a, i>> ELSE <<b, i - NParts>>
        /\ d[j] = IF j <= NParts THEN <<a, j>> ELSE <<b, j - NParts>>
    BY <1>3
  <2>2. CASE i <= NParts /\ j <= NParts
    BY <1>2, <1>4, <2>1, <2>2 DEF Before
  <2>3. CASE i <= NParts /\ ~(j <= NParts)
    BY <1>2, <1>4, <2>1, <2>3 DEF Before
  <2>4. CASE ~(i <= NParts) /\ ~(j <= NParts)
    BY <1>2, <1>4, <2>1, <2>4 DEF Before
  <2>5. ~(~(i <= NParts) /\ j <= NParts)
    BY <1>2, <1>4, <2>1
  <2> QED
    BY <2>2, <2>3, <2>4, <2>5
<1> QED
  BY <1>3, <1>4 DEF d, A, B

LEMMA IdleHolds ==
  ASSUME MapInv, NEW t \in Callers, mapCall[t] = NoMapCall
  PROVE  made \subseteq Maps /\ \A r \in Rooms : lock[r] # t
<1>1. LockOK(t, NoMapCall, lock) /\ made \subseteq Maps
  BY DEF MapInv, MapShape
<1>2. NoMapCall.op \notin Ones \cup {"equal"}
  BY DEF NoMapCall, Ones
<1> QED
  BY <1>1, <1>2 DEF LockOK

LEMMA StartOne ==
  ASSUME MapInv, NEW t \in Callers, mapCall[t] = NoMapCall,
         NEW op \in Ones, NEW m \in made, NEW test \in SUBSET Values, NEW v \in Values
  PROVE  At(t, OneCall(op, m, test, v))
<1> DEFINE d == PartsOf(m)
           x == OneCall(op, m, test, v)
<1>1. m \in Maps /\ \A r \in Rooms : lock[r] # t
  BY IdleHolds
<1>2. d \in Seq(Rooms) /\ Len(d) = NParts /\ \A i \in 1 .. NParts : d[i] = <<m, i>>
  BY <1>1, PartsInOrder
<1>3. NParts \in Nat /\ m \in Nat
  BY <1>1, MapAssumption
<1>4. x = [op |-> op, todo |-> d, m |-> m, test |-> test, v |-> v, n |-> -1]
  BY DEF OneCall
<1> HIDE DEF x, d
<1>5. /\ x.op = op /\ x.todo = d /\ x.m = m /\ x.n = -1 /\ x.op # "walk" /\ x.op # "copy"
      /\ x \in OneCalls(made)
  BY <1>2, <1>4 DEF OneCalls, Ones
<1>6. \A i, j \in 1 .. Len(d) : i < j => Before(d[i], d[j])
  BY <1>2, <1>3 DEF Before
<1>7. \A p \in Parts : \E i \in 1 .. Len(d) : d[i] = <<m, p>>
  BY <1>2 DEF Parts
<1>8. LockOK(t, x, lock)
  <2>1. x.op \in Ones /\ ~(x.n >= 0)
    BY <1>5
  <2>2. /\ \A i, j \in 1 .. Len(x.todo) : i < j => Before(x.todo[i], x.todo[j])
        /\ \A p \in Parts : \E i \in 1 .. Len(x.todo) : x.todo[i] = <<x.m, p>>
    BY <1>5, <1>6, <1>7
  <2> QED
    BY <1>1, <2>1, <2>2 DEF LockOK
<1>9. WalkOK(x, entries) /\ OneOK(x, entries) /\ x \in CallsOver(made)
  BY <1>5 DEF WalkOK, OneOK, CallsOver
<1> QED
  BY <1>5, <1>8, <1>9 DEF At, x

LEMMA StartEqual ==
  ASSUME MapInv, NEW t \in Callers, mapCall[t] = NoMapCall,
         NEW a \in made, NEW b \in made, a # b
  PROVE  At(t, EqualCall(a, b))
<1> DEFINE x == EqualCall(a, b)
           d == x.todo
<1>1. a \in Maps /\ b \in Maps /\ \A r \in Rooms : lock[r] # t
  BY IdleHolds
<1>2. a \in Nat /\ b \in Nat
  BY <1>1, MapAssumption
<1>3. x = [op |-> "equal", todo |-> d] /\ x.op = "equal"
  BY DEF EqualCall
<1>4. d \in Seq(Rooms) /\ \A i, j \in 1 .. Len(d) : i < j => Before(d[i], d[j])
  <2>1. CASE a < b
    <3>1. d = PartsOf(a) \o PartsOf(b)
      BY <2>1 DEF EqualCall
    <3> HIDE DEF x
    <3> QED
      BY <1>1, <2>1, <3>1, PairInOrder
  <2>2. CASE b < a
    <3>1. d = PartsOf(b) \o PartsOf(a)
      BY <1>2, <2>2 DEF EqualCall
    <3> HIDE DEF x
    <3> QED
      BY <1>1, <2>2, <3>1, PairInOrder
  <2> QED
    BY <1>2, <2>1, <2>2
<1> HIDE DEF x
<1>5. x \in Equals
  BY <1>3, <1>4 DEF Equals
<1>6. LockOK(t, x, lock) /\ WalkOK(x, entries) /\ OneOK(x, entries) /\ x \in CallsOver(made)
  BY <1>1, <1>3, <1>4, <1>5 DEF LockOK, WalkOK, OneOK, CallsOver, Ones
<1> QED
  BY <1>3, <1>6 DEF At, x

LEMMA StartOther ==
  ASSUME MapInv, NEW t \in Callers, mapCall[t] = NoMapCall, NEW m \in made,
         NEW x,
         \/ x = WalkCall(m)
         \/ \E op \in Sweeps, test \in SUBSET Values, v \in Values :
               x = SweepCall(op, m, test, v)
         \/ \E to \in Maps \ made :
               /\ \A u \in Callers : mapCall[u].op = "copy" => mapCall[u].to # to
               /\ x = CopyCall(m, to)
  PROVE  At(t, x)
<1>1. /\ m \in Maps /\ \A r \in Rooms : lock[r] # t
      /\ 1 \in 1 .. NParts + 1 /\ 1 \in Parts /\ NParts \in Nat
  BY MapAssumption, IdleHolds DEF Parts
<1>2. CASE x = WalkCall(m)
  <2>1. KeysOf(m) \subseteq Keys /\ KeysOf(m) = Span(entries, m, 1, NParts)
    <3>1. \A p \in Parts : DOMAIN entries[<<m, p>>] \subseteq Keys
      BY PartFacts
    <3> QED
      BY <3>1 DEF KeysOf, Span, Parts
  <2>2. /\ x.op = "walk" /\ x.m = m /\ x.at = 1 /\ x.seen = {} /\ x.always = KeysOf(m)
        /\ x.ever = KeysOf(m)
    BY <1>2 DEF WalkCall
  <2>3. x \in Walks(made)
    BY <1>1, <1>2, <2>1 DEF WalkCall, Walks
  <2>4. WalkOK(x, entries)
    BY <2>1, <2>2 DEF WalkOK
  <2>5. LockOK(t, x, lock) /\ OneOK(x, entries) /\ x \in CallsOver(made)
    BY <1>1, <2>2, <2>3 DEF LockOK, OneOK, CallsOver, Ones
  <2> QED
    BY <2>2, <2>4, <2>5 DEF At
<1>3. CASE \E op \in Sweeps, test \in SUBSET Values, v \in Values : x = SweepCall(op, m, test, v)
  <2>1. x \in SweepCalls(made)
    BY <1>1, <1>3 DEF SweepCall, SweepCalls
  <2>2. x.op \notin Ones \cup {"equal", "walk", "copy"}
    BY <2>1 DEF SweepCalls, Sweeps, Ones
  <2> QED
    BY <1>1, <2>1, <2>2 DEF At, LockOK, OneOK, WalkOK, CallsOver
<1>4. ASSUME NEW to \in Maps \ made,
             \A u \in Callers : mapCall[u].op = "copy" => mapCall[u].to # to,
             x = CopyCall(m, to)
      PROVE  At(t, x)
  <2>1. /\ x = [op |-> "copy", m |-> m, to |-> to, at |-> 1, total |-> 0]
        /\ x.op = "copy" /\ x.to = to /\ x.at = 1 /\ x.total = 0
    BY <1>4 DEF CopyCall
  <2>2. x \in Copies(made)
    BY <1>1, <2>1 DEF Copies
  <2>3. Span(entries, to, 1, x.at - 1) = {}
    BY <2>1 DEF Span
  <2>4. x.total = Cardinality(Span(entries, x.to, 1, x.at - 1))
    BY <2>1, <2>3, FS_EmptySet
  <2> QED
    BY <1>1, <1>4, <2>1, <2>2, <2>4 DEF At, LockOK, OneOK, WalkOK, CallsOver, Ones
<1> QED
  BY <1>2, <1>3, <1>4

LEMMA Started ==
  ASSUME MapInv, NEW t \in Callers, mapCall[t] = NoMapCall, NEW x \in Calls
  PROVE  At(t, x)
<1>1. CASE x \in {WalkCall(m) : m \in made}
  BY <1>1, StartOther
<1>2. ASSUME NEW op \in Sweeps, NEW m \in made, NEW test \in SUBSET Values, NEW v \in Values,
             x = SweepCall(op, m, test, v)
      PROVE  At(t, x)
  BY <1>2, StartOther
<1>3. ASSUME NEW op \in Ones, NEW m \in made, NEW test \in SUBSET Values, NEW v \in Values,
             x = OneCall(op, m, test, v)
      PROVE  At(t, x)
  BY <1>3, StartOne
<1>4. CASE x \in {EqualCall(p[1], p[2]) : p \in {q \in made \X made : q[1] # q[2]}}
  BY <1>4, StartEqual
<1>5. CASE \E m \in made, to \in {n \in Maps \ made : \A u \in Callers :
                      mapCall[u].op = "copy" => mapCall[u].to # n} : x = CopyCall(m, to)
  BY <1>5, StartOther
<1> DEFINE S1 == {WalkCall(m) : m \in made}
           C2(y) == {SweepCall("update_all", y[1], {y[2]}, y[3]),
                     SweepCall("update_first", y[1], {y[2]}, y[3]),
                     OneCall("update_one", y[1], {y[2]}, y[3])}
           S2 == UNION {C2(y) : y \in made \X Values \X Values}
           C3(y) == {SweepCall("remove_all", y[1], {y[2]}, y[2]),
                     SweepCall("remove_first", y[1], {y[2]}, y[2]),
                     SweepCall("remove_all", y[1], Values, y[2]),
                     OneCall("find_one", y[1], {y[2]}, y[2]),
                     OneCall("remove_one", y[1], {y[2]}, y[2])}
           S3 == UNION {C3(y) : y \in made \X Values}
           S4 == {EqualCall(p[1], p[2]) : p \in {q \in made \X made : q[1] # q[2]}}
           S5 == {CopyCall(y[1], y[2]) :
                    y \in made \X {n \in Maps \ made : \A u \in Callers :
                                    mapCall[u].op = "copy" => mapCall[u].to # n}}
<1>6. x \in S1 \cup S2 \cup S3 \cup S4 \cup S5
  BY DEF Calls
<1>7. x \in S2 => At(t, x)
  <2> SUFFICES ASSUME NEW y \in made \X Values \X Values, x \in C2(y) PROVE At(t, x)
    OBVIOUS
  <2>1. y[1] \in made /\ y[2] \in Values /\ y[3] \in Values /\ {y[2]} \in SUBSET Values
    OBVIOUS
  <2> QED
    BY <1>2, <1>3, <2>1 DEF Sweeps, Ones
<1>8. x \in S3 => At(t, x)
  <2> SUFFICES ASSUME NEW y \in made \X Values, x \in C3(y) PROVE At(t, x)
    OBVIOUS
  <2>1. /\ y[1] \in made /\ y[2] \in Values /\ {y[2]} \in SUBSET Values
        /\ Values \in SUBSET Values
    OBVIOUS
  <2> QED
    BY <1>2, <1>3, <2>1 DEF Sweeps, Ones
<1>9. x \in S5 => At(t, x)
  BY <1>5
<1>10. (x \in S1 => At(t, x)) /\ (x \in S4 => At(t, x))
  BY <1>1, <1>4
<1> HIDE DEF S1, S2, S3, S4, S5
<1> QED
  BY <1>6, <1>7, <1>8, <1>9, <1>10

LEMMA Here ==
  ASSUME MapInv, NEW t \in Callers
  PROVE  At(t, mapCall[t])
<1>1. /\ mapCall[t] \in CallsOver(made) /\ WalkOK(mapCall[t], entries)
      /\ LockOK(t, mapCall[t], lock) /\ OneOK(mapCall[t], entries) /\ CopyOK
  BY DEF MapInv, MapShape
<1> QED
  BY <1>1 DEF At, CopyOK

\* What a step leaves alone when locks and tokens stay.
LEMMA StayFacts ==
  ASSUME MapInv, UNCHANGED <<versions, clock, partOf, made, token>>
  PROVE  /\ lock \in [Rooms -> Callers \cup {NoThread}]
         /\ token' \in [Callers -> {NoToken} \cup Tokens(made)]
         /\ \A u \in Callers : TokenOK(token'[u], versions, clock, partOf)
BY DEF MapInv, MapShape

LEMMA WalkInv ==
  ASSUME MapInv, NEW t \in Callers, NEW x, At(t, x), Walk(t, x)
  PROVE  MapInv'
<1> DEFINE m == x.m
           a == x.at
           D == DOMAIN entries[<<m, a>>]
           next == [x EXCEPT !.seen = x.seen \cup D, !.at = a + 1]
<1>1. /\ x.op = "walk" /\ a <= NParts /\ mapCall' = [mapCall EXCEPT ![t] = next]
      /\ UNCHANGED <<partOf, made, entries, versions, clock, lock, size, token>>
  BY DEF Walk
<1>2. x \in Walks(made)
  BY <1>1 DEF At, CallsOver, NoMapCall, Walks, SweepCalls, Copies, OneCalls, Equals, Sweeps, Ones
<1>3. /\ m \in made /\ a \in 1 .. NParts + 1 /\ x.seen \subseteq Keys
      /\ x.always \subseteq Keys /\ x.ever \subseteq Keys /\ NParts \in Nat
  BY <1>2, MapAssumption DEF Walks
<1>4. a \in Parts /\ a + 1 \in 1 .. NParts + 1
  BY <1>1, <1>3 DEF Parts
<1>5. D \subseteq Keys
  BY <1>3, <1>4, PartFacts
<1>6. /\ x.always \subseteq x.seen \cup Span(entries, m, a, NParts)
      /\ x.seen \subseteq x.ever /\ Span(entries, m, 1, NParts) \subseteq x.ever
  BY <1>1 DEF At, WalkOK
<1>7. Span(entries, m, a, NParts) \subseteq D \cup Span(entries, m, a + 1, NParts)
  <2> SUFFICES ASSUME NEW q \in a .. NParts, NEW k \in DOMAIN entries[<<m, q>>]
               PROVE  k \in D \cup Span(entries, m, a + 1, NParts)
    BY DEF Span
  <2>1. q = a \/ q \in a + 1 .. NParts
    BY <1>3
  <2> QED
    BY <2>1 DEF Span
<1>8. D \subseteq Span(entries, m, 1, NParts)
  BY <1>4 DEF Span, Parts
<1> HIDE DEF D, m, a
<1>9. /\ next.op = "walk" /\ next.m = m /\ next.at = a + 1 /\ next.seen = x.seen \cup D
      /\ next.always = x.always /\ next.ever = x.ever
  BY <1>1, <1>2 DEF Walks, m
<1>10. next \in Walks(made)
  BY <1>2, <1>3, <1>4, <1>5 DEF Walks
<1> HIDE DEF next
<1>11. WalkOK(next, entries)
  BY <1>6, <1>7, <1>8, <1>9 DEF WalkOK
<1>12. LockOK(t, x, lock)
  BY DEF At
<1>13. LockOK(t, next, lock) /\ OneOK(next, entries) /\ next \in CallsOver(made)
  BY <1>1, <1>9, <1>10, <1>12 DEF LockOK, OneOK, CallsOver, Ones
<1>14. /\ lock' \in [Rooms -> Callers \cup {NoThread}]
       /\ token' \in [Callers -> {NoToken} \cup Tokens(made)]
       /\ \A u \in Callers : TokenOK(token'[u], versions, clock, partOf)
  BY <1>1, StayFacts
<1>15. next.op # "copy" /\ LockOK(t, next, lock')
       /\ \A u \in Callers : u # t => \A r \in Rooms : lock'[r] = u <=> lock[r] = u
  BY <1>1, <1>9, <1>13
<1> QED
  BY <1>1, <1>11, <1>13, <1>14, <1>15, QuietInv

LEMMA LockInv ==
  ASSUME MapInv, NEW t \in Callers, NEW x, At(t, x), Lock(t, x)
  PROVE  MapInv'
<1> DEFINE d == x.todo
           h == Head(d)
           dd == Tail(d)
           next == [x EXCEPT !.todo = dd]
<1>1. /\ x.op \in Ones \cup {"equal"} /\ d # <<>> /\ lock[h] = NoThread
      /\ lock' = [lock EXCEPT ![h] = t] /\ mapCall' = [mapCall EXCEPT ![t] = next]
      /\ UNCHANGED <<partOf, made, entries, versions, clock, size, token>>
  BY DEF Lock
<1>2. x \in OneCalls(made) \cup Equals
  BY <1>1 DEF At, CallsOver, NoMapCall, Walks, SweepCalls, Copies, OneCalls, Equals, Sweeps, Ones
<1>3. d \in Seq(Rooms)
  BY <1>2 DEF OneCalls, Equals
<1>4. /\ h \in Rooms /\ h = d[1] /\ dd \in Seq(Rooms) /\ Len(dd) = Len(d) - 1 /\ Len(d) \in Nat
      /\ Len(d) > 0 /\ \A i \in 1 .. Len(dd) : dd[i] = d[i + 1] /\ i + 1 \in 1 .. Len(d)
  BY <1>1, <1>3
<1>5. LockOK(t, x, lock)
  BY DEF At
<1> HIDE DEF d, h, dd
<1>6. /\ next.op = x.op /\ next.todo = dd /\ x.todo = d
      /\ x.op \in Ones => next.m = x.m /\ next.n = x.n /\ x.n \in Int /\ x.m \in made
  BY <1>2 DEF OneCalls, Equals, d, Ones
<1>7. next \in CallsOver(made)
  BY <1>2, <1>4 DEF OneCalls, Equals, CallsOver
<1> HIDE DEF next
<1>8. /\ lock \in [Rooms -> Callers \cup {NoThread}]
      /\ token' \in [Callers -> {NoToken} \cup Tokens(made)]
      /\ \A u \in Callers : TokenOK(token'[u], versions, clock, partOf)
  BY <1>1, StayFacts
<1>9. \A r \in Rooms : lock'[r] = IF r = h THEN t ELSE lock[r]
  BY <1>1, <1>4, <1>8
<1>10. /\ lock' \in [Rooms -> Callers \cup {NoThread}]
       /\ \A u \in Callers : u # t => \A r \in Rooms : lock'[r] = u <=> lock[r] = u
  BY <1>1, <1>4, <1>8, <1>9, MapAssumption
<1>11. /\ \A i, j \in 1 .. Len(d) : i < j => Before(d[i], d[j])
       /\ \A r \in Rooms : lock[r] = t => \A i \in 1 .. Len(d) : Before(r, d[i])
       /\ x.op \in Ones => \A p \in Parts : \/ lock[<<x.m, p>>] = t
                                            \/ \E i \in 1 .. Len(d) : d[i] = <<x.m, p>>
       /\ x.op \in Ones => ~(x.n >= 0)
  BY <1>1, <1>5, <1>6 DEF LockOK
<1>12. \A i, j \in 1 .. Len(dd) : i < j => Before(dd[i], dd[j])
  <2> SUFFICES ASSUME NEW i \in 1 .. Len(dd), NEW j \in 1 .. Len(dd), i < j
               PROVE  Before(dd[i], dd[j])
    OBVIOUS
  <2>1. i + 1 < j + 1
    BY <1>4
  <2> QED
    BY <1>4, <1>11, <2>1
<1>13. \A r \in Rooms : lock'[r] = t => \A i \in 1 .. Len(dd) : Before(r, dd[i])
  <2> SUFFICES ASSUME NEW r \in Rooms, lock'[r] = t, NEW i \in 1 .. Len(dd)
               PROVE  Before(r, dd[i])
    OBVIOUS
  <2>1. CASE r = h
    <3>1. 1 < i + 1 /\ 1 \in 1 .. Len(d)
      BY <1>4
    <3> QED
      BY <1>4, <1>11, <2>1, <3>1
  <2>2. CASE r # h
    BY <1>4, <1>9, <1>11, <2>2
  <2> QED
    BY <2>1, <2>2
<1>14. ASSUME x.op \in Ones, NEW p \in Parts
       PROVE  lock'[<<x.m, p>>] = t \/ \E i \in 1 .. Len(dd) : dd[i] = <<x.m, p>>
  <2> DEFINE r == <<x.m, p>>
  <2>1. r \in Rooms
    BY <1>6, <1>14 DEF Rooms, MapInv, MapShape
  <2>2. CASE lock[r] = t
    BY <1>9, <2>1, <2>2
  <2>3. ASSUME NEW i \in 1 .. Len(d), d[i] = r
        PROVE  lock'[r] = t \/ \E j \in 1 .. Len(dd) : dd[j] = r
    <3>1. CASE i = 1
      BY <1>4, <1>9, <2>1, <2>3, <3>1
    <3>2. CASE i # 1
      <4>1. i - 1 \in 1 .. Len(dd) /\ (i - 1) + 1 = i
        BY <1>4, <3>2
      <4>2. dd[i - 1] = d[i]
        BY <1>4, <4>1
      <4> QED
        BY <2>3, <4>1, <4>2
    <3> QED
      BY <3>1, <3>2
  <2> QED
    BY <1>11, <1>14, <2>2, <2>3
<1>15. LockOK(t, next, lock')
  BY <1>1, <1>6, <1>11, <1>12, <1>13, <1>14 DEF LockOK
<1>16. WalkOK(next, entries) /\ OneOK(next, entries) /\ next.op # "copy"
  BY <1>1, <1>6, <1>11 DEF WalkOK, OneOK, Ones
<1> QED
  BY <1>1, <1>7, <1>8, <1>10, <1>15, <1>16, QuietInv

LEMMA CountInv ==
  ASSUME MapInv, NEW t \in Callers, Count(t)
  PROVE  MapInv'
<1> DEFINE x == mapCall[t]
           n == Cardinality(Matching(entries, x.m, x.test))
           next == [x EXCEPT !.n = n]
<1>1. /\ x.op \in Ones /\ x.todo = <<>>
      /\ mapCall' = [mapCall EXCEPT ![t] = next]
      /\ UNCHANGED <<partOf, made, entries, versions, clock, lock, size, token>>
  <2>1. \A p : Accepted(<<x.m, p>>, x.test)
                  = {k \in DOMAIN entries[<<x.m, p>>] : entries[<<x.m, p>>][k] \in x.test}
    BY DEF Accepted
  <2>2. UNION {Accepted(<<x.m, p>>, x.test) : p \in Parts} = Matching(entries, x.m, x.test)
    BY <2>1 DEF Matching
  <2> QED
    BY <2>2 DEF Count
<1>2. x \in OneCalls(made) /\ LockOK(t, x, lock)
  BY <1>1, OnesOf
<1>3. x.m \in made
  BY <1>2 DEF OneCalls
<1>4. n \in Nat
  <2>1. \A p \in Parts : DOMAIN entries[<<x.m, p>>] \subseteq Keys
    BY <1>3, PartFacts
  <2>2. Matching(entries, x.m, x.test) \subseteq Keys
    BY <2>1 DEF Matching
  <2> QED
    BY <2>2, FiniteKeys
<1> HIDE DEF x
<1> DEFINE y == next
<1>5. /\ y.op = x.op /\ y.todo = x.todo /\ y.m = x.m /\ y.test = x.test /\ y.n = n
      /\ y \in OneCalls(made)
  <2> HIDE DEF n
  <2> QED
    BY <1>2, <1>4 DEF OneCalls
<1> HIDE DEF y, n
<1>6. y \in CallsOver(made) /\ y.op # "copy" /\ WalkOK(y, entries)
  BY <1>1, <1>5 DEF CallsOver, WalkOK, Ones
<1>7. LockOK(t, y, lock)
  BY <1>1, <1>2, <1>5 DEF LockOK
<1>8. OneOK(y, entries)
  BY <1>5 DEF OneOK, n
<1>9. /\ lock' \in [Rooms -> Callers \cup {NoThread}]
      /\ token' \in [Callers -> {NoToken} \cup Tokens(made)]
      /\ \A u \in Callers : TokenOK(token'[u], versions, clock, partOf)
  BY <1>1, StayFacts
<1>10. /\ mapCall' = [mapCall EXCEPT ![t] = y] /\ LockOK(t, y, lock')
       /\ \A u \in Callers : u # t => \A r \in Rooms : lock'[r] = u <=> lock[r] = u
  BY <1>1, <1>7 DEF y
<1> QED
  BY <1>1, <1>6, <1>8, <1>9, <1>10, QuietInv

\* The thread stays in no call, and its token becomes x.
LEMMA TokenInv ==
  ASSUME MapInv, NEW t \in Callers, mapCall[t] = NoMapCall,
         NEW x \in {NoToken} \cup Tokens(made), TokenOK(x, versions, clock, partOf),
         token' = [token EXCEPT ![t] = x],
         UNCHANGED <<partOf, made, entries, versions, clock, lock, size, mapCall>>
  PROVE  MapInv'
<1>1. /\ token \in [Callers -> {NoToken} \cup Tokens(made)]
      /\ lock \in [Rooms -> Callers \cup {NoThread}]
      /\ \A u \in Callers : TokenOK(token[u], versions, clock, partOf)
      /\ mapCall \in [Callers -> CallsOver(made)]
  BY DEF MapInv, MapShape
<1>2. /\ token' \in [Callers -> {NoToken} \cup Tokens(made)]
      /\ \A u \in Callers : token'[u] = IF u = t THEN x ELSE token[u]
  BY <1>1
<1>3. \A u \in Callers : TokenOK(token'[u], versions, clock, partOf)
  BY <1>1, <1>2
<1> DEFINE next == mapCall[t]
<1>4. next.op # "copy" /\ mapCall' = [mapCall EXCEPT ![t] = next] /\ next \in CallsOver(made)
  BY <1>1 DEF NoMapCall
<1>5. WalkOK(next, entries) /\ LockOK(t, next, lock') /\ OneOK(next, entries)
  BY DEF MapInv
<1>6. /\ lock' \in [Rooms -> Callers \cup {NoThread}]
      /\ \A u \in Callers : u # t => \A r \in Rooms : lock'[r] = u <=> lock[r] = u
  BY <1>1
<1> HIDE DEF next
<1> QED
  BY <1>2, <1>3, <1>4, <1>5, <1>6, QuietInv

LEMMA TokenIsNot ==
  ASSUME NEW M, NEW x \in Tokens(M)
  PROVE  x # NoToken
<1>1. "stale" \in DOMAIN x
  BY DEF Tokens
<1>2. "stale" \notin DOMAIN NoToken
  BY DEF NoToken
<1> QED
  BY <1>1, <1>2

LEMMA GetVersionedInv ==
  ASSUME MapInv, NEW t \in Callers, NEW m, NEW k \in Keys, GetVersioned(t, m, k)
  PROVE  MapInv'
<1> DEFINE r == <<m, partOf[k]>>
           x == [version |-> versions[r][k], m |-> m, k |-> k, stale |-> FALSE]
<1>1. /\ OpenFor(t, RoomOf(m, k)) /\ k \in DOMAIN entries[r] /\ mapCall[t] = NoMapCall
      /\ UNCHANGED <<partOf, made, entries, versions, clock, lock, size, mapCall>>
  BY DEF GetVersioned, RoomOf, OpenFor
<1>2. m \in made /\ partOf[k] \in Parts
  BY <1>1, KeyRoom
<1>3. PartOK(Home(r), entries[r], versions[r], clock[r])
  BY <1>2, PartFacts
<1>4. k \in DOMAIN versions[r] /\ versions[r][k] \in 1 .. clock[r] /\ clock[r] \in Nat
  BY <1>1, <1>3, MapAssumption DEF PartOK
<1>5. token' = [token EXCEPT ![t] = x]
  BY <1>4 DEF GetVersioned, RoomOf
<1> HIDE DEF r
<1>6. x \in Tokens(made)
  BY <1>2, <1>4 DEF Tokens
<1>7. x.version = versions[r][k] /\ x.m = m /\ x.k = k /\ x.stale = FALSE
  OBVIOUS
<1>8. TokenOK(x, versions, clock, partOf)
  <2>1. <<x.m, partOf[x.k]>> = r
    BY <1>7 DEF r
  <2> HIDE DEF x
  <2> QED
    BY <1>4, <1>7, <2>1 DEF TokenOK
<1> HIDE DEF x
<1> QED
  BY <1>1, <1>5, <1>6, <1>8, TokenInv

LEMMA FailsInv ==
  ASSUME MapInv, NEW t \in Callers, SetIfVersionFails(t)
  PROVE  MapInv'
<1>1. /\ mapCall[t] = NoMapCall /\ token' = [token EXCEPT ![t] = NoToken]
      /\ UNCHANGED <<partOf, made, entries, versions, clock, lock, size, mapCall>>
  BY DEF SetIfVersionFails, OpenFor
<1>2. TokenOK(NoToken, versions, clock, partOf)
  BY DEF TokenOK
<1> QED
  BY <1>1, <1>2, TokenInv

LEMMA EndInv ==
  ASSUME MapInv, NEW t \in Callers, WalkEnd(t) \/ Compared(t)
  PROVE  MapInv'
<1>1. /\ UNCHANGED <<partOf, made, entries, versions, clock, size, token>>
      /\ mapCall' = [mapCall EXCEPT ![t] = NoMapCall]
  BY DEF WalkEnd, Compared
<1>2. CASE Compared(t)
  BY <1>1, <1>2, LeaveInv DEF Compared
<1>3. CASE WalkEnd(t)
  <2>1. LockOK(t, mapCall[t], lock) /\ lock \in [Rooms -> Callers \cup {NoThread}]
    BY DEF MapInv, MapShape
  <2>2. \A r \in Rooms : lock[r] # t
    BY <1>3, <2>1 DEF WalkEnd, LockOK, Ones
  <2>3. lock' = Unlocked(t)
    <3>1. Unlocked(t) = lock
      BY <2>1, <2>2 DEF Unlocked
    <3> QED
      BY <1>3, <3>1 DEF WalkEnd
  <2> QED
    BY <1>1, <2>3, LeaveInv
<1> QED
  BY <1>2, <1>3

\* Maps that can be reached keep what callers know of them when other maps change.
LEMMA OthersSee ==
  ASSUME MapInv,
         \A m \in made, p \in Parts : /\ entries'[<<m, p>>] = entries[<<m, p>>]
                                      /\ versions'[<<m, p>>] = versions[<<m, p>>]
                                      /\ clock'[<<m, p>>] = clock[<<m, p>>],
         UNCHANGED partOf
  PROVE  /\ \A m \in made : KeysOf(m)' = KeysOf(m)
         /\ \A x \in CallsOver(made) : WalkOK(x, entries) => WalkOK(x, entries')
         /\ \A x \in CallsOver(made) : OneOK(x, entries) => OneOK(x, entries')
         /\ \A x \in {NoToken} \cup Tokens(made) :
               TokenOK(x, versions, clock, partOf) => TokenOK(x, versions', clock', partOf')
<1>1. \A m \in made : KeysOf(m)' = KeysOf(m)
  BY DEF KeysOf
<1>2. ASSUME NEW x \in CallsOver(made), WalkOK(x, entries)
      PROVE  WalkOK(x, entries')
  <2> SUFFICES ASSUME x.op = "walk" PROVE WalkOK(x, entries')
    BY DEF WalkOK
  <2>1. x \in Walks(made)
    BY DEF CallsOver, NoMapCall, Walks, SweepCalls, Copies, OneCalls, Equals, Sweeps, Ones
  <2>2. x.m \in made /\ x.at \in 1 .. NParts + 1
    BY <2>1 DEF Walks
  <2>3. x.at .. NParts \subseteq Parts /\ 1 .. NParts \subseteq Parts
    BY <2>2, MapAssumption DEF Parts
  <2>4. /\ Span(entries', x.m, x.at, NParts) = Span(entries, x.m, x.at, NParts)
        /\ Span(entries', x.m, 1, NParts) = Span(entries, x.m, 1, NParts)
    BY <2>2, <2>3 DEF Span
  <2> QED
    BY <1>2, <2>4 DEF WalkOK
<1>3. ASSUME NEW x \in CallsOver(made), OneOK(x, entries)
      PROVE  OneOK(x, entries')
  <2> SUFFICES ASSUME x.op \in Ones PROVE OneOK(x, entries')
    BY DEF OneOK
  <2>1. x \in OneCalls(made)
    BY DEF CallsOver, NoMapCall, Walks, SweepCalls, Copies, OneCalls, Equals, Sweeps, Ones
  <2>2. x.m \in made
    BY <2>1 DEF OneCalls
  <2> DEFINE A(q) == {k \in DOMAIN entries[<<x.m, q>>] : entries[<<x.m, q>>][k] \in x.test}
             AA(q) == {k \in DOMAIN entries'[<<x.m, q>>] : entries'[<<x.m, q>>][k] \in x.test}
  <2>3. \A q \in Parts : AA(q) = A(q)
    BY <2>2
  <2>4. /\ Matching(entries, x.m, x.test) = UNION {A(q) : q \in Parts}
        /\ Matching(entries', x.m, x.test) = UNION {AA(q) : q \in Parts}
    BY DEF Matching
  <2> HIDE DEF A, AA
  <2>5. {AA(q) : q \in Parts} = {A(q) : q \in Parts}
    BY <2>3
  <2> QED
    BY <1>3, <2>4, <2>5 DEF OneOK
<1>4. ASSUME NEW x \in {NoToken} \cup Tokens(made), TokenOK(x, versions, clock, partOf)
      PROVE  TokenOK(x, versions', clock', partOf')
  <2> SUFFICES ASSUME x # NoToken PROVE TokenOK(x, versions', clock', partOf')
    BY DEF TokenOK
  <2>1. x.m \in made /\ x.k \in Keys
    BY DEF Tokens
  <2>2. partOf[x.k] \in Parts
    BY <2>1 DEF MapInv, MapShape
  <2> DEFINE r == <<x.m, partOf[x.k]>>
  <2>3. versions'[r] = versions[r] /\ clock'[r] = clock[r] /\ r = <<x.m, partOf'[x.k]>>
    BY <2>1, <2>2
  <2> HIDE DEF r
  <2>4. r = <<x.m, partOf[x.k]>>
    BY DEF r
  <2> QED
    BY <1>4, <2>3, <2>4 DEF TokenOK
<1> QED
  BY <1>1, <1>2, <1>3, <1>4

\* Copy: a part of a map that nobody can reach yet, and the count of its keys.
LEMMA CopyInv ==
  ASSUME MapInv, NEW t \in Callers, NEW x, At(t, x), Copy(t, x)
  PROVE  MapInv'
<1> DEFINE m == x.m
           a == x.at
           to == x.to
           r == <<m, a>>
           s == <<to, a>>
           D == DOMAIN entries[r]
           next == [x EXCEPT !.at = a + 1, !.total = x.total + Cardinality(D)]
<1>1. /\ x.op = "copy" /\ a <= NParts
      /\ entries' = [entries EXCEPT ![s] = entries[r]]
      /\ versions' = [versions EXCEPT ![s] = versions[r]]
      /\ clock' = [clock EXCEPT ![s] = clock[r]]
      /\ mapCall' = [mapCall EXCEPT ![t] = next]
      /\ UNCHANGED <<partOf, made, lock, size, token>>
  BY DEF Copy
<1>2. x \in Copies(made)
  BY <1>1 DEF At, CallsOver, NoMapCall, Walks, SweepCalls, Copies, OneCalls, Equals, Sweeps, Ones
<1>3. /\ m \in made /\ to \in Maps \ made /\ a \in 1 .. NParts + 1 /\ x.total \in Nat
      /\ NParts \in Nat
  BY <1>2, MapAssumption DEF Copies
<1>4. a \in Parts /\ a + 1 \in 1 .. NParts + 1 /\ (a + 1) - 1 = a
  BY <1>1, <1>3 DEF Parts
<1>5. /\ x.total = Cardinality(Span(entries, to, 1, a - 1)) /\ LockOK(t, x, lock)
      /\ \A u \in Callers : (u # t /\ mapCall[u].op = "copy") => mapCall[u].to # to
  BY <1>1 DEF At
<1>6. /\ MapShape /\ PartsOK /\ SizeOK /\ CopyOK
      /\ \A u \in Callers : /\ WalkOK(mapCall[u], entries)
                            /\ LockOK(u, mapCall[u], lock)
                            /\ OneOK(mapCall[u], entries)
                            /\ TokenOK(token[u], versions, clock, partOf)
  BY DEF MapInv
<1>7. r \in Rooms /\ s \in Rooms /\ made \subseteq Maps
  BY <1>3, <1>4, <1>6 DEF Rooms, MapShape
<1> HIDE DEF m, a, to
<1>8. /\ entries' \in [Rooms -> Tables(Values)] /\ versions' \in [Rooms -> Tables(Nat)]
      /\ clock' \in [Rooms -> Nat]
      /\ \A z \in Rooms : /\ entries'[z] = IF z = s THEN entries[r] ELSE entries[z]
                          /\ versions'[z] = IF z = s THEN versions[r] ELSE versions[z]
                          /\ clock'[z] = IF z = s THEN clock[r] ELSE clock[z]
  BY <1>1, <1>6, <1>7 DEF MapShape
<1>9. PartsOK'
  <2>1. \A z : Home(z)' = Home(z)
    BY <1>1 DEF Home
  <2>2. Home(s) = Home(r)
    BY DEF Home
  <2>3. \A z \in Rooms : PartOK(Home(z), entries'[z], versions'[z], clock'[z])
    BY <1>6, <1>7, <1>8, <2>2 DEF PartsOK
  <2> QED
    BY <2>1, <2>3 DEF PartsOK
<1>10. \A n \in made, p \in Parts : /\ entries'[<<n, p>>] = entries[<<n, p>>]
                                    /\ versions'[<<n, p>>] = versions[<<n, p>>]
                                    /\ clock'[<<n, p>>] = clock[<<n, p>>]
  BY <1>3, <1>7, <1>8 DEF Rooms
<1>11. /\ \A n \in made : KeysOf(n)' = KeysOf(n)
       /\ \A y \in CallsOver(made) : WalkOK(y, entries) => WalkOK(y, entries')
       /\ \A y \in CallsOver(made) : OneOK(y, entries) => OneOK(y, entries')
       /\ \A y \in {NoToken} \cup Tokens(made) :
             TokenOK(y, versions, clock, partOf) => TokenOK(y, versions', clock', partOf')
  BY <1>1, <1>10, OthersSee
<1>12. SizeOK'
  BY <1>1, <1>6, <1>11 DEF SizeOK
<1>13. D \subseteq {k \in Keys : partOf[k] = a}
  BY <1>6, <1>7 DEF PartsOK, PartOK, Home
<1>14. D \subseteq Keys /\ Cardinality(D) \in Nat
  BY <1>13, FiniteKeys
<1> DEFINE S == Span(entries, to, 1, a - 1)
<1>15. /\ Span(entries', to, 1, a) = S \cup D /\ S \subseteq Keys /\ S \cap D = {}
  <2>1. \A q \in 1 .. a - 1 : q \in Parts /\ q # a
    BY <1>3, <1>4 DEF Parts
  <2>2. \A q \in 1 .. a - 1 : /\ DOMAIN entries'[<<to, q>>] = DOMAIN entries[<<to, q>>]
                              /\ DOMAIN entries[<<to, q>>] \subseteq {k \in Keys : partOf[k] = q}
    BY <1>3, <1>6, <1>8, <2>1 DEF Rooms, PartsOK, PartOK, Home
  <2>3. DOMAIN entries'[<<to, a>>] = D
    BY <1>7, <1>8
  <2>4. \A q : q \in 1 .. a <=> q \in 1 .. a - 1 \/ q = a
    BY <1>3, <1>4 DEF Parts
  <2> HIDE DEF D
  <2>5. Span(entries', to, 1, a) = S \cup D
    <3>1. ASSUME NEW k \in Span(entries', to, 1, a) PROVE k \in S \cup D
      <4>1. PICK q \in 1 .. a : k \in DOMAIN entries'[<<to, q>>]
        BY DEF Span
      <4> QED
        BY <2>2, <2>3, <2>4, <4>1 DEF Span
    <3>2. ASSUME NEW k \in S PROVE k \in Span(entries', to, 1, a)
      <4>1. PICK q \in 1 .. a - 1 : k \in DOMAIN entries[<<to, q>>]
        BY DEF Span
      <4> QED
        BY <2>2, <2>4, <4>1 DEF Span
    <3>3. ASSUME NEW k \in D PROVE k \in Span(entries', to, 1, a)
      BY <2>3, <2>4 DEF Span
    <3> QED
      BY <3>1, <3>2, <3>3
  <2>6. S \subseteq Keys /\ S \cap D = {}
    <3>1. ASSUME NEW k \in S PROVE k \in Keys /\ partOf[k] # a
      <4>1. PICK q \in 1 .. a - 1 : k \in DOMAIN entries[<<to, q>>]
        BY DEF Span
      <4> QED
        BY <2>1, <2>2, <4>1
    <3> HIDE DEF S
    <3> QED
      BY <1>13, <3>1
  <2> QED
    BY <2>5, <2>6
<1> HIDE DEF D, S
<1>16. Cardinality(Span(entries', to, 1, a)) = x.total + Cardinality(D)
  <2>1. D \cap (S \ {}) = {} /\ {} \subseteq S /\ (S \ {}) \cup D = S \cup D
    BY <1>15
  <2>2. Cardinality((S \ {}) \cup D) = Cardinality(S) - Cardinality({}) + Cardinality(D)
    BY <1>14, <1>15, <2>1, SwapCount
  <2>3. Cardinality({}) = 0 /\ Cardinality(S) = x.total
    BY <1>5, FS_EmptySet DEF S
  <2>4. Cardinality(S \cup D) = x.total - 0 + Cardinality(D)
    BY <2>1, <2>2, <2>3
  <2>5. x.total - 0 + Cardinality(D) = x.total + Cardinality(D)
    BY <1>3, <1>14
  <2> QED
    BY <1>15, <2>4, <2>5
<1>17. /\ next.op = "copy" /\ next.to = to /\ next.at = a + 1
       /\ next.total = x.total + Cardinality(D)
       /\ next \in Copies(made)
  <2>1. x.total + Cardinality(D) \in Nat
    BY <1>3, <1>14
  <2> QED
    BY <1>1, <1>2, <1>4, <2>1 DEF Copies, to
<1> HIDE DEF next
<1>18. /\ mapCall \in [Callers -> CallsOver(made)] /\ next \in CallsOver(made)
       /\ token \in [Callers -> {NoToken} \cup Tokens(made)]
       /\ lock \in [Rooms -> Callers \cup {NoThread}]
  BY <1>6, <1>17 DEF MapShape, CallsOver
<1>19. /\ mapCall' \in [Callers -> CallsOver(made)]
       /\ \A u \in Callers : mapCall'[u] = IF u = t THEN next ELSE mapCall[u]
  BY <1>1, <1>18
<1>20. MapShape'
  BY <1>1, <1>6, <1>8, <1>18, <1>19 DEF MapShape
<1>21. ASSUME NEW u \in Callers
       PROVE  /\ WalkOK(mapCall'[u], entries') /\ LockOK(u, mapCall'[u], lock')
              /\ OneOK(mapCall'[u], entries')
              /\ TokenOK(token'[u], versions', clock', partOf')
  <2>1. TokenOK(token'[u], versions', clock', partOf')
    BY <1>1, <1>6, <1>11, <1>18
  <2>2. CASE u = t
    <3>1. WalkOK(next, entries') /\ OneOK(next, entries')
      BY <1>17 DEF WalkOK, OneOK, Ones
    <3>2. LockOK(t, next, lock)
      BY <1>1, <1>5, <1>17 DEF LockOK, Ones
    <3> QED
      BY <1>1, <1>19, <2>1, <2>2, <3>1, <3>2
  <2>3. CASE u # t
    BY <1>1, <1>6, <1>11, <1>18, <1>19, <2>1, <2>3
  <2> QED
    BY <2>2, <2>3
<1>22. CopyOK'
  <2>1. ASSUME NEW u \in Callers, mapCall'[u].op = "copy"
        PROVE  mapCall'[u].total =
                  Cardinality(Span(entries', mapCall'[u].to, 1, mapCall'[u].at - 1))
    <3>1. CASE u = t
      <4>1. mapCall'[u] = next /\ next.at - 1 = a
        BY <1>4, <1>17, <1>19, <3>1
      <4> QED
        BY <1>16, <1>17, <4>1
    <3>2. CASE u # t
      <4> DEFINE y == mapCall[u]
      <4>1. mapCall'[u] = y /\ y.op = "copy" /\ y.to # to
        BY <1>5, <1>19, <2>1, <3>2
      <4>2. y \in Copies(made)
        BY <1>18, <4>1 DEF CallsOver, NoMapCall, Walks, SweepCalls, Copies, OneCalls,
                           Equals, Sweeps, Ones
      <4>3. y.to \in Maps /\ \A q \in 1 .. y.at - 1 : q \in Parts
        BY <1>3, <4>2 DEF Copies, Parts
      <4>4. y.total = Cardinality(Span(entries, y.to, 1, y.at - 1))
        BY <1>6, <4>1 DEF CopyOK
      <4> HIDE DEF y
      <4>5. Span(entries', y.to, 1, y.at - 1) = Span(entries, y.to, 1, y.at - 1)
        <5>1. \A q \in 1 .. y.at - 1 : entries'[<<y.to, q>>] = entries[<<y.to, q>>]
          BY <1>8, <4>1, <4>3 DEF Rooms
        <5> QED
          BY <5>1 DEF Span
      <4> QED
        BY <4>1, <4>4, <4>5
    <3> QED
      BY <3>1, <3>2
  <2>2. ASSUME NEW u \in Callers, NEW w \in Callers, mapCall'[u].op = "copy",
               mapCall'[w].op = "copy", mapCall'[u].to = mapCall'[w].to
        PROVE  u = w
    BY <1>5, <1>6, <1>17, <1>19, <2>2 DEF CopyOK
  <2> QED
    BY <2>1, <2>2 DEF CopyOK
<1> QED
  BY <1>9, <1>12, <1>20, <1>21, <1>22 DEF MapInv

\* The calls under way stay what they are when a map comes within reach, as long as
\* no copy fills it.
LEMMA CallsGrow ==
  ASSUME NEW M, NEW to, NEW x \in CallsOver(M), x.op = "copy" => x.to # to
  PROVE  x \in CallsOver(M \cup {to})
<1>1. CASE x \in Copies(M)
  <2>1. x \in Copies(M \cup {to})
    BY <1>1 DEF Copies
  <2> QED
    BY <2>1 DEF CallsOver
<1>2. CASE x \in Walks(M)
  BY <1>2 DEF Walks, CallsOver
<1>3. CASE x \in SweepCalls(M)
  BY <1>3 DEF SweepCalls, CallsOver
<1>4. CASE x \in OneCalls(M)
  BY <1>4 DEF OneCalls, CallsOver
<1>5. CASE x \in {NoMapCall} \cup Equals
  BY <1>5 DEF CallsOver
<1> QED
  BY <1>1, <1>2, <1>3, <1>4, <1>5 DEF CallsOver

LEMMA CopyEndInv ==
  ASSUME MapInv, NEW t \in Callers, CopyEnd(t)
  PROVE  MapInv'
<1> DEFINE x == mapCall[t]
           to == x.to
<1>1. /\ x.op = "copy" /\ x.at > NParts
      /\ size' = [size EXCEPT ![to] = x.total] /\ made' = made \cup {to}
      /\ mapCall' = [mapCall EXCEPT ![t] = NoMapCall]
      /\ UNCHANGED <<partOf, entries, versions, clock, lock, token>>
  BY DEF CopyEnd
<1>2. /\ MapShape /\ PartsOK /\ SizeOK /\ CopyOK
      /\ \A u \in Callers : /\ WalkOK(mapCall[u], entries)
                            /\ LockOK(u, mapCall[u], lock)
                            /\ OneOK(mapCall[u], entries)
                            /\ TokenOK(token[u], versions, clock, partOf)
  BY DEF MapInv
<1>3. x \in Copies(made)
  <2>1. x \in CallsOver(made)
    BY <1>2 DEF MapShape
  <2> QED
    BY <1>1, <2>1 DEF CallsOver, NoMapCall, Walks, SweepCalls, Copies, OneCalls, Equals,
                      Sweeps, Ones
<1>4. to \in Maps \ made /\ x.at - 1 = NParts /\ x.total \in Nat
  BY <1>1, <1>3, MapAssumption DEF Copies
<1>5. x.total = Cardinality(KeysOf(to))
  <2>1. x.total = Cardinality(Span(entries, to, 1, x.at - 1))
    BY <1>1, <1>2 DEF CopyOK
  <2>2. KeysOf(to) = Span(entries, to, 1, NParts)
    BY DEF KeysOf, Span, Parts
  <2> QED
    BY <1>4, <2>1, <2>2
<1>6. \A u \in Callers : (u # t /\ mapCall[u].op = "copy") => mapCall[u].to # to
  BY <1>1, <1>2 DEF CopyOK
<1>7. /\ mapCall \in [Callers -> CallsOver(made)] /\ made \subseteq Maps
      /\ token \in [Callers -> {NoToken} \cup Tokens(made)] /\ size \in [Maps -> Nat]
  BY <1>2 DEF MapShape
<1> HIDE DEF x, to
<1>8. \A u \in Callers : mapCall'[u] = IF u = t THEN NoMapCall ELSE mapCall[u]
  BY <1>1, <1>7
<1>9. NoMapCall.op \notin Ones \cup {"equal", "walk", "copy"}
  BY DEF NoMapCall, Ones
<1>10. mapCall' \in [Callers -> CallsOver(made')]
  <2>1. \A u \in Callers : mapCall'[u] \in CallsOver(made \cup {to})
    <3>1. NoMapCall \in CallsOver(made \cup {to})
      BY DEF CallsOver
    <3>2. ASSUME NEW u \in Callers, u # t PROVE mapCall[u] \in CallsOver(made \cup {to})
      BY <1>6, <1>7, <3>2, CallsGrow
    <3> QED
      BY <1>8, <3>1, <3>2
  <2>2. mapCall' = [u \in Callers |-> mapCall'[u]]
    BY <1>1, <1>7
  <2> QED
    BY <1>1, <2>1, <2>2
<1>11. token' \in [Callers -> {NoToken} \cup Tokens(made')]
  <2>1. Tokens(made) \subseteq Tokens(made \cup {to})
    BY DEF Tokens
  <2> QED
    BY <1>1, <1>7, <2>1
<1>12. MapShape'
  BY <1>1, <1>2, <1>4, <1>7, <1>10, <1>11 DEF MapShape
<1>13. PartsOK' /\ SizeOK'
  <2>1. (\A r : Home(r)' = Home(r)) /\ (\A m : KeysOf(m)' = KeysOf(m))
    BY <1>1 DEF Home, KeysOf
  <2>2. PartsOK'
    BY <1>1, <1>2, <2>1 DEF PartsOK
  <2>3. \A m \in Maps : size'[m] = IF m \in made \cup {to} THEN Cardinality(KeysOf(m)) ELSE 0
    BY <1>1, <1>2, <1>4, <1>5, <1>7 DEF SizeOK
  <2> QED
    BY <1>1, <2>1, <2>2, <2>3 DEF SizeOK
<1>14. CopyOK'
  BY <1>1, <1>2, <1>8, <1>9 DEF CopyOK
<1>15. ASSUME NEW u \in Callers
       PROVE  /\ WalkOK(mapCall'[u], entries') /\ LockOK(u, mapCall'[u], lock')
              /\ OneOK(mapCall'[u], entries')
              /\ TokenOK(token'[u], versions', clock', partOf')
  <2>1. CASE u = t
    <3>1. \A r \in Rooms : lock[r] # t
      <4>1. LockOK(t, x, lock)
        BY <1>2 DEF x
      <4> QED
        BY <1>1, <4>1 DEF LockOK, Ones
    <3>2. WalkOK(NoMapCall, entries) /\ LockOK(t, NoMapCall, lock) /\ OneOK(NoMapCall, entries)
      BY <1>9, <3>1 DEF WalkOK, LockOK, OneOK
    <3> QED
      BY <1>1, <1>2, <1>8, <2>1, <3>2
  <2>2. CASE u # t
    BY <1>1, <1>2, <1>8, <2>2
  <2> QED
    BY <2>1, <2>2
<1> QED
  BY <1>12, <1>13, <1>14, <1>15 DEF MapInv

-----------------------------------------------------------------------------
(* The invariant holds *)

LEMMA MapInitInv == MapInit => MapInv
<1> SUFFICES ASSUME MapInit PROVE MapInv
  OBVIOUS
<1> DEFINE low == CHOOSE m \in Maps : \A n \in Maps : m <= n
<1>1. low \in Maps
  <2>1. IsWellFoundedOn(OpToRel(<, Nat), Nat)
    BY NatLessThanWellFounded
  <2>2. PICK m \in Maps : \A n \in Maps : ~(<<n, m>> \in OpToRel(<, Nat))
    BY <2>1, WFMin, MapAssumption
  <2>3. ASSUME NEW n \in Maps PROVE m <= n
    <3>1. m \in Nat /\ n \in Nat
      BY MapAssumption
    <3>2. n < m => <<n, m>> \in OpToRel(<, Nat)
      BY <3>1 DEF OpToRel
    <3>3. ~(<<n, m>> \in OpToRel(<, Nat))
      BY <2>2
    <3>4. ~(n < m)
      BY <3>2, <3>3
    <3> QED
      BY <3>1, <3>4
  <2> QED
    BY <2>3
<1>2. Empty \in Tables(Values) /\ Empty \in Tables(Nat) /\ DOMAIN Empty = {}
  <2>1. DOMAIN Empty = {} /\ Empty \in [{} -> Values] /\ Empty \in [{} -> Nat]
    BY DEF Empty
  <2> QED
    BY <2>1, InTables
<1> HIDE DEF low
<1>3. MapShape
  <2>1. NoMapCall \in CallsOver({low})
    BY DEF CallsOver
  <2> QED
    BY <1>1, <1>2, <2>1 DEF MapInit, MapShape, low
<1>4. PartsOK
  BY <1>2, MapAssumption DEF MapInit, PartsOK, PartOK
<1>5. SizeOK
  <2>1. ASSUME NEW m \in Maps PROVE KeysOf(m) = {}
    <3>1. \A p \in Parts : DOMAIN entries[<<m, p>>] = {}
      BY <1>2 DEF MapInit, Rooms
    <3> QED
      BY <3>1 DEF KeysOf
  <2>2. Cardinality({}) = 0
    BY FS_EmptySet
  <2> QED
    BY <2>1, <2>2 DEF MapInit, SizeOK
<1>6. \A t \in Callers : mapCall[t] = NoMapCall /\ token[t] = NoToken
  BY DEF MapInit
<1>7. NoMapCall.op \notin Ones \cup {"equal", "walk", "copy"}
  BY DEF NoMapCall, Ones
<1>8. CopyOK
  BY <1>6, <1>7 DEF CopyOK
<1>9. \A t \in Callers, r \in Rooms : lock[r] # t
  BY MapAssumption DEF MapInit
<1>10. ASSUME NEW t \in Callers
       PROVE  /\ WalkOK(mapCall[t], entries) /\ LockOK(t, mapCall[t], lock)
              /\ OneOK(mapCall[t], entries) /\ TokenOK(token[t], versions, clock, partOf)
  BY <1>6, <1>7, <1>9 DEF WalkOK, LockOK, OneOK, TokenOK
<1> QED
  BY <1>3, <1>4, <1>5, <1>8, <1>10 DEF MapInv

LEMMA MapStepInv ==
  ASSUME MapInv, [MapNext]_mapVars
  PROVE  MapInv'
<1>1. CASE UNCHANGED mapVars
  <2>1. /\ (\A r : Home(r)' = Home(r)) /\ (\A m : KeysOf(m)' = KeysOf(m))
    BY <1>1 DEF mapVars, Home, KeysOf
  <2>2. MapShape' /\ PartsOK' /\ SizeOK' /\ CopyOK'
    BY <1>1, <2>1 DEF mapVars, MapInv, MapShape, PartsOK, SizeOK, CopyOK
  <2> QED
    BY <1>1, <2>2 DEF mapVars, MapInv
<1>2. ASSUME NEW t \in Callers, MapStep(t) PROVE MapInv'
  <2>1. ASSUME NEW m \in Maps, NEW k \in Keys, NEW v \in Values,
               MapSet(t, m, k, v) \/ AddKey(t, m, k, v) \/ Update(t, m, k, v)
        PROVE  MapInv'
    BY <2>1, KeyActions
  <2>2. ASSUME NEW m \in Maps, NEW k \in Keys, RemoveKey(t, m, k) PROVE MapInv'
    <3>1. PICK v : v \in Values
      <4>1. k \in DOMAIN entries[RoomOf(m, k)] /\ RoomOf(m, k) \in Rooms
        BY <2>2 DEF RemoveKey, RoomOf, Rooms, MapInv, MapShape
      <4>2. entries[RoomOf(m, k)] \in Tables(Values)
        BY <4>1 DEF MapInv, MapShape
      <4> QED
        BY <4>1, <4>2, InTables
    <3> QED
      BY <2>2, <3>1, KeyActions
  <2>3. ASSUME NEW m \in Maps, NEW k \in Keys, GetVersioned(t, m, k) PROVE MapInv'
    BY <2>3, GetVersionedInv
  <2>4. ASSUME NEW v \in Values, SetIfVersion(t, v) PROVE MapInv'
    BY <2>4, SetIfVersionInv
  <2>5. CASE SetIfVersionFails(t)
    BY <2>5, FailsInv
  <2>6. ASSUME NEW x \in IF mapCall[t] = NoMapCall THEN Calls ELSE {mapCall[t]},
               Walk(t, x) \/ Sweep(t, x) \/ Copy(t, x) \/ Lock(t, x)
        PROVE  MapInv'
    <3>1. At(t, x)
      <4>1. CASE mapCall[t] = NoMapCall
        <5>1. x \in Calls
          BY <4>1
        <5> QED
          BY <4>1, <5>1, Started
      <4>2. CASE mapCall[t] # NoMapCall
        <5>1. x = mapCall[t]
          BY <4>2
        <5> QED
          BY <5>1, Here
      <4> QED
        BY <4>1, <4>2
    <3>2. CASE Sweep(t, x)
      <4>1. x.op \in Sweeps
        BY <3>2 DEF Sweep
      <4>2. x \in SweepCalls(made)
        BY <3>1, <4>1 DEF At, CallsOver, NoMapCall, Walks, SweepCalls, Copies, OneCalls,
                          Equals, Sweeps, Ones
      <4>3. mapCall[t].op \notin Ones \cup {"equal"}
        <5>1. mapCall[t] = NoMapCall \/ mapCall[t] = x
          OBVIOUS
        <5> QED
          BY <4>1, <5>1 DEF NoMapCall, Sweeps, Ones
      <4> QED
        BY <3>2, <4>2, <4>3, SweepInv
    <3> QED
      BY <2>6, <3>1, <3>2, WalkInv, CopyInv, LockInv
  <2>7. CASE WalkEnd(t) \/ Compared(t)
    BY <2>7, EndInv
  <2>8. CASE CopyEnd(t)
    BY <2>8, CopyEndInv
  <2>9. CASE Count(t)
    BY <2>9, CountInv
  <2>10. CASE Apply(t)
    BY <2>10, ApplyInv
  <2> QED
    BY <1>2, <2>1, <2>2, <2>3, <2>4, <2>5, <2>6, <2>7, <2>8, <2>9, <2>10 DEF MapStep
<1> QED
  BY <1>1, <1>2 DEF MapNext

LEMMA MapInvHolds == MapSpec => []MapInv
<1>1. MapInit => MapInv
  BY MapInitInv
<1>2. MapInv /\ [MapNext]_mapVars => MapInv'
  BY MapStepInv
<1> QED
  BY <1>1, <1>2, PTL DEF MapSpec

-----------------------------------------------------------------------------
(* What the map promises *)

\* For any callers and maps: the entries, the versions and the clock of a part, which
\* set, add, remove, the sweeps and copy change one after the other, never drift apart,
\* no version is given twice, and the size that all parts share is the number of
\* entries of the map at every moment a thread can reach it.
THEOREM MapAlwaysSound == MapSpec => []MapSound
<1>1. MapInv => MapSound
  <2> SUFFICES ASSUME MapInv PROVE MapSound
    OBVIOUS
  <2>1. ASSUME NEW r \in Rooms
        PROVE  /\ DOMAIN entries[r] \subseteq {k \in Keys : partOf[k] = r[2]}
               /\ \A k \in DOMAIN entries[r] : entries[r][k] \in Values
               /\ clock[r] \in 0 .. MaxChanges
               /\ DOMAIN versions[r] = DOMAIN entries[r]
               /\ \A k \in DOMAIN versions[r] :
                     /\ versions[r][k] \in 1 .. clock[r]
                     /\ \A j \in DOMAIN versions[r] :
                           versions[r][j] = versions[r][k] => j = k
    <3>1. PartOK(Home(r), entries[r], versions[r], clock[r])
      BY DEF MapInv, PartsOK
    <3>2. entries[r] \in [DOMAIN entries[r] -> Values]
      BY <3>1, InTables DEF PartOK
    <3> QED
      BY <3>1, <3>2 DEF PartOK, Home
  <2>2. StampsMatch
    BY <2>1 DEF StampsMatch
  <2>3. made \subseteq Maps /\ lock \in [Rooms -> Callers \cup {NoThread}]
    BY DEF MapInv, MapShape
  <2>4. SizeExact
    BY <2>3 DEF SizeExact, MapInv, SizeOK
  <2>5. ASSUME NEW m \in Maps PROVE size[m] \in 0 .. Cardinality(Keys)
    <3>1. \A p \in Parts : DOMAIN entries[<<m, p>>] \subseteq Keys
      BY <2>1 DEF Rooms
    <3>2. KeysOf(m) \subseteq Keys
      BY <3>1 DEF KeysOf
    <3>3. /\ Cardinality(KeysOf(m)) \in Nat /\ Cardinality(Keys) \in Nat
          /\ Cardinality(KeysOf(m)) <= Cardinality(Keys)
      BY <3>2, FiniteKeys
    <3>4. size[m] = Cardinality(KeysOf(m)) \/ size[m] = 0
      BY DEF MapInv, SizeOK
    <3> QED
      BY <3>3, <3>4
  <2>6. MapTypeOK
    BY <2>1, <2>3, <2>5 DEF MapTypeOK
  <2> QED
    BY <2>2, <2>4, <2>6 DEF MapSound
<1> QED
  BY <1>1, MapInvHolds, PTL

\* For any callers: keys, values, iter, find_all and gathered, which lock one part at a
\* time, give every key that was in the map during the whole call and none that was in
\* it at no moment, whatever other threads put, remove or sweep meanwhile.
THEOREM WalkAlwaysTrue == MapSpec => []WalkTrue
<1>1. MapInv => WalkTrue
  <2> SUFFICES ASSUME MapInv, NEW t \in Callers,
                      mapCall[t].op = "walk", mapCall[t].at > NParts
               PROVE  /\ mapCall[t].always \subseteq mapCall[t].seen
                      /\ mapCall[t].seen \subseteq mapCall[t].ever
    BY DEF WalkTrue
  <2> DEFINE x == mapCall[t]
  <2>1. WalkOK(x, entries) /\ x \in CallsOver(made)
    BY DEF MapInv, MapShape
  <2>2. x \in Walks(made)
    BY <2>1 DEF CallsOver, NoMapCall, SweepCalls, Copies, OneCalls, Equals, Sweeps, Ones
  <2>3. x.at \in Int /\ x.at > NParts /\ NParts \in Int
    BY <2>2, MapAssumption DEF Walks
  <2> HIDE DEF x
  <2>4. x.at .. NParts = {}
    BY <2>3
  <2>5. Span(entries, x.m, x.at, NParts) = {}
    BY <2>4 DEF Span
  <2>6. /\ x.always \subseteq x.seen \cup Span(entries, x.m, x.at, NParts)
        /\ x.seen \subseteq x.ever
    BY <2>1 DEF WalkOK, x
  <2> QED
    BY <2>5, <2>6 DEF x
<1> QED
  BY <1>1, MapInvHolds, PTL

\* For any callers: what find_one, update_one and remove_one counted is what the map
\* holds until they are done, so the one match they act on is the only one.
THEOREM OnlyMatchAlways == MapSpec => []OnlyMatch
<1>1. MapInv => OnlyMatch
  <2> SUFFICES ASSUME MapInv, NEW t \in Callers,
                      mapCall[t].op \in Ones, mapCall[t].todo = <<>>, mapCall[t].n >= 0
               PROVE  mapCall[t].n = Cardinality(UNION
                          {Accepted(<<mapCall[t].m, p>>, mapCall[t].test) : p \in Parts})
    BY DEF OnlyMatch
  <2>1. OneOK(mapCall[t], entries)
    BY DEF MapInv
  <2> QED
    BY <2>1 DEF OneOK, Matching, Accepted
<1> QED
  BY <1>1, MapInvHolds, PTL

-----------------------------------------------------------------------------
(* No ring of threads that wait for parts *)

\* Whoever waits for a part waits for one that comes before what its holder, which
\* waits too, waits for.
LEMMA WaitsUp ==
  ASSUME MapInv, NEW t \in Callers, NEW u \in Callers, WaitsFor(t, u),
         mapCall[u].op \in Ones \cup {"equal"}, mapCall[u].todo # <<>>
  PROVE  /\ Head(mapCall[t].todo) \in Rooms /\ Head(mapCall[u].todo) \in Rooms
         /\ Before(Head(mapCall[t].todo), Head(mapCall[u].todo))
<1> DEFINE s == mapCall[t].todo
           q == mapCall[u].todo
<1>1. ASSUME NEW v \in Callers, mapCall[v].op \in Ones \cup {"equal"}
      PROVE  mapCall[v].todo \in Seq(Rooms)
  <2>1. mapCall[v] \in CallsOver(made)
    BY DEF MapInv, MapShape
  <2> QED
    BY <1>1, <2>1 DEF CallsOver, NoMapCall, Walks, SweepCalls, Copies, OneCalls, Equals,
                      Sweeps, Ones
<1>2. /\ s \in Seq(Rooms) /\ s # <<>> /\ lock[Head(s)] = u
      /\ q \in Seq(Rooms) /\ q # <<>>
  BY <1>1 DEF WaitsFor
<1>3. LockOK(u, mapCall[u], lock)
  BY DEF MapInv
<1>4. \A r \in Rooms : lock[r] = u => \A i \in 1 .. Len(q) : Before(r, q[i])
  BY <1>3 DEF LockOK
<1> HIDE DEF s, q
<1>5. Head(s) \in Rooms /\ Head(q) \in Rooms /\ Head(q) = q[1] /\ 1 \in 1 .. Len(q)
  BY <1>2
<1> QED
  BY <1>2, <1>4, <1>5 DEF s, q

LEMMA BeforeOrders ==
  ASSUME NEW r \in Rooms, NEW s \in Rooms, NEW q \in Rooms
  PROVE  /\ ~Before(r, r)
         /\ Before(r, s) /\ Before(s, q) => Before(r, q)
<1>1. Maps \subseteq Nat /\ Parts \subseteq Nat
  BY MapAssumption DEF Parts
<1>2. ASSUME NEW x \in Rooms PROVE x[1] \in Nat /\ x[2] \in Nat
  <2>1. x[1] \in Maps /\ x[2] \in Parts
    BY DEF Rooms
  <2> QED
    BY <1>1, <2>1
<1>3. /\ r[1] \in Nat /\ r[2] \in Nat /\ s[1] \in Nat /\ s[2] \in Nat
      /\ q[1] \in Nat /\ q[2] \in Nat
  BY <1>2
<1> QED
  BY <1>3 DEF Before

\* For any number of callers and maps: the threads that hold parts and wait for more,
\* comparing maps from either side or in an `_one` form, never wait in a cycle, because
\* equal_entries and locked_from take the parts of the lower address first.
THEOREM NeverPartCycle == MapSpec => []NoPartCycle
<1>1. MapInv => NoPartCycle
  <2> SUFFICES ASSUME MapInv, NEW group \in SUBSET Callers, group # {},
                      \A t \in group : \E u \in group : WaitsFor(t, u)
               PROVE  FALSE
    BY DEF NoPartCycle
  <2> DEFINE H(t) == Head(mapCall[t].todo)
             Above(t) == {u \in group : Before(H(t), H(u))}
             T == {Above(t) : t \in group}
             R == StrictSubsetOrdering(group)
  <2>1. \A t \in group : mapCall[t].op \in Ones \cup {"equal"} /\ mapCall[t].todo # <<>>
    BY DEF WaitsFor
  <2>2. ASSUME NEW t \in group
        PROVE  \E u \in group : H(t) \in Rooms /\ H(u) \in Rooms /\ Before(H(t), H(u))
    BY <2>1, WaitsUp
  <2> HIDE DEF H
  <2>3. IsFiniteSet(group)
    <3>1. group \in SUBSET Callers
      OBVIOUS
    <3> QED
      BY <3>1, FS_Subset, MapAssumption
  <2>4. T \subseteq FiniteSubsetsOf(group) /\ T # {}
    <3>1. \A t \in group : Above(t) \in SUBSET group
      OBVIOUS
    <3>2. \A t \in group : IsFiniteSet(Above(t))
      BY <2>3, <3>1, FS_Subset
    <3> QED
      BY <3>1, <3>2 DEF FiniteSubsetsOf
  <2>5. IsWellFoundedOn(R, FiniteSubsetsOf(group))
    BY FS_StrictSubsetOrderingWellFounded
  <2> HIDE DEF T, R
  <2>6. PICK a \in T : \A b \in T : ~(<<b, a>> \in R)
    BY <2>4, <2>5, WFMin
  <2>7. PICK t \in group : a = Above(t)
    BY DEF T
  <2>8. PICK u \in group : H(t) \in Rooms /\ H(u) \in Rooms /\ Before(H(t), H(u))
    BY <2>2
  <2>9. Above(u) \subseteq Above(t)
    <3>1. ASSUME NEW v \in group, Before(H(u), H(v)) PROVE Before(H(t), H(v))
      <4>1. H(v) \in Rooms
        BY <2>2
      <4> QED
        BY <2>8, <3>1, <4>1, BeforeOrders
    <3> QED
      BY <3>1
  <2>10. u \in Above(t) /\ u \notin Above(u)
    BY <2>8, BeforeOrders
  <2>11. <<Above(u), Above(t)>> \in R
    BY <2>9, <2>10 DEF R, StrictSubsetOrdering
  <2>12. Above(u) \in T
    BY DEF T
  <2> QED
    BY <2>6, <2>7, <2>11, <2>12
<1> QED
  BY <1>1, MapInvHolds, PTL

-----------------------------------------------------------------------------
(* get_versioned and set_if_version *)

\* A change of a part leaves every token a token.
LEMMA ChangeKeepsTokens ==
  ASSUME MapInv, NEW t, NEW r, NEW e, NEW vs, NEW c, NEW K, NEW next,
         Change(t, r, e, vs, c, K, next), NEW u \in Callers, token[u] # NoToken
  PROVE  token'[u] # NoToken
<1>1. token[u] \in Tokens(made)
  BY DEF MapInv, MapShape
<1>2. token'[u] \in {token[u], [token[u] EXCEPT !.stale = TRUE]}
  BY DEF Change
<1>3. [token[u] EXCEPT !.stale = TRUE] \in Tokens(made)
  BY <1>1 DEF Tokens
<1> QED
  BY <1>1, <1>2, <1>3, TokenIsNot

\* The step with which a caller gives its token back.
LEMMA TokenBack ==
  ASSUME MapInv, NEW t \in Callers, MapStep(t), NEW u \in Callers,
         token[u] # NoToken, token'[u] = NoToken
  PROVE  u = t /\ ((\E v \in Values : SetIfVersion(t, v)) \/ SetIfVersionFails(t))
<1>1. ASSUME NEW r, NEW e, NEW vs, NEW c, NEW K, NEW next, Change(t, r, e, vs, c, K, next)
      PROVE  FALSE
  BY <1>1, ChangeKeepsTokens
<1>2. ASSUME NEW r, NEW K, NEW v, NEW next,
             Write(t, r, K, v, next) \/ Erase(t, r, K, next)
      PROVE  FALSE
  BY <1>1, <1>2 DEF Write, Erase
<1>3. token' # token
  OBVIOUS
<1>4. ASSUME NEW m \in Maps, NEW k \in Keys, NEW v \in Values,
             MapSet(t, m, k, v) \/ AddKey(t, m, k, v) \/ Update(t, m, k, v)
      PROVE  FALSE
  BY <1>2, <1>4 DEF MapSet, AddKey, Update
<1>5. ASSUME NEW m \in Maps, NEW k \in Keys, RemoveKey(t, m, k)
      PROVE  FALSE
  BY <1>2, <1>5 DEF RemoveKey
<1>6. ASSUME NEW m \in Maps, NEW k \in Keys, GetVersioned(t, m, k)
      PROVE  FALSE
  <2>1. token[t] = NoToken /\ token \in [Callers -> {NoToken} \cup Tokens(made)]
    BY <1>6 DEF GetVersioned, MapInv, MapShape
  <2>2. u # t
    BY <2>1
  <2> QED
    BY <1>6, <2>1, <2>2 DEF GetVersioned
<1>7. ASSUME NEW c, Walk(t, c) \/ Copy(t, c) \/ Lock(t, c)
      PROVE  FALSE
  BY <1>3, <1>7 DEF Walk, Copy, Lock
<1>8. ASSUME NEW c, Sweep(t, c)
      PROVE  FALSE
  BY <1>2, <1>8 DEF Sweep
<1>9. CASE WalkEnd(t) \/ CopyEnd(t) \/ Count(t) \/ Compared(t)
  BY <1>3, <1>9 DEF WalkEnd, CopyEnd, Count, Compared
<1>10. CASE Apply(t)
  BY <1>2, <1>3, <1>10 DEF Apply
<1>11. ASSUME NEW v \in Values, SetIfVersion(t, v)
       PROVE  u = t
  <2> SUFFICES ASSUME u # t PROVE FALSE
    OBVIOUS
  <2>1. token[u] \in Tokens(made)
    BY DEF MapInv, MapShape
  <2>2. token'[u] \in {token[u], [token[u] EXCEPT !.stale = TRUE]}
    BY <1>11 DEF SetIfVersion
  <2>3. [token[u] EXCEPT !.stale = TRUE] \in Tokens(made)
    BY <2>1 DEF Tokens
  <2> QED
    BY <2>1, <2>2, <2>3, TokenIsNot
<1>12. CASE SetIfVersionFails(t)
  <2>1. token' = [token EXCEPT ![t] = NoToken]
    BY <1>12 DEF SetIfVersionFails
  <2>2. token \in [Callers -> {NoToken} \cup Tokens(made)]
    BY DEF MapInv, MapShape
  <2>3. u = t
    BY <2>1, <2>2
  <2> QED
    BY <1>12, <2>3
<1> QED
  BY <1>4, <1>5, <1>6, <1>7, <1>8, <1>9, <1>10, <1>11, <1>12 DEF MapStep

\* For any callers: set_if_version writes exactly when the entry is the one get_versioned
\* gave, untouched: neither a change and change back nor a removal and a new entry under
\* the same key, by any other call, ever passes for the version the token holds.
THEOREM CasAlwaysExact == MapSpec => CasExact
<1> DEFINE Exact == \A t \in Callers :
                       token[t] # NoToken /\ token'[t] = NoToken =>
                           (clock' # clock <=> ~token[t].stale)
<1>1. ASSUME MapInv, [MapNext]_mapVars PROVE [Exact]_mapVars
  <2> SUFFICES ASSUME NEW t \in Callers, MapStep(t), NEW u \in Callers,
                      token[u] # NoToken, token'[u] = NoToken
               PROVE  clock' # clock <=> ~token[u].stale
    BY <1>1 DEF MapNext
  <2> DEFINE x == token[t]
             r == <<x.m, partOf[x.k]>>
  <2>1. u = t /\ ((\E v \in Values : SetIfVersion(t, v)) \/ SetIfVersionFails(t))
    BY <1>1, TokenBack
  <2>2. x \in Tokens(made) /\ TokenOK(x, versions, clock, partOf) /\ x # NoToken
    BY <1>1, <2>1 DEF MapInv, MapShape
  <2>3. x.stale <=> ~(x.k \in DOMAIN versions[r] /\ versions[r][x.k] = x.version)
    BY <2>2 DEF TokenOK
  <2>4. r \in Rooms /\ clock \in [Rooms -> Nat]
    BY <1>1, <2>2 DEF MapInv, MapShape, Tokens, Rooms
  <2>5. ASSUME NEW v \in Values, SetIfVersion(t, v)
        PROVE  clock' # clock /\ ~x.stale
    <3>1. /\ x.k \in DOMAIN versions[r] /\ versions[r][x.k] = x.version
          /\ clock' = [clock EXCEPT ![r] = @ + 1]
      BY <2>5 DEF SetIfVersion, RoomOf
    <3> HIDE DEF r
    <3>2. clock'[r] = clock[r] + 1 /\ clock[r] \in Nat
      BY <2>4, <3>1
    <3>3. clock'[r] # clock[r]
      BY <3>2
    <3> QED
      BY <2>3, <3>1, <3>3
  <2>6. ASSUME SetIfVersionFails(t)
        PROVE  clock' = clock /\ x.stale
    BY <2>3, <2>6 DEF SetIfVersionFails, RoomOf
  <2> QED
    BY <2>1, <2>5, <2>6
<1> QED
  BY <1>1, MapInvHolds, PTL DEF MapSpec, CasExact
==============================================================================
