---------------------------- MODULE ConcurrentMap ----------------------------
(* anti.collection.ConcurrentMap: a map in parts, each under a Mutex of its   *)
(* own.  Everything but `size` is reached inside `sync part.lock` alone, so a *)
(* body that needs one lock is one step.  The calls that need more are not:   *)
(* a walk takes the parts one after the other, the `_one` forms and `==` take *)
(* them all, and `copy` fills a map part by part.  A test is the set of       *)
(* values it accepts and a change the value it leaves.                        *)
EXTENDS Integers, FiniteSets, Sequences

CONSTANTS
    Callers,
    Maps,       \* the addresses of the room of each map's parts
    NParts,     \* PARTS
    Keys, Values,
    MaxChanges, \* bound on the changes of a map
    MaxTokens,  \* bound on the threads between get_versioned and set_if_version
    NoThread

ASSUME MapAssumption == /\ Maps \subseteq Nat /\ Maps # {}
                        /\ NParts \in Nat \ {0}
                        /\ MaxChanges \in Nat /\ MaxTokens \in Nat
                        /\ IsFiniteSet(Callers) /\ IsFiniteSet(Keys)
                        /\ NoThread \notin Callers

VARIABLES
    partOf,    \* the part of each key, which the seed of the process decides
    made,      \* the maps threads can reach
    entries, versions, clock, lock,    \* of each part of each map
    size,      \* of each map
    mapCall,    \* the call each thread is in
    token      \* what get_versioned last gave each thread

mapVars == <<partOf, made, entries, versions, clock, lock, size, mapCall, token>>

Parts == 1 .. NParts
Rooms == Maps \X Parts
NoMapCall == [op |-> "idle"]
NoToken == [version |-> 0]
Empty == [k \in {} |-> 0]

\* part_of: the top bits of the seeded hash.
RoomOf(m, k) == <<m, partOf[k]>>

KeysOf(m) == UNION {DOMAIN entries[<<m, p>>] : p \in Parts}

\* The keys of part r whose value the test accepts.
Accepted(r, test) == {k \in DOMAIN entries[r] : entries[r][k] \in test}

\* The changes of the map so far, of every part.
Changes(m) ==
    Cardinality({x \in Parts \X (1 .. MaxChanges) : x[2] <= clock[<<m, x[1]>>]})

PutEntry(f, k, v) == [x \in DOMAIN f \cup {k} |-> IF x = k THEN v ELSE f[x]]
Drop(f, K) == [x \in DOMAIN f \ K |-> f[x]]

MapInit ==
    /\ partOf \in [Keys -> Parts]
    /\ made = {CHOOSE m \in Maps : \A n \in Maps : m <= n}
    /\ entries = [r \in Rooms |-> Empty]
    /\ versions = [r \in Rooms |-> Empty]
    /\ clock = [r \in Rooms |-> 0]
    /\ lock = [r \in Rooms |-> NoThread]
    /\ size = [m \in Maps |-> 0]
    /\ mapCall = [t \in Callers |-> NoMapCall]
    /\ token = [t \in Callers |-> NoToken]

-----------------------------------------------------------------------------
(* What a body does to its part. *)

\* What the walks and the tokens of the other threads witness of a change of
\* the keys K of part r, which leaves the entries e.  History, not state.
Witness(c, r, e) ==
    IF c.op # "walk" \/ c.m # r[1] THEN c
    ELSE LET now == (KeysOf(r[1]) \ DOMAIN entries[r]) \cup DOMAIN e
         IN [c EXCEPT !.always = @ \cap now, !.ever = @ \cup now]

\* The body of thread t leaves part r with the entries e, the versions vs and
\* the clock c, changes the keys K of it, and the thread goes on as next says.
Change(t, r, e, vs, c, K, next) ==
    /\ entries' = [entries EXCEPT ![r] = e]
    /\ versions' = [versions EXCEPT ![r] = vs]
    /\ clock' = [clock EXCEPT ![r] = c]
    /\ mapCall' = [u \in Callers |-> IF u = t THEN next
                                     ELSE Witness(mapCall[u], r, e)]
    /\ token' = [u \in Callers |->
                   IF token[u] # NoToken /\ RoomOf(token[u].m, token[u].k) = r
                      /\ token[u].k \in K
                   THEN [token[u] EXCEPT !.stale = TRUE] ELSE token[u]]

\* changed: each key of K takes a version the part never gave before.
Stamped(r, K) ==
    LET order == CHOOSE s \in [1 .. Cardinality(K) -> K] :
                    \A i, j \in DOMAIN s : s[i] = s[j] => i = j
    IN [k \in DOMAIN versions[r] \cup K |->
          IF k \in K THEN clock[r] + (CHOOSE i \in DOMAIN order : order[i] = k)
          ELSE versions[r][k]]

\* The values under K become v, and each of K is stamped.
Write(t, r, K, v, next) ==
    /\ Changes(r[1]) + Cardinality(K) <= MaxChanges
    /\ Change(t, r, [k \in DOMAIN entries[r] \cup K |->
                       IF k \in K THEN v ELSE entries[r][k]],
              Stamped(r, K), clock[r] + Cardinality(K), K, next)

\* Mutant: a part that becomes empty starts its clock again.
EraseResetsClock(t, r, K, next) ==
    /\ Change(t, r, Drop(entries[r], K), Drop(versions[r], K),
              IF K = DOMAIN entries[r] THEN 0 ELSE clock[r], K, next)
    /\ size' = [size EXCEPT ![r[1]] = @ - Cardinality(K)]

\* The entries of K go, their versions with them, and `size` follows.
Erase(t, r, K, next) ==
    /\ Change(t, r, Drop(entries[r], K), Drop(versions[r], K), clock[r], K, next)
    /\ size' = [size EXCEPT ![r[1]] = @ - Cardinality(K)]

OpenFor(t, r) == mapCall[t] = NoMapCall /\ r[1] \in made /\ lock[r] = NoThread

-----------------------------------------------------------------------------
(* The calls that name a key. *)

MapSet(t, m, k, v) ==
    LET r == RoomOf(m, k) IN
    /\ OpenFor(t, r)
    /\ size' = [size EXCEPT ![m] = IF k \in DOMAIN entries[r] THEN @ ELSE @ + 1]
    /\ Write(t, r, {k}, v, NoMapCall)
    /\ UNCHANGED <<partOf, made, lock>>

\* A call of add for a key the map holds changes nothing.
AddKey(t, m, k, v) ==
    LET r == RoomOf(m, k) IN
    /\ OpenFor(t, r)
    /\ k \notin DOMAIN entries[r]
    /\ Write(t, r, {k}, v, NoMapCall)
    /\ size' = [size EXCEPT ![m] = @ + 1]
    /\ UNCHANGED <<partOf, made, lock>>

RemoveKey(t, m, k) ==
    LET r == RoomOf(m, k) IN
    /\ OpenFor(t, r)
    /\ k \in DOMAIN entries[r]
    /\ Erase(t, r, {k}, NoMapCall)
    /\ UNCHANGED <<partOf, made, lock>>

\* update and modify.
Update(t, m, k, v) ==
    LET r == RoomOf(m, k) IN
    /\ OpenFor(t, r)
    /\ k \in DOMAIN entries[r]
    /\ Write(t, r, {k}, v, NoMapCall)
    /\ UNCHANGED <<partOf, made, lock, size>>

GetVersioned(t, m, k) ==
    LET r == RoomOf(m, k) IN
    /\ OpenFor(t, r)
    /\ token[t] = NoToken
    /\ Cardinality({u \in Callers : token[u] # NoToken}) < MaxTokens
    /\ k \in DOMAIN entries[r]
    /\ token' = [token EXCEPT ![t] =
                   [version |-> IF k \in DOMAIN versions[r]
                                THEN versions[r][k] ELSE 0,
                    m |-> m, k |-> k, stale |-> FALSE]]
    /\ UNCHANGED <<partOf, made, entries, versions, clock, lock, size, mapCall>>

\* The thread gives its token back, and either writes v or fails with Changed.
SetIfVersion(t, v) ==
    LET r == RoomOf(token[t].m, token[t].k) IN
    /\ token[t] # NoToken
    /\ OpenFor(t, r)
    /\ token[t].k \in DOMAIN versions[r]
    /\ versions[r][token[t].k] = token[t].version
    /\ Changes(r[1]) < MaxChanges
    /\ entries' = [entries EXCEPT ![r] = PutEntry(@, token[t].k, v)]
    /\ versions' = [versions EXCEPT ![r] = PutEntry(@, token[t].k, clock[r] + 1)]
    /\ clock' = [clock EXCEPT ![r] = @ + 1]
    /\ mapCall' = [u \in Callers |-> Witness(mapCall[u], r, entries'[r])]
    /\ token' = [u \in Callers |->
                   IF u = t THEN NoToken
                   ELSE IF token[u] # NoToken /\ token[u].k = token[t].k
                           /\ token[u].m = token[t].m
                        THEN [token[u] EXCEPT !.stale = TRUE] ELSE token[u]]
    /\ UNCHANGED <<partOf, made, lock, size>>

SetIfVersionFails(t) ==
    LET r == RoomOf(token[t].m, token[t].k) IN
    /\ token[t] # NoToken
    /\ OpenFor(t, r)
    /\ token[t].k \in DOMAIN versions[r] =>
          versions[r][token[t].k] # token[t].version
    /\ token' = [token EXCEPT ![t] = NoToken]
    /\ UNCHANGED <<partOf, made, entries, versions, clock, lock, size, mapCall>>

-----------------------------------------------------------------------------
(* The calls that take the parts one after the other: the body of the part     *)
(* c.at is a step, and it leaves the call at the next one.                     *)

\* keys, values, iter, find_all and gathered.
WalkCall(m) == [op |-> "walk", m |-> m, at |-> 1, seen |-> {},
                always |-> KeysOf(m), ever |-> KeysOf(m)]

\* Mutant: the walk passes over a part.
WalkSkips(t, c) ==
    /\ c.op = "walk" /\ c.at <= NParts
    /\ lock[<<c.m, c.at>>] = NoThread
    /\ mapCall' = [mapCall EXCEPT ![t] =
                  [c EXCEPT !.seen = @ \cup DOMAIN entries[<<c.m, c.at>>],
                            !.at = NParts + 1]]
    /\ UNCHANGED <<partOf, made, entries, versions, clock, lock, size, token>>

Walk(t, c) ==
    /\ c.op = "walk" /\ c.at <= NParts
    /\ lock[<<c.m, c.at>>] = NoThread
    /\ mapCall' = [mapCall EXCEPT ![t] =
                  [c EXCEPT !.seen = @ \cup DOMAIN entries[<<c.m, c.at>>],
                            !.at = @ + 1]]
    /\ UNCHANGED <<partOf, made, entries, versions, clock, lock, size, token>>

WalkEnd(t) ==
    /\ mapCall[t].op = "walk" /\ mapCall[t].at > NParts
    /\ mapCall' = [mapCall EXCEPT ![t] = NoMapCall]
    /\ UNCHANGED <<partOf, made, entries, versions, clock, lock, size, token>>

\* update_all, remove_all and clear go over every part, update_first and
\* remove_first stop at the first match.
Sweeps == {"update_all", "remove_all", "update_first", "remove_first"}
SweepCall(op, m, test, v) == [op |-> op, m |-> m, at |-> 1, test |-> test, v |-> v]

\* The call after the body of a part: done, or at the next part.
Onward(c, hit) ==
    IF c.at = NParts \/ (hit /\ c.op \in {"update_first", "remove_first"})
    THEN NoMapCall ELSE [c EXCEPT !.at = @ + 1]

\* The keys of the part that the call takes: every match, or one of them.
Chosen(c) ==
    LET all == Accepted(<<c.m, c.at>>, c.test) IN
    IF c.op \in {"update_all", "remove_all"} \/ all = {} THEN {all}
    ELSE {{k} : k \in all}

Sweep(t, c) ==
    LET r == <<c.m, c.at>> IN
    /\ c.op \in Sweeps
    /\ lock[r] = NoThread
    /\ \E K \in Chosen(c) :
          IF c.op \in {"update_all", "update_first"}
          THEN Write(t, r, K, c.v, Onward(c, K # {})) /\ UNCHANGED size
          ELSE Erase(t, r, K, Onward(c, K # {}))
    /\ UNCHANGED <<partOf, made, lock>>

\* copy: a map that no thread can reach yet takes the parts one by one.
CopyCall(m, to) == [op |-> "copy", m |-> m, to |-> to, at |-> 1, total |-> 0]

\* Mutant: the clock of the copy starts at zero.
CopyNoClock(t, c) ==
    LET r == <<c.m, c.at>> IN
    /\ c.op = "copy" /\ c.at <= NParts
    /\ lock[r] = NoThread
    /\ entries' = [entries EXCEPT ![<<c.to, c.at>>] = entries[r]]
    /\ versions' = [versions EXCEPT ![<<c.to, c.at>>] = versions[r]]
    /\ mapCall' = [mapCall EXCEPT ![t] =
                  [c EXCEPT !.at = @ + 1,
                            !.total = @ + Cardinality(DOMAIN entries[r])]]
    /\ UNCHANGED <<partOf, made, clock, lock, size, token>>

Copy(t, c) ==
    LET r == <<c.m, c.at>> IN
    /\ c.op = "copy" /\ c.at <= NParts
    /\ lock[r] = NoThread
    /\ entries' = [entries EXCEPT ![<<c.to, c.at>>] = entries[r]]
    /\ versions' = [versions EXCEPT ![<<c.to, c.at>>] = versions[r]]
    /\ clock' = [clock EXCEPT ![<<c.to, c.at>>] = clock[r]]
    /\ mapCall' = [mapCall EXCEPT ![t] =
                  [c EXCEPT !.at = @ + 1,
                            !.total = @ + Cardinality(DOMAIN entries[r])]]
    /\ UNCHANGED <<partOf, made, lock, size, token>>

CopyEnd(t) ==
    /\ mapCall[t].op = "copy" /\ mapCall[t].at > NParts
    /\ size' = [size EXCEPT ![mapCall[t].to] = mapCall[t].total]
    /\ made' = made \cup {mapCall[t].to}
    /\ mapCall' = [mapCall EXCEPT ![t] = NoMapCall]
    /\ UNCHANGED <<partOf, entries, versions, clock, lock, token>>

-----------------------------------------------------------------------------
(* The calls that hold every part. *)

\* The parts of m, in their order.
PartsOf(m) == [p \in Parts |-> <<m, p>>]

\* find_one, update_one and remove_one, which locked_from gives every part.
Ones == {"find_one", "update_one", "remove_one"}
OneCall(op, m, test, v) == [op |-> op, todo |-> PartsOf(m), m |-> m,
                            test |-> test, v |-> v, n |-> -1]

\* Mutant: the maps are locked in the order the comparison names them.
EqualAsNamed(a, b) == [op |-> "equal", todo |-> PartsOf(a) \o PartsOf(b)]

\* equal_entries: the parts of the map at the lower address come first.
EqualCall(a, b) ==
    [op |-> "equal", todo |-> IF a < b THEN PartsOf(a) \o PartsOf(b)
                              ELSE PartsOf(b) \o PartsOf(a)]

\* The next Mutex of the call.
Lock(t, c) ==
    /\ c.op \in Ones \cup {"equal"} /\ c.todo # <<>>
    /\ lock[Head(c.todo)] = NoThread
    /\ lock' = [lock EXCEPT ![Head(c.todo)] = t]
    /\ mapCall' = [mapCall EXCEPT ![t] = [c EXCEPT !.todo = Tail(@)]]
    /\ UNCHANGED <<partOf, made, entries, versions, clock, size, token>>

Unlocked(t) == [r \in Rooms |-> IF lock[r] = t THEN NoThread ELSE lock[r]]

\* Mutant: the count ends the section, and the match is changed in another.
CountUnlocks(t) ==
    /\ mapCall[t].op \in Ones /\ mapCall[t].todo = <<>> /\ mapCall[t].n < 0
    /\ mapCall' = [mapCall EXCEPT ![t].n = Cardinality(
                  UNION {Accepted(<<mapCall[t].m, p>>, mapCall[t].test) : p \in Parts})]
    /\ lock' = Unlocked(t)
    /\ UNCHANGED <<partOf, made, entries, versions, clock, size, token>>

\* matches, with every part locked.
Count(t) ==
    /\ mapCall[t].op \in Ones /\ mapCall[t].todo = <<>> /\ mapCall[t].n < 0
    /\ mapCall' = [mapCall EXCEPT ![t].n = Cardinality(
                  UNION {Accepted(<<mapCall[t].m, p>>, mapCall[t].test) : p \in Parts})]
    /\ UNCHANGED <<partOf, made, entries, versions, clock, lock, size, token>>

\* The one match, in the first part that holds one, or NotOne.
Apply(t) ==
    LET c == mapCall[t] IN
    /\ c.op \in Ones /\ c.todo = <<>> /\ c.n >= 0
    /\ IF c.n = 1 /\ c.op # "find_one"
       THEN \E p \in Parts :
              /\ Accepted(<<c.m, p>>, c.test) # {}
              /\ \A q \in 1 .. p - 1 : Accepted(<<c.m, q>>, c.test) = {}
              /\ \E k \in Accepted(<<c.m, p>>, c.test) :
                    IF c.op = "update_one"
                    THEN Write(t, <<c.m, p>>, {k}, c.v, NoMapCall) /\ UNCHANGED size
                    ELSE Erase(t, <<c.m, p>>, {k}, NoMapCall)
       ELSE /\ mapCall' = [mapCall EXCEPT ![t] = NoMapCall]
            /\ UNCHANGED <<entries, versions, clock, size, token>>
    /\ lock' = Unlocked(t)
    /\ UNCHANGED <<partOf, made>>

\* equal_locked compares, and the locks go back.
Compared(t) ==
    /\ mapCall[t].op = "equal" /\ mapCall[t].todo = <<>>
    /\ mapCall' = [mapCall EXCEPT ![t] = NoMapCall]
    /\ lock' = Unlocked(t)
    /\ UNCHANGED <<partOf, made, entries, versions, clock, size, token>>

-----------------------------------------------------------------------------
\* The calls of more than one step.  A test accepts the entries of one value,
\* and clear takes every entry.
Calls ==
    {WalkCall(m) : m \in made}
    \cup (UNION {{SweepCall("update_all", x[1], {x[2]}, x[3]),
                  SweepCall("update_first", x[1], {x[2]}, x[3]),
                  OneCall("update_one", x[1], {x[2]}, x[3])} :
                 x \in made \X Values \X Values})
    \cup (UNION {{SweepCall("remove_all", x[1], {x[2]}, x[2]),
                  SweepCall("remove_first", x[1], {x[2]}, x[2]),
                  SweepCall("remove_all", x[1], Values, x[2]),
                  OneCall("find_one", x[1], {x[2]}, x[2]),
                  OneCall("remove_one", x[1], {x[2]}, x[2])} : x \in made \X Values})
    \cup {EqualCall(x[1], x[2]) : x \in {y \in made \X made : y[1] # y[2]}}
    \cup {CopyCall(x[1], x[2]) :
            x \in made \X {n \in Maps \ made : \A u \in Callers :
                            mapCall[u].op = "copy" => mapCall[u].to # n}}

MapStep(t) ==
    \/ \E m \in Maps, k \in Keys, v \in Values :
          \/ MapSet(t, m, k, v) \/ AddKey(t, m, k, v) \/ Update(t, m, k, v)
    \/ \E m \in Maps, k \in Keys : RemoveKey(t, m, k) \/ GetVersioned(t, m, k)
    \/ \E v \in Values : SetIfVersion(t, v)
    \/ SetIfVersionFails(t)
    \/ \E c \in IF mapCall[t] = NoMapCall THEN Calls ELSE {mapCall[t]} :
          Walk(t, c) \/ Sweep(t, c) \/ Copy(t, c) \/ Lock(t, c)
    \/ WalkEnd(t) \/ CopyEnd(t) \/ Count(t) \/ Apply(t) \/ Compared(t)

MapNext == \E t \in Callers : MapStep(t)

MapSpec == MapInit /\ [][MapNext]_mapVars

-----------------------------------------------------------------------------
(* Properties *)

MapTypeOK ==
    /\ made \subseteq Maps
    /\ \A r \in Rooms :
          /\ DOMAIN entries[r] \subseteq {k \in Keys : partOf[k] = r[2]}
          /\ \A k \in DOMAIN entries[r] : entries[r][k] \in Values
          /\ clock[r] \in 0 .. MaxChanges
    /\ lock \in [Rooms -> Callers \cup {NoThread}]
    /\ \A m \in Maps : size[m] \in 0 .. Cardinality(Keys)

\* The two tables of a part, which every call changes apart, never drift: each
\* entry has a version, each version an entry, no two entries share one, and
\* the clock is past them all, in a map that `copy` made as well.
StampsMatch ==
    \A r \in Rooms :
        /\ DOMAIN versions[r] = DOMAIN entries[r]
        /\ \A k \in DOMAIN versions[r] :
              /\ versions[r][k] \in 1 .. clock[r]
              /\ \A j \in DOMAIN versions[r] :
                    versions[r][j] = versions[r][k] => j = k

\* `size` is the number of entries of the map, whatever calls met in it, a
\* copy taken while others changed the map among them.
SizeExact == \A m \in made : size[m] = Cardinality(KeysOf(m))

\* What a part of the map keeps in several places stays one thing: entries and
\* versions, the clock over them, and the size all parts share.
MapSound == MapTypeOK /\ StampsMatch /\ SizeExact

\* A walk gives every key that was there all along and none that never was.
WalkTrue ==
    \A t \in Callers : mapCall[t].op = "walk" /\ mapCall[t].at > NParts =>
        /\ mapCall[t].always \subseteq mapCall[t].seen
        /\ mapCall[t].seen \subseteq mapCall[t].ever

\* The one match that an `_one` form found is the only one while it acts.
OnlyMatch ==
    \A t \in Callers :
        (mapCall[t].op \in Ones /\ mapCall[t].todo = <<>> /\ mapCall[t].n >= 0) =>
            mapCall[t].n = Cardinality(UNION {Accepted(<<mapCall[t].m, p>>,
                                                    mapCall[t].test) : p \in Parts})

\* set_if_version writes exactly when nothing changed, removed, replaced or
\* added the entry since get_versioned, whichever calls other threads made.
CasExact ==
    [][\A t \in Callers :
         token[t] # NoToken /\ token'[t] = NoToken =>
             (clock' # clock <=> ~token[t].stale)]_mapVars

\* Caller t waits for a part that u holds.
WaitsFor(t, u) ==
    /\ mapCall[t].op \in Ones \cup {"equal"} /\ mapCall[t].todo # <<>>
    /\ lock[Head(mapCall[t].todo)] = u

\* Threads that hold parts and wait for more never wait in a cycle, for
\* comparisons of two maps from both sides and the `_one` forms.
NoPartCycle ==
    \A group \in (SUBSET Callers) \ {{}} :
        \E t \in group : \A u \in group : ~WaitsFor(t, u)
==============================================================================
