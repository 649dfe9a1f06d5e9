--------------------------- MODULE BuildCacheProofs ---------------------------
(* What the cache of builds promises, for any modules, imports, sources, edits *)
(* and stops.  The invariant BuildInv follows a build through its plan: what   *)
(* stands before the output it is at has the key a run would give it now.      *)
EXTENDS BuildCache, WellFoundedInduction, TLAPS

-----------------------------------------------------------------------------
(* The invariant *)

Steps == {"idle", "order", "check", "compile", "store", "deliver"}
Working == {"check", "compile", "store"}

\* The output at place i of the plan that goes with an order.
Nth(order, i) == IF i <= Len(order) THEN Lib(order[i])
                 ELSE IF i < Len(order) + N THEN Obj(i - Len(order)) ELSE Prog

\* The outputs that the build is done with are the first ones of the plan.
Places == Len(build.order) + N
Done == Places - Len(build.todo)

\* The key of o that a run would ask for, by the imports g, the sources src, the
\* outputs O and the keys K, and an output that has it.
ClosureIn(g, m) ==
    {i \in Modules \ {m} :
        \A X \in SUBSET Modules :
            g[m] \subseteq X /\ (\A k \in X : g[k] \subseteq X) => i \in X}
InputIn(src, O, o) == IF o.kind = "obj" THEN O[Lib(o.m)] ELSE Text(src[o.m])
KeyIn(g, src, O, K, o) ==
    [is |-> "made", kind |-> o.kind, input |-> InputIn(src, O, o),
     from |-> [i \in ClosureIn(g, o.m) |-> O[Lib(i)]],
     objects |-> IF o.kind # "prog" THEN <<>> ELSE [p \in Objects |-> K[p]]]
UpToDate(g, src, O, K, o) == K[o] = KeyIn(g, src, O, K, o)

\* The outputs O and P and their keys K and J differ at o alone.
DifferAt(O, P, K, J, o) == \A p \in Outputs : p # o => P[p] = O[p] /\ J[p] = K[p]

Shape ==
    /\ imports \in [Modules -> SUBSET Modules]
    /\ DOMAIN out = Outputs /\ DOMAIN key = Outputs
    /\ build = [step |-> build.step, order |-> build.order, todo |-> build.todo,
                key |-> build.key, quiet |-> build.quiet]
    /\ build.step \in Steps

\* No module comes twice, and each one after those it imports.
Fits(ord, g) ==
    /\ ord \in Seq(Modules)
    /\ \A i, k \in 1 .. Len(ord) : ord[i] = ord[k] => i = k
    /\ \A i \in 1 .. Len(ord) : g[ord[i]] \ {ord[i]} \subseteq {ord[k] : k \in 1 .. i - 1}

OrderOK == Fits(build.order, imports)

TodoOK ==
    build.step \in Working \cup {"deliver"} =>
        /\ \A m \in Modules : \E i \in 1 .. Len(build.order) : build.order[i] = m
        /\ build.todo \in Seq(Outputs) /\ Len(build.todo) <= Places
        /\ build.todo = <<>> <=> build.step = "deliver"
        /\ \A i \in 1 .. Len(build.todo) : build.todo[i] = Nth(build.order, Done + i)

DoneOK ==
    build.step \in Working \cup {"deliver"} /\ build.quiet =>
        \A i \in 1 .. Done : UpToDate(imports, source, out, key, Nth(build.order, i))

CurrentOK ==
    /\ build.step \in {"compile", "store"} =>
          /\ key[Current] = None
          /\ build.quiet => build.key = KeyIn(imports, source, out, key, Current)
    /\ build.step = "store" => Whole(out[Current])

\* Only an output that was written to its end has a key.
KeysOK == \A o \in Outputs : Whole(key[o]) => Whole(out[o])

SameOK ==
    same => /\ build.step \notin {"compile", "store"}
            /\ \A o \in Outputs : UpToDate(imports, source, out, key, o)

BuildInv == Shape /\ OrderOK /\ TodoOK /\ DoneOK /\ CurrentOK /\ KeysOK /\ SameOK

\* Without edits during a build an output is what its key says.
FreshInv ==
    /\ build.quiet \/ build.step = "idle"
    /\ KeyTells
    /\ build.step = "store" => out[Current] = KeyIn(imports, source, out, out, Current)
    /\ DeliversFresh

-----------------------------------------------------------------------------
(* Outputs, keys and places. *)

\* The outputs are the library files, the objects and the program.
LEMMA OutputFacts ==
    /\ \A m \in Modules : Lib(m) \in Outputs /\ Lib(m).kind = "lib" /\ Lib(m).m = m
    /\ \A m \in 1 .. N - 1 : Obj(m) \in Outputs /\ Obj(m).kind = "obj" /\ Obj(m).m = m
    /\ Prog \in Outputs /\ Prog.kind = "prog" /\ Prog.m = N
    /\ \A o \in Outputs : \/ \E m \in Modules : o = Lib(m)
                          \/ \E m \in 1 .. N - 1 : o = Obj(m)
                          \/ o = Prog
    /\ \A o \in Outputs : o.m \in Modules
    /\ Objects = {Obj(m) : m \in 1 .. N - 1}
BY BuildAssumption DEF Outputs, Lib, Obj, Prog, Main, Modules, Objects

\* A key is whole, and the marks of a missing and a torn file are not.
LEMMA KeyIs ==
    ASSUME NEW o, NEW x
    PROVE  /\ Whole(KeyOf(o, x)) /\ KeyOf(o, x).input = x /\ KeyOf(o, x) # None
           /\ Whole(Made(o)) /\ ~Whole(None) /\ ~Whole(Torn)
<1>1. KeyOf(o, x).is = "made" /\ KeyOf(o, x).input = x /\ Made(o).is = "made"
  BY DEF KeyOf, Made
<1>2. None.is = "none" /\ Torn.is = "torn"
  BY DEF None, Torn
<1> QED
  BY <1>1, <1>2 DEF Whole

\* The sequence without elements.
LEMMA EmptyIs ==
    ASSUME NEW X, NEW s \in Seq(X)
    PROVE  s = <<>> <=> Len(s) = 0
OBVIOUS

\* Two sequences, one behind the other.
LEMMA ConcatIs ==
    ASSUME NEW X, NEW s \in Seq(X), NEW t \in Seq(X), NEW a \in Nat, NEW b \in Nat,
           Len(s) = a, Len(t) = b, NEW r, r = s \o t
    PROVE  /\ r \in Seq(X) /\ Len(r) = a + b
           /\ \A i \in 1 .. a + b : r[i] = IF i <= a THEN s[i] ELSE t[i - a]
<1>1. s \o t \in Seq(X) /\ Len(s \o t) = a + b
  OBVIOUS
<1>2. \A i \in 1 .. a + b : (s \o t)[i] = IF i <= a THEN s[i] ELSE t[i - a]
  OBVIOUS
<1> QED
  BY <1>1, <1>2

\* A sequence with one element behind it.
LEMMA EndIs ==
    ASSUME NEW X, NEW s \in Seq(X), NEW x \in X, NEW a \in Nat, Len(s) = a,
           NEW r, r = s \o <<x>>
    PROVE  /\ r \in Seq(X) /\ Len(r) = a + 1
           /\ \A i \in 1 .. a + 1 : r[i] = IF i <= a THEN s[i] ELSE x
<1> DEFINE t == <<x>>
<1>1. t \in Seq(X) /\ Len(t) = 1 /\ t[1] = x
  OBVIOUS
<1>2. r = s \o t
  OBVIOUS
<1> HIDE DEF t
<1>3. /\ r \in Seq(X) /\ Len(r) = a + 1
      /\ \A i \in 1 .. a + 1 : r[i] = IF i <= a THEN s[i] ELSE t[i - a]
  BY <1>1, <1>2, ConcatIs
<1>4. \A i \in 1 .. a + 1 : ~(i <= a) => i - a = 1
  OBVIOUS
<1> QED
  BY <1>1, <1>3, <1>4

\* The plan, place by place.
LEMMA PlanIs ==
    ASSUME build.order \in Seq(Modules)
    PROVE  /\ Plan \in Seq(Outputs) /\ Len(Plan) = Places
           /\ \A i \in 1 .. Places : Plan[i] = Nth(build.order, i)
<1> DEFINE ord == build.order
           L == Len(ord)
           libs == [i \in DOMAIN ord |-> Lib(ord[i])]
           objs == [m \in 1 .. N - 1 |-> Obj(m)]
<1>1. L \in Nat /\ N \in Nat /\ N > 0 /\ N - 1 \in Nat /\ DOMAIN ord = 1 .. L
      /\ \A i \in 1 .. L : ord[i] \in Modules
  BY BuildAssumption
<1>2. libs \in Seq(Outputs) /\ Len(libs) = L /\ \A i \in 1 .. L : libs[i] = Lib(ord[i])
  <2>1. libs \in [1 .. L -> Outputs]
    BY <1>1, OutputFacts
  <2> HIDE DEF libs
  <2> QED
    BY <1>1, <2>1 DEF libs
<1>3. objs \in Seq(Outputs) /\ Len(objs) = N - 1 /\ \A i \in 1 .. N - 1 : objs[i] = Obj(i)
  <2>1. objs \in [1 .. N - 1 -> Outputs]
    BY <1>1, OutputFacts
  <2> HIDE DEF objs
  <2> QED
    BY <1>1, <2>1 DEF objs
<1>4. Plan = libs \o objs \o <<Prog>>
  BY DEF Plan
<1> HIDE DEF libs, objs, L
<1> DEFINE both == libs \o objs
           M == N - 1
<1>5. /\ both \in Seq(Outputs) /\ Len(both) = L + M
      /\ \A i \in 1 .. L + M : both[i] = IF i <= L THEN libs[i] ELSE objs[i - L]
  <2>1. /\ libs \in Seq(Outputs) /\ objs \in Seq(Outputs)
        /\ Len(libs) = L /\ Len(objs) = M /\ L \in Nat /\ M \in Nat
    BY <1>1, <1>2, <1>3
  <2>2. both = libs \o objs
    OBVIOUS
  <2> HIDE DEF both, M
  <2> QED
    BY <2>1, <2>2, ConcatIs
<1> HIDE DEF both
<1>6. /\ both \o <<Prog>> \in Seq(Outputs) /\ Len(both \o <<Prog>>) = L + N
      /\ \A i \in 1 .. L + N :
            (both \o <<Prog>>)[i] = IF i <= L + (N - 1) THEN both[i] ELSE Prog
  <2>1. both \in Seq(Outputs) /\ Len(both) = L + (N - 1)
    BY <1>5 DEF both
  <2>2. Prog \in Outputs
    BY OutputFacts
  <2> DEFINE a == L + (N - 1)
             all == both \o <<Prog>>
  <2>3. a \in Nat /\ a + 1 = L + N
    BY <1>1
  <2>4. all = both \o <<Prog>> /\ Len(both) = a
    BY <2>1
  <2> HIDE DEF a, all
  <2>5. /\ all \in Seq(Outputs) /\ Len(all) = a + 1
        /\ \A i \in 1 .. a + 1 : all[i] = IF i <= a THEN both[i] ELSE Prog
    BY <2>1, <2>2, <2>3, <2>4, EndIs
  <2> QED
    BY <2>3, <2>5 DEF a, all
<1>7. ASSUME NEW i \in 1 .. L + N
      PROVE  Plan[i] = Nth(ord, i)
  <2>1. CASE i <= L
    <3>1. i \in 1 .. L /\ i <= L + (N - 1) /\ i \in 1 .. L + (N - 1)
      BY <1>1, <2>1
    <3> QED
      BY <1>2, <1>4, <1>5, <1>6, <2>1, <3>1 DEF Nth, L, both
  <2>2. CASE i > L /\ i < L + N
    <3>1. /\ i <= L + (N - 1) /\ i \in 1 .. L + (N - 1) /\ i - L \in 1 .. N - 1
          /\ ~(i <= L)
      BY <1>1, <2>2
    <3> QED
      BY <1>3, <1>4, <1>5, <1>6, <2>2, <3>1 DEF Nth, L, both
  <2>3. CASE i = L + N
    <3>1. ~(i <= L + (N - 1)) /\ ~(i <= L) /\ ~(i < L + N)
      BY <1>1, <2>3
    <3> QED
      BY <1>4, <1>6, <2>3, <3>1 DEF Nth, L, both
  <2> QED
    BY <1>1, <2>1, <2>2, <2>3
<1> QED
  BY <1>4, <1>6, <1>7 DEF Places, L, both

\* Which output stands at a place.
LEMMA NthIs ==
    ASSUME NEW ord \in Seq(Modules), NEW n \in Nat, Len(ord) = n, NEW i \in 1 .. n + N
    PROVE  /\ Nth(ord, i) \in Outputs
           /\ i <= n => Nth(ord, i) = Lib(ord[i]) /\ ord[i] \in Modules
           /\ i > n /\ i < n + N => Nth(ord, i) = Obj(i - n) /\ i - n \in 1 .. N - 1
           /\ i = n + N => Nth(ord, i) = Prog
<1>1. N \in Nat /\ N > 0
  BY BuildAssumption
<1>2. CASE i <= n
  <2>1. Nth(ord, i) = Lib(ord[i]) /\ ord[i] \in Modules /\ ~(i > n) /\ i # n + N
    BY <1>1, <1>2 DEF Nth
  <2> QED
    BY <2>1, OutputFacts
<1>3. CASE i > n /\ i < n + N
  <2>1. Nth(ord, i) = Obj(i - n) /\ i - n \in 1 .. N - 1 /\ ~(i <= n) /\ i # n + N
    BY <1>1, <1>3 DEF Nth
  <2> QED
    BY <2>1, OutputFacts
<1>4. CASE i = n + N
  <2>1. Nth(ord, i) = Prog /\ ~(i <= n) /\ ~(i < n + N)
    BY <1>1, <1>4 DEF Nth
  <2> QED
    BY <2>1, OutputFacts
<1> QED
  BY <1>1, <1>2, <1>3, <1>4

\* Different outputs stand at different places.
LEMMA NthApart ==
    ASSUME NEW ord \in Seq(Modules), NEW n \in Nat, Len(ord) = n,
           \A i, k \in 1 .. n : ord[i] = ord[k] => i = k,
           NEW i \in 1 .. n + N, NEW k \in 1 .. n + N, Nth(ord, i) = Nth(ord, k)
    PROVE  i = k
<1>1. N \in Nat /\ N > 0
  BY BuildAssumption
<1>2. \/ i <= n /\ Nth(ord, i) = Lib(ord[i]) /\ ord[i] \in Modules
      \/ i > n /\ i < n + N /\ Nth(ord, i) = Obj(i - n) /\ i - n \in 1 .. N - 1
      \/ i = n + N /\ Nth(ord, i) = Prog
  <2>1. i <= n \/ (i > n /\ i < n + N) \/ i = n + N
    BY <1>1
  <2> QED
    BY <2>1, NthIs
<1>3. \/ k <= n /\ Nth(ord, k) = Lib(ord[k]) /\ ord[k] \in Modules
      \/ k > n /\ k < n + N /\ Nth(ord, k) = Obj(k - n) /\ k - n \in 1 .. N - 1
      \/ k = n + N /\ Nth(ord, k) = Prog
  <2>1. k <= n \/ (k > n /\ k < n + N) \/ k = n + N
    BY <1>1
  <2> QED
    BY <2>1, NthIs
<1>4. CASE i <= n /\ k <= n
  <2>1. Nth(ord, i) = Lib(ord[i]) /\ Nth(ord, k) = Lib(ord[k])
        /\ ord[i] \in Modules /\ ord[k] \in Modules
    BY <1>4, NthIs
  <2>2. Lib(ord[i]).m = Lib(ord[k]).m
    BY <2>1
  <2>3. ord[i] = ord[k] /\ i \in 1 .. n /\ k \in 1 .. n
    BY <1>4, <2>1, <2>2, OutputFacts
  <2> QED
    BY <2>3
<1>5. CASE i > n /\ i < n + N /\ k > n /\ k < n + N
  <2>1. /\ Nth(ord, i) = Obj(i - n) /\ Nth(ord, k) = Obj(k - n)
        /\ i - n \in 1 .. N - 1 /\ k - n \in 1 .. N - 1
    BY <1>5, NthIs
  <2>2. Obj(i - n).m = Obj(k - n).m
    BY <2>1
  <2>3. i - n = k - n
    BY <2>1, <2>2, OutputFacts
  <2> QED
    BY <2>3
<1>6. CASE i = n + N /\ k = n + N
  BY <1>6
<1>7. Nth(ord, i).kind = Nth(ord, k).kind
  OBVIOUS
<1>8. /\ i <= n => Nth(ord, i).kind = "lib"
      /\ i > n /\ i < n + N => Nth(ord, i).kind = "obj"
      /\ i = n + N => Nth(ord, i).kind = "prog"
  BY NthIs, OutputFacts
<1>9. /\ k <= n => Nth(ord, k).kind = "lib"
      /\ k > n /\ k < n + N => Nth(ord, k).kind = "obj"
      /\ k = n + N => Nth(ord, k).kind = "prog"
  BY NthIs, OutputFacts
<1>10. (i <= n \/ (i > n /\ i < n + N) \/ i = n + N) /\ (k <= n \/ (k > n /\ k < n + N) \/ k = n + N)
  BY <1>1
<1> QED
  BY <1>4, <1>5, <1>6, <1>7, <1>8, <1>9, <1>10

\* Every output stands at a place once all modules are in the order.
LEMMA NthCovers ==
    ASSUME NEW ord \in Seq(Modules), NEW n \in Nat, Len(ord) = n,
           \A m \in Modules : \E i \in 1 .. n : ord[i] = m, NEW o \in Outputs
    PROVE  \E i \in 1 .. n + N : Nth(ord, i) = o
<1>1. N \in Nat /\ N > 0
  BY BuildAssumption
<1>2. CASE \E m \in Modules : o = Lib(m)
  <2>1. PICK m \in Modules : o = Lib(m)
    BY <1>2
  <2>2. PICK i \in 1 .. n : ord[i] = m
    OBVIOUS
  <2>3. i \in 1 .. n + N /\ i <= n
    BY <1>1
  <2> QED
    BY <2>1, <2>2, <2>3, NthIs
<1>3. CASE \E m \in 1 .. N - 1 : o = Obj(m)
  <2>1. PICK m \in 1 .. N - 1 : o = Obj(m)
    BY <1>3
  <2> DEFINE i == n + m
  <2>2. i \in 1 .. n + N /\ i > n /\ i < n + N /\ i - n = m
    BY <1>1
  <2> HIDE DEF i
  <2>3. Nth(ord, i) = Obj(i - n)
    BY <2>2, NthIs
  <2> QED
    BY <2>1, <2>2, <2>3
<1>4. CASE o = Prog
  <2> DEFINE i == n + N
  <2>1. i \in 1 .. n + N /\ i = n + N
    BY <1>1
  <2> HIDE DEF i
  <2> QED
    BY <1>4, <2>1, NthIs
<1> QED
  BY <1>2, <1>3, <1>4, OutputFacts

\* What a module reaches stands before it in the order.
LEMMA ClosureBefore ==
    ASSUME NEW g, NEW ord \in Seq(Modules), NEW n \in Nat, Len(ord) = n,
           \A i \in 1 .. n : g[ord[i]] \ {ord[i]} \subseteq {ord[k] : k \in 1 .. i - 1},
           NEW j \in 1 .. n
    PROVE  ClosureIn(g, ord[j]) \subseteq {ord[k] : k \in 1 .. j - 1}
<1> DEFINE X == {ord[k] : k \in 1 .. j}
<1>1. \A i \in 1 .. n : ord[i] \in Modules
  OBVIOUS
<1>2. X \in SUBSET Modules
  BY <1>1
<1>3. ASSUME NEW k \in 1 .. j
      PROVE  g[ord[k]] \subseteq X
  <2>1. k \in 1 .. n /\ \A i \in 1 .. k - 1 : i \in 1 .. j
    OBVIOUS
  <2>2. g[ord[k]] \ {ord[k]} \subseteq {ord[i] : i \in 1 .. k - 1}
    BY <2>1
  <2> QED
    BY <2>1, <2>2
<1>4. \A i \in X : g[i] \subseteq X
  BY <1>3
<1>5. j \in 1 .. j
  OBVIOUS
<1>6. g[ord[j]] \subseteq X
  BY <1>3, <1>5
<1>7. ClosureIn(g, ord[j]) \subseteq X \ {ord[j]}
  <2> HIDE DEF X
  <2> QED
    BY <1>2, <1>4, <1>6 DEF ClosureIn
<1>8. \A k \in 1 .. j : k # j => k \in 1 .. j - 1
  OBVIOUS
<1> QED
  BY <1>7, <1>8

\* A module reaches modules, and not itself.
LEMMA ClosureIs ==
    ASSUME NEW g, NEW m
    PROVE  ClosureIn(g, m) \subseteq Modules \ {m}
BY DEF ClosureIn

\* KeyIn is the key of the model.
LEMMA KeyNow ==
    ASSUME NEW o
    PROVE  /\ KeyOf(o, Input(o)) = KeyIn(imports, source, out, key, o)
           /\ Input(o) = InputIn(source, out, o)
           /\ Closure(o.m) = ClosureIn(imports, o.m)
           /\ ReadFrom(o.m) = [i \in ClosureIn(imports, o.m) |-> out[Lib(i)]]
<1>1. Closure(o.m) = ClosureIn(imports, o.m)
  BY DEF Closure, Closed, ClosureIn
<1>2. ReadFrom(o.m) = [i \in ClosureIn(imports, o.m) |-> out[Lib(i)]]
  BY <1>1 DEF ReadFrom
<1>3. Input(o) = InputIn(source, out, o)
  BY DEF Input, InputIn
<1> QED
  BY <1>1, <1>2, <1>3 DEF KeyOf, KeyIn

\* A key says what it is of.
LEMMA KeyInIs ==
    ASSUME NEW g, NEW src, NEW O, NEW K, NEW o
    PROVE  /\ Whole(KeyIn(g, src, O, K, o)) /\ KeyIn(g, src, O, K, o) # None
           /\ KeyIn(g, src, O, K, o).input = InputIn(src, O, o)
<1>1. /\ KeyIn(g, src, O, K, o).is = "made"
      /\ KeyIn(g, src, O, K, o).input = InputIn(src, O, o)
  BY DEF KeyIn
<1>2. None.is = "none"
  BY DEF None
<1> QED
  BY <1>1, <1>2 DEF Whole

\* What the build does to an output leaves the keys of it and of the outputs
\* before it.
LEMMA KeyStays ==
    ASSUME NEW g, NEW src, NEW O, NEW P, NEW K, NEW J,
           NEW ord, Fits(ord, g), NEW n \in Nat, Len(ord) = n,
           NEW q \in 1 .. n + N, NEW j \in 1 .. q, DifferAt(O, P, K, J, Nth(ord, q))
    PROVE  KeyIn(g, src, P, J, Nth(ord, j)) = KeyIn(g, src, O, K, Nth(ord, j))
<1> DEFINE o == Nth(ord, j)
<1>0. /\ ord \in Seq(Modules)
      /\ \A i, k \in 1 .. n : ord[i] = ord[k] => i = k
      /\ \A i \in 1 .. n : g[ord[i]] \ {ord[i]} \subseteq {ord[k] : k \in 1 .. i - 1}
      /\ \A p \in Outputs : p # Nth(ord, q) => P[p] = O[p] /\ J[p] = K[p]
  BY DEF Fits, DifferAt
<1>1. N \in Nat /\ N > 0 /\ j \in 1 .. n + N /\ j <= q
  BY BuildAssumption
<1>2. o \in Outputs /\ o.m \in Modules
  BY <1>0, <1>1, NthIs, OutputFacts
<1>3. q > n => \A i \in Modules : P[Lib(i)] = O[Lib(i)]
  <2> SUFFICES ASSUME q > n, NEW i \in Modules
               PROVE  P[Lib(i)] = O[Lib(i)]
    OBVIOUS
  <2>1. Nth(ord, q).kind \in {"obj", "prog"}
    <3>1. q < n + N \/ q = n + N
      BY <1>1
    <3> QED
      BY <1>0, <3>1, NthIs, OutputFacts
  <2>2. Lib(i) \in Outputs /\ Lib(i).kind = "lib"
    BY OutputFacts
  <2> QED
    BY <1>0, <2>1, <2>2
<1>4. \A i \in ClosureIn(g, o.m) : P[Lib(i)] = O[Lib(i)]
  <2>1. CASE j <= n
    <3>1. o = Lib(ord[j]) /\ o.m = ord[j] /\ j \in 1 .. n
      BY <1>0, <1>1, <2>1, NthIs, OutputFacts
    <3>2. ClosureIn(g, ord[j]) \subseteq {ord[k] : k \in 1 .. j - 1}
      BY <1>0, <3>1, ClosureBefore
    <3>3. ASSUME NEW k \in 1 .. j - 1
          PROVE  P[Lib(ord[k])] = O[Lib(ord[k])]
      <4>1. k \in 1 .. n + N /\ k <= n /\ k # q
        BY <1>1, <2>1
      <4>2. Nth(ord, k) = Lib(ord[k]) /\ Nth(ord, k) \in Outputs
        BY <1>0, <4>1, NthIs
      <4>3. Nth(ord, k) # Nth(ord, q)
        BY <1>0, <4>1, NthApart
      <4> QED
        BY <1>0, <4>2, <4>3
    <3> QED
      BY <3>1, <3>2, <3>3
  <2>2. CASE j > n
    <3>1. q > n
      BY <1>1, <2>2
    <3> QED
      BY <1>3, <3>1, ClosureIs
  <2> QED
    BY <1>1, <2>1, <2>2
<1>5. InputIn(src, P, o) = InputIn(src, O, o)
  <2>1. CASE o.kind = "obj"
    <3>1. ~(j <= n)
      BY <1>0, <1>1, <2>1, NthIs, OutputFacts
    <3>2. q > n
      BY <1>1, <3>1
    <3> QED
      BY <1>2, <1>3, <3>2 DEF InputIn
  <2>2. CASE o.kind # "obj"
    BY <2>2 DEF InputIn
  <2> QED
    BY <2>1, <2>2
<1>6. o.kind = "prog" => \A p \in Objects : J[p] = K[p]
  <2> SUFFICES ASSUME o.kind = "prog", NEW m \in 1 .. N - 1
               PROVE  J[Obj(m)] = K[Obj(m)]
    BY OutputFacts
  <2>1. j = n + N /\ q = n + N
    <3>1. ~(j <= n) /\ ~(j > n /\ j < n + N)
      BY <1>0, <1>1, NthIs, OutputFacts
    <3> QED
      BY <1>1, <3>1
  <2>2. Nth(ord, q).kind = "prog" /\ Obj(m).kind = "obj" /\ Obj(m) \in Outputs
    BY <1>0, <2>1, NthIs, OutputFacts
  <2> QED
    BY <1>0, <2>2
<1>7. [i \in ClosureIn(g, o.m) |-> P[Lib(i)]] = [i \in ClosureIn(g, o.m) |-> O[Lib(i)]]
  BY <1>4
<1>8. (IF o.kind # "prog" THEN <<>> ELSE [p \in Objects |-> J[p]])
        = (IF o.kind # "prog" THEN <<>> ELSE [p \in Objects |-> K[p]])
  BY <1>6
<1> HIDE DEF o
<1> QED
  BY <1>5, <1>7, <1>8 DEF KeyIn, o

-----------------------------------------------------------------------------
(* The build on its way through the plan. *)

IsBuild(b) == b = [step |-> b.step, order |-> b.order, todo |-> b.todo, key |-> b.key,
                   quiet |-> b.quiet]

\* A build with nothing under way.
LEMMA NoBuildIs ==
    /\ IsBuild(NoBuild) /\ NoBuild.step = "idle" /\ NoBuild.order = <<>>
    /\ NoBuild.todo = <<>> /\ NoBuild.quiet = TRUE
BY DEF IsBuild, NoBuild

\* A build with one field set.
LEMMA FieldSet ==
    ASSUME NEW b, IsBuild(b), NEW st, NEW ord, NEW td, NEW k, NEW qt
    PROVE  /\ [b EXCEPT !.step = st]
                 = [step |-> st, order |-> b.order, todo |-> b.todo, key |-> b.key, quiet |-> b.quiet]
           /\ [b EXCEPT !.order = ord]
                 = [step |-> b.step, order |-> ord, todo |-> b.todo, key |-> b.key, quiet |-> b.quiet]
           /\ [b EXCEPT !.todo = td]
                 = [step |-> b.step, order |-> b.order, todo |-> td, key |-> b.key, quiet |-> b.quiet]
           /\ [b EXCEPT !.key = k]
                 = [step |-> b.step, order |-> b.order, todo |-> b.todo, key |-> k, quiet |-> b.quiet]
           /\ [b EXCEPT !.quiet = qt]
                 = [step |-> b.step, order |-> b.order, todo |-> b.todo, key |-> b.key, quiet |-> qt]
<1>1. [b EXCEPT !.step = st]
        = [step |-> st, order |-> b.order, todo |-> b.todo, key |-> b.key, quiet |-> b.quiet]
  BY DEF IsBuild
<1>2. [b EXCEPT !.order = ord]
        = [step |-> b.step, order |-> ord, todo |-> b.todo, key |-> b.key, quiet |-> b.quiet]
  BY DEF IsBuild
<1>3. [b EXCEPT !.todo = td]
        = [step |-> b.step, order |-> b.order, todo |-> td, key |-> b.key, quiet |-> b.quiet]
  BY DEF IsBuild
<1>4. [b EXCEPT !.key = k]
        = [step |-> b.step, order |-> b.order, todo |-> b.todo, key |-> k, quiet |-> b.quiet]
  BY DEF IsBuild
<1>5. [b EXCEPT !.quiet = qt]
        = [step |-> b.step, order |-> b.order, todo |-> b.todo, key |-> b.key, quiet |-> qt]
  BY DEF IsBuild
<1> QED
  BY <1>1, <1>2, <1>3, <1>4, <1>5

\* A build with step and todo set.
LEMMA StepTodoSet ==
    ASSUME NEW b, IsBuild(b), NEW st, NEW td
    PROVE  [b EXCEPT !.step = st, !.todo = td]
             = [step |-> st, order |-> b.order, todo |-> td, key |-> b.key, quiet |-> b.quiet]
<1> DEFINE c == [b EXCEPT !.step = st]
<1>1. c = [step |-> st, order |-> b.order, todo |-> b.todo, key |-> b.key, quiet |-> b.quiet]
  BY FieldSet
<1>2. [b EXCEPT !.step = st, !.todo = td] = [c EXCEPT !.todo = td]
  BY DEF IsBuild
<1> HIDE DEF c
<1>3. IsBuild(c) /\ c.step = st /\ c.order = b.order /\ c.todo = b.todo /\ c.key = b.key /\ c.quiet = b.quiet
  BY <1>1 DEF IsBuild
<1>4. [c EXCEPT !.todo = td]
        = [step |-> c.step, order |-> c.order, todo |-> td, key |-> c.key, quiet |-> c.quiet]
  BY <1>3, FieldSet
<1> QED
  BY <1>2, <1>3, <1>4

\* A build with todo and step set.
LEMMA TodoStepSet ==
    ASSUME NEW b, IsBuild(b), NEW td, NEW st
    PROVE  [b EXCEPT !.todo = td, !.step = st]
             = [step |-> st, order |-> b.order, todo |-> td, key |-> b.key, quiet |-> b.quiet]
<1> DEFINE c == [b EXCEPT !.todo = td]
<1>1. c = [step |-> b.step, order |-> b.order, todo |-> td, key |-> b.key, quiet |-> b.quiet]
  BY FieldSet
<1>2. [b EXCEPT !.todo = td, !.step = st] = [c EXCEPT !.step = st]
  BY DEF IsBuild
<1> HIDE DEF c
<1>3. IsBuild(c) /\ c.step = b.step /\ c.order = b.order /\ c.todo = td /\ c.key = b.key /\ c.quiet = b.quiet
  BY <1>1 DEF IsBuild
<1>4. [c EXCEPT !.step = st]
        = [step |-> st, order |-> c.order, todo |-> c.todo, key |-> c.key, quiet |-> c.quiet]
  BY <1>3, FieldSet
<1> QED
  BY <1>2, <1>3, <1>4

\* A build with step and key set.
LEMMA StepKeySet ==
    ASSUME NEW b, IsBuild(b), NEW st, NEW k
    PROVE  [b EXCEPT !.step = st, !.key = k]
             = [step |-> st, order |-> b.order, todo |-> b.todo, key |-> k, quiet |-> b.quiet]
<1> DEFINE c == [b EXCEPT !.step = st]
<1>1. c = [step |-> st, order |-> b.order, todo |-> b.todo, key |-> b.key, quiet |-> b.quiet]
  BY FieldSet
<1>2. [b EXCEPT !.step = st, !.key = k] = [c EXCEPT !.key = k]
  BY DEF IsBuild
<1> HIDE DEF c
<1>3. IsBuild(c) /\ c.step = st /\ c.order = b.order /\ c.todo = b.todo /\ c.key = b.key /\ c.quiet = b.quiet
  BY <1>1 DEF IsBuild
<1>4. [c EXCEPT !.key = k]
        = [step |-> c.step, order |-> c.order, todo |-> c.todo, key |-> k, quiet |-> c.quiet]
  BY <1>3, FieldSet
<1> QED
  BY <1>2, <1>3, <1>4

\* A build with todo and step and key set.
LEMMA TodoStepKeySet ==
    ASSUME NEW b, IsBuild(b), NEW td, NEW st, NEW k
    PROVE  [b EXCEPT !.todo = td, !.step = st, !.key = k]
             = [step |-> st, order |-> b.order, todo |-> td, key |-> k, quiet |-> b.quiet]
<1> DEFINE c == [b EXCEPT !.todo = td, !.step = st]
<1>1. c = [step |-> st, order |-> b.order, todo |-> td, key |-> b.key, quiet |-> b.quiet]
  BY TodoStepSet
<1>2. [b EXCEPT !.todo = td, !.step = st, !.key = k] = [c EXCEPT !.key = k]
  BY DEF IsBuild
<1> HIDE DEF c
<1>3. IsBuild(c) /\ c.step = st /\ c.order = b.order /\ c.todo = td /\ c.key = b.key /\ c.quiet = b.quiet
  BY <1>1 DEF IsBuild
<1>4. [c EXCEPT !.key = k]
        = [step |-> c.step, order |-> c.order, todo |-> c.todo, key |-> k, quiet |-> c.quiet]
  BY <1>3, FieldSet
<1> QED
  BY <1>2, <1>3, <1>4

\* The fields of a build.
LEMMA BuildFields ==
    ASSUME NEW st, NEW ord, NEW td, NEW k, NEW qt, NEW c,
           c = [step |-> st, order |-> ord, todo |-> td, key |-> k, quiet |-> qt]
    PROVE  /\ IsBuild(c) /\ c.step = st /\ c.order = ord /\ c.todo = td /\ c.key = k
           /\ c.quiet = qt
BY DEF IsBuild

\* NextOutput goes one place on, to the delivery after the last one.
LEMMA NextIs ==
    ASSUME NEW b, IsBuild(b), b.todo \in Seq(Outputs), NEW n \in Nat, Len(b.todo) = n,
           n >= 1, NEW c, c = NextOutput(b)
    PROVE  /\ IsBuild(c) /\ c.order = b.order /\ c.quiet = b.quiet
           /\ c.todo \in Seq(Outputs) /\ Len(c.todo) = n - 1
           /\ \A i \in 1 .. n - 1 : c.todo[i] = b.todo[i + 1]
           /\ c.step = IF n = 1 THEN "deliver" ELSE "check"
<1>1. CASE n = 1
  <2> DEFINE t == <<>>
  <2>1. c = [b EXCEPT !.todo = t, !.step = "deliver"]
    BY <1>1 DEF NextOutput
  <2> HIDE DEF t
  <2>2. c = [step |-> "deliver", order |-> b.order, todo |-> t, key |-> b.key,
             quiet |-> b.quiet]
    BY <2>1, TodoStepSet
  <2>3. /\ IsBuild(c) /\ c.order = b.order /\ c.quiet = b.quiet /\ c.todo = t
        /\ c.step = "deliver"
    BY <2>2, BuildFields
  <2>4. <<>> \in Seq(Outputs) /\ Len(<<>>) = n - 1 /\ 1 .. n - 1 = {}
    BY <1>1
  <2> QED
    BY <1>1, <2>3, <2>4 DEF t
<1>2. CASE n # 1
  <2> DEFINE t == Tail(b.todo)
  <2>1. c = [b EXCEPT !.todo = t, !.step = "check", !.key = None]
    BY <1>2 DEF NextOutput, IsBuild
  <2>2. /\ t \in Seq(Outputs) /\ Len(t) = n - 1
        /\ \A i \in 1 .. n - 1 : t[i] = b.todo[i + 1]
    <3>1. b.todo # <<>>
      OBVIOUS
    <3> QED
      BY <3>1
  <2> HIDE DEF t
  <2>3. c = [step |-> "check", order |-> b.order, todo |-> t, key |-> None,
             quiet |-> b.quiet]
    BY <2>1, TodoStepKeySet
  <2>4. /\ IsBuild(c) /\ c.order = b.order /\ c.quiet = b.quiet /\ c.todo = t
        /\ c.step = "check"
    BY <2>3, BuildFields
  <2> QED
    BY <1>2, <2>2, <2>4
<1> QED
  BY <1>1, <1>2

\* The parts of the invariant about the order, in numbers.
LEMMA OrderIs ==
    ASSUME OrderOK
    PROVE  /\ build.order \in Seq(Modules) /\ Len(build.order) \in Nat
           /\ N \in Nat /\ N > 0 /\ Places = Len(build.order) + N
           /\ \A i, k \in 1 .. Len(build.order) : build.order[i] = build.order[k] => i = k
           /\ \A i \in 1 .. Len(build.order) : imports[build.order[i]] \ {build.order[i]}
                \subseteq {build.order[k] : k \in 1 .. i - 1}
<1>1. N \in Nat /\ N > 0
  BY BuildAssumption
<1>2. build.order \in Seq(Modules)
  BY DEF OrderOK, Fits
<1>3. Len(build.order) \in Nat
  BY <1>2
<1>4. Places = Len(build.order) + N
  BY DEF Places
<1> QED
  BY <1>1, <1>2, <1>3, <1>4 DEF OrderOK, Fits

\* The output the build is at, and its place.
LEMMA CurrentIs ==
    ASSUME OrderOK, TodoOK, build.step \in Working
    PROVE  /\ Len(build.todo) \in Nat /\ Len(build.todo) >= 1
           /\ Done \in Nat /\ Done + 1 \in 1 .. Len(build.order) + N
           /\ Done = Len(build.order) + N - Len(build.todo)
           /\ Current = Nth(build.order, Done + 1) /\ Current \in Outputs
           /\ build.todo \in Seq(Outputs)
<1>1. /\ build.todo \in Seq(Outputs) /\ Len(build.todo) <= Places /\ build.todo # <<>>
      /\ \A i \in 1 .. Len(build.todo) : build.todo[i] = Nth(build.order, Done + i)
  BY DEF TodoOK, Working
<1>2. Len(build.order) \in Nat /\ N \in Nat /\ Places = Len(build.order) + N
  BY OrderIs
<1>3. Len(build.todo) \in Nat /\ Len(build.todo) >= 1
  BY <1>1
<1>4. /\ Done \in Nat /\ Done + 1 \in 1 .. Len(build.order) + N
      /\ Done = Len(build.order) + N - Len(build.todo)
  <2> DEFINE a == Len(build.order)
             b == Len(build.todo)
  <2>1. a \in Nat /\ N \in Nat /\ b \in Nat /\ b >= 1 /\ b <= a + N /\ Done = (a + N) - b
    BY <1>1, <1>2, <1>3 DEF Done
  <2> HIDE DEF a, b
  <2>2. Done \in Nat /\ Done + 1 \in 1 .. a + N /\ Done = a + N - b
    BY <2>1
  <2> QED
    BY <2>2 DEF a, b
<1>5. Current = build.todo[1] /\ 1 \in 1 .. Len(build.todo)
  BY <1>1, <1>3 DEF Current
<1>6. build.todo[1] \in Outputs
  BY <1>1, <1>5
<1> QED
  BY <1>1, <1>3, <1>4, <1>5, <1>6

\* Nothing is under way: the plan says nothing.
LEMMA Halts ==
    ASSUME imports \in [Modules -> SUBSET Modules], imports' = imports,
           DOMAIN out' = Outputs, DOMAIN key' = Outputs, build' = NoBuild
    PROVE  Shape' /\ OrderOK' /\ TodoOK' /\ DoneOK' /\ CurrentOK'
<1>1. /\ IsBuild(build') /\ build'.step = "idle" /\ build'.order = <<>>
  BY NoBuildIs
<1>2. Shape'
  BY <1>1 DEF Shape, IsBuild, Steps
<1>3. OrderOK'
  BY <1>1 DEF OrderOK, Fits
<1>4. TodoOK' /\ DoneOK' /\ CurrentOK'
  BY <1>1 DEF TodoOK, DoneOK, CurrentOK, Working
<1> QED
  BY <1>2, <1>3, <1>4

\* What the build is done with stays so while it works at the next output.
LEMMA DoneStays ==
    ASSUME OrderOK, TodoOK, DoneOK, build.step \in Working, build.quiet, NEW O, NEW K,
           \A p \in Outputs : p # Current => O[p] = out[p] /\ K[p] = key[p]
    PROVE  /\ \A i \in 1 .. Done : UpToDate(imports, source, O, K, Nth(build.order, i))
           /\ KeyIn(imports, source, O, K, Current) = KeyIn(imports, source, out, key, Current)
<1> DEFINE ord == build.order
           n == Len(ord)
           q == Done + 1
<1>1. /\ ord \in Seq(Modules) /\ n \in Nat /\ Len(ord) = n /\ N \in Nat
      /\ \A i, k \in 1 .. n : ord[i] = ord[k] => i = k
      /\ \A i \in 1 .. n : imports[ord[i]] \ {ord[i]} \subseteq {ord[k] : k \in 1 .. i - 1}
  BY OrderIs
<1>2. q \in 1 .. n + N /\ Current = Nth(ord, q) /\ Done \in Nat
  BY CurrentIs
<1>3. \A i \in 1 .. Done : UpToDate(imports, source, out, key, Nth(ord, i))
  BY DEF DoneOK
<1> HIDE DEF ord, n
<1>4. ASSUME NEW j \in 1 .. q
      PROVE  KeyIn(imports, source, O, K, Nth(ord, j))
                = KeyIn(imports, source, out, key, Nth(ord, j))
  <2>1. DifferAt(out, O, key, K, Nth(ord, q))
    BY <1>2 DEF DifferAt
  <2>2. Fits(ord, imports)
    BY DEF OrderOK, ord
  <2> HIDE DEF q
  <2> QED
    BY <1>1, <1>2, <1>4, <2>1, <2>2, KeyStays
<1>5. ASSUME NEW i \in 1 .. Done
      PROVE  UpToDate(imports, source, O, K, Nth(ord, i))
  <2>1. i \in 1 .. q /\ i # q /\ i \in 1 .. n + N
    BY <1>1, <1>2
  <2>2. Nth(ord, i) \in Outputs
    BY <1>1, <2>1, NthIs
  <2>3. Nth(ord, i) # Nth(ord, q)
    <3> HIDE DEF q
    <3> QED
      BY <1>1, <1>2, <2>1, NthApart
  <2>4. O[Nth(ord, i)] = out[Nth(ord, i)] /\ K[Nth(ord, i)] = key[Nth(ord, i)]
    BY <1>2, <2>2, <2>3
  <2>5. UpToDate(imports, source, out, key, Nth(ord, i))
    BY <1>3, <1>5
  <2>6. KeyIn(imports, source, O, K, Nth(ord, i))
          = KeyIn(imports, source, out, key, Nth(ord, i))
    BY <1>4, <2>1
  <2> QED
    BY <2>4, <2>5, <2>6 DEF UpToDate
<1>6. q \in 1 .. q
  BY <1>2
<1>7. KeyIn(imports, source, O, K, Current) = KeyIn(imports, source, out, key, Current)
  BY <1>2, <1>4, <1>6
<1> QED
  BY <1>5, <1>7 DEF ord

\* The build is done with an output.
LEMMA Advance ==
    ASSUME Shape, OrderOK, TodoOK, DoneOK, build.step \in Working,
           build' = NextOutput(build), imports' = imports, source' = source,
           DOMAIN out' = Outputs, DOMAIN key' = Outputs,
           \A p \in Outputs : p # Current => out'[p] = out[p] /\ key'[p] = key[p],
           build.quiet => UpToDate(imports, source, out', key', Current)
    PROVE  /\ Shape' /\ OrderOK' /\ TodoOK' /\ DoneOK' /\ CurrentOK'
           /\ build'.quiet = build.quiet /\ build'.step \notin {"compile", "store"}
<1> DEFINE ord == build.order
           n == Len(ord)
           b == Len(build.todo)
           d == Done
<1>1. /\ b \in Nat /\ b >= 1 /\ d \in Nat /\ d + 1 \in 1 .. n + N /\ d = n + N - b
      /\ Current = Nth(ord, d + 1) /\ build.todo \in Seq(Outputs)
  BY CurrentIs
<1>2. IsBuild(build)
  BY DEF Shape, IsBuild
<1>3. /\ IsBuild(build') /\ build'.order = ord /\ build'.quiet = build.quiet
      /\ build'.todo \in Seq(Outputs) /\ Len(build'.todo) = b - 1
      /\ \A i \in 1 .. b - 1 : build'.todo[i] = build.todo[i + 1]
      /\ build'.step = IF b = 1 THEN "deliver" ELSE "check"
  <2>1. Len(build.todo) = b /\ build.todo \in Seq(Outputs) /\ b \in Nat /\ b >= 1
    BY <1>1
  <2> HIDE DEF b
  <2> QED
    BY <1>2, <2>1, NextIs
<1>4. n \in Nat /\ N \in Nat /\ Places = n + N
  BY OrderIs
<1>5. Places' = n + N /\ Done' = d + 1
  <2>1. Places' = n + N
    BY <1>3 DEF Places
  <2>2. Done' = (n + N) - (b - 1)
    BY <1>3, <2>1 DEF Done
  <2> HIDE DEF n, b, d
  <2> QED
    BY <1>1, <1>4, <2>1, <2>2
<1>6. Shape'
  BY <1>3 DEF Shape, IsBuild, Steps
<1>7. OrderOK'
  BY <1>3 DEF OrderOK
<1>8. TodoOK'
  <2>1. \A m \in Modules : \E i \in 1 .. n : ord[i] = m
    BY DEF TodoOK
  <2>2. Len(build'.todo) <= Places'
    <3> HIDE DEF n, b, d
    <3> QED
      BY <1>1, <1>3, <1>4, <1>5
  <2>3. build'.todo = <<>> <=> build'.step = "deliver"
    <3>1. build'.todo = <<>> <=> b - 1 = 0
      <4>1. build'.todo \in Seq(Outputs) /\ Len(build'.todo) = b - 1
        BY <1>3
      <4>2. build'.todo = <<>> <=> Len(build'.todo) = 0
        BY <4>1, EmptyIs
      <4> QED
        BY <4>1, <4>2
    <3> HIDE DEF b
    <3> QED
      BY <1>1, <1>3, <3>1
  <2>4. ASSUME NEW i \in 1 .. Len(build'.todo)
        PROVE  build'.todo[i] = Nth(ord, (d + 1) + i)
    <3>1. i \in 1 .. b - 1 /\ i + 1 \in 1 .. b /\ (d + 1) + i = d + (i + 1)
      <4> HIDE DEF b, d
      <4> QED
        BY <1>1, <1>3
    <3>2. build.todo[i + 1] = Nth(ord, d + (i + 1))
      BY <3>1 DEF TodoOK
    <3> QED
      BY <1>3, <3>1, <3>2
  <2> QED
    BY <1>3, <1>5, <2>1, <2>2, <2>3, <2>4 DEF TodoOK
<1>9. DoneOK'
  <2> SUFFICES ASSUME build.quiet, NEW i \in 1 .. d + 1
               PROVE  UpToDate(imports, source, out', key', Nth(ord, i))
    BY <1>3, <1>5 DEF DoneOK
  <2>1. CASE i = d + 1
    BY <1>1, <2>1
  <2>2. CASE i # d + 1
    <3>1. i \in 1 .. d
      <4> HIDE DEF d
      <4> QED
        BY <1>1, <2>2
    <3> QED
      BY <3>1, DoneStays
  <2> QED
    BY <2>1, <2>2
<1>10. build'.step \notin {"compile", "store"}
  BY <1>3
<1>11. CurrentOK'
  BY <1>10 DEF CurrentOK
<1> QED
  BY <1>3, <1>6, <1>7, <1>8, <1>9, <1>10, <1>11

-----------------------------------------------------------------------------
(* The actions. *)

\* Nothing that SameOK and KeysOK are about changes.
LEMMA SameStays ==
    ASSUME SameOK, KeysOK, UNCHANGED <<imports, source, out, key, same>>,
           build'.step \notin {"compile", "store"}
    PROVE  SameOK' /\ KeysOK'
BY DEF SameOK, KeysOK

\* A build begins.
LEMMA BeginBuildKeeps ==
    ASSUME BuildInv, BeginBuild
    PROVE  BuildInv'
<1>1. build' = [NoBuild EXCEPT !.step = "order"]
      /\ UNCHANGED <<imports, source, out, key, dist, same, edits, stops>>
  BY DEF BeginBuild
<1> DEFINE b == NoBuild
<1>2. IsBuild(b) /\ b.order = <<>>
  BY NoBuildIs
<1> HIDE DEF b
<1>3. build' = [step |-> "order", order |-> b.order, todo |-> b.todo, key |-> b.key,
                quiet |-> b.quiet]
  BY <1>1, <1>2, FieldSet DEF b
<1>4. IsBuild(build') /\ build'.step = "order" /\ build'.order = <<>>
  BY <1>2, <1>3, BuildFields
<1>5. Shape' /\ OrderOK'
  <2>1. Shape'
    BY <1>1, <1>4 DEF BuildInv, Shape, IsBuild, Steps
  <2>2. OrderOK'
    BY <1>4 DEF OrderOK, Fits
  <2> QED
    BY <2>1, <2>2
<1>6. TodoOK' /\ DoneOK' /\ CurrentOK'
  BY <1>4 DEF TodoOK, DoneOK, CurrentOK, Working
<1>7. SameOK' /\ KeysOK'
  BY <1>1, <1>4, SameStays DEF BuildInv
<1> QED
  BY <1>5, <1>6, <1>7 DEF BuildInv

\* A module goes to the end of the order.
LEMMA FitsMore ==
    ASSUME NEW ord, NEW g, Fits(ord, g), NEW m \in Modules,
           \A i \in 1 .. Len(ord) : ord[i] # m,
           g[m] \ {m} \subseteq {ord[k] : k \in 1 .. Len(ord)}
    PROVE  Fits(Append(ord, m), g)
<1> DEFINE n == Len(ord)
           s == Append(ord, m)
<1>1. ord \in Seq(Modules) /\ n \in Nat
  BY DEF Fits
<1>2. /\ s \in Seq(Modules) /\ Len(s) = n + 1 /\ s[n + 1] = m
      /\ \A i \in 1 .. n : s[i] = ord[i]
  BY <1>1
<1>3. /\ \A i, k \in 1 .. n : ord[i] = ord[k] => i = k
      /\ \A i \in 1 .. n : g[ord[i]] \ {ord[i]} \subseteq {ord[k] : k \in 1 .. i - 1}
  BY DEF Fits
<1>4. g[m] \ {m} \subseteq {ord[k] : k \in 1 .. n} /\ \A i \in 1 .. n : ord[i] # m
  OBVIOUS
<1> HIDE DEF s, n
<1>5. \A i \in 1 .. n + 1 : i \in 1 .. n \/ i = n + 1
  BY <1>1
<1>6. \A i, k \in 1 .. n + 1 : s[i] = s[k] => i = k
  BY <1>2, <1>3, <1>4, <1>5
<1>7. ASSUME NEW i \in 1 .. n + 1
      PROVE  g[s[i]] \ {s[i]} \subseteq {s[k] : k \in 1 .. i - 1}
  <2>1. CASE i = n + 1
    <3>1. {s[k] : k \in 1 .. n} = {ord[k] : k \in 1 .. n} /\ i - 1 = n
      BY <1>1, <1>2, <2>1
    <3> QED
      BY <1>2, <1>4, <2>1, <3>1
  <2>2. CASE i \in 1 .. n
    <3>1. \A k \in 1 .. i - 1 : k \in 1 .. n
      BY <1>1, <2>2
    <3>2. {s[k] : k \in 1 .. i - 1} = {ord[k] : k \in 1 .. i - 1}
      BY <1>2, <3>1
    <3>3. g[ord[i]] \ {ord[i]} \subseteq {ord[k] : k \in 1 .. i - 1}
      BY <1>3, <2>2
    <3> QED
      BY <1>2, <2>2, <3>2, <3>3
  <2> QED
    BY <1>5, <2>1, <2>2
<1> QED
  BY <1>2, <1>6, <1>7 DEF Fits, s

\* The modules in the order.
LEMMA PlacedIs ==
    ASSUME OrderOK
    PROVE  Placed = {build.order[k] : k \in 1 .. Len(build.order)}
<1>1. DOMAIN build.order = 1 .. Len(build.order)
  BY DEF OrderOK, Fits
<1> QED
  BY <1>1 DEF Placed, Range

\* A module that is placed has all it imports before it.
LEMMA PlaceUnitKeeps ==
    ASSUME BuildInv, PlaceUnit
    PROVE  BuildInv'
<1>1. PICK m \in NextUnit : build' = [build EXCEPT !.order = Append(build.order, m)]
  BY DEF PlaceUnit, BuildInv, Shape
<1>2. /\ build.step = "order" /\ UNCHANGED <<imports, source, out, key, dist, same, edits, stops>>
      /\ IsBuild(build) /\ OrderOK /\ Shape
  BY DEF PlaceUnit, BuildInv, Shape, IsBuild
<1>3. m \in Modules \ Placed /\ imports[m] \ {m} \subseteq Placed
  BY <1>1 DEF NextUnit, ReadyUnits
<1> DEFINE s == Append(build.order, m)
<1>4. Fits(s, imports)
  <2>1. \A i \in 1 .. Len(build.order) : build.order[i] # m
    BY <1>2, <1>3, PlacedIs
  <2>2. imports[m] \ {m} \subseteq {build.order[k] : k \in 1 .. Len(build.order)}
    BY <1>2, <1>3, PlacedIs
  <2> QED
    BY <1>2, <1>3, <2>1, <2>2, FitsMore DEF OrderOK
<1> HIDE DEF s
<1>5. build' = [step |-> build.step, order |-> s, todo |-> build.todo, key |-> build.key,
                quiet |-> build.quiet]
  BY <1>1, <1>2, FieldSet DEF s
<1>6. IsBuild(build') /\ build'.step = "order" /\ build'.order = s
  BY <1>2, <1>5, BuildFields
<1>7. Shape' /\ OrderOK'
  BY <1>2, <1>4, <1>6 DEF Shape, IsBuild, Steps, OrderOK
<1>8. TodoOK' /\ DoneOK' /\ CurrentOK'
  BY <1>6 DEF TodoOK, DoneOK, CurrentOK, Working
<1>9. SameOK' /\ KeysOK'
  BY <1>2, <1>6, SameStays DEF BuildInv
<1> QED
  BY <1>7, <1>8, <1>9 DEF BuildInv

\* A cycle among the imports, and an error in a source, end the build.
LEMMA EndsKeeps ==
    ASSUME BuildInv, ReportCycle \/ CompileFails
    PROVE  BuildInv'
<1>1. build' = NoBuild /\ UNCHANGED <<imports, source, out, key, dist, same, edits, stops>>
  BY DEF ReportCycle, CompileFails
<1>2. Shape' /\ OrderOK' /\ TodoOK' /\ DoneOK' /\ CurrentOK'
  BY <1>1, Halts DEF BuildInv, Shape
<1>3. build'.step = "idle"
  BY <1>1, NoBuildIs
<1>4. SameOK' /\ KeysOK'
  BY <1>1, <1>3, SameStays DEF BuildInv
<1> QED
  BY <1>2, <1>4 DEF BuildInv

\* The build turns to the first output of its plan.
LEMMA OrderedKeeps ==
    ASSUME BuildInv, Ordered
    PROVE  BuildInv'
<1> DEFINE t == Plan
           ord == build.order
           n == Len(ord)
<1>1. /\ build' = [build EXCEPT !.step = "check", !.todo = t] /\ Placed = Modules
      /\ UNCHANGED <<imports, source, out, key, dist, same, edits, stops>>
      /\ IsBuild(build) /\ OrderOK /\ Shape
  BY DEF Ordered, BuildInv, Shape, IsBuild
<1>2. n \in Nat /\ N \in Nat /\ N > 0 /\ Places = n + N /\ ord \in Seq(Modules)
  BY <1>1, OrderIs
<1>3. /\ t \in Seq(Outputs) /\ Len(t) = n + N /\ \A i \in 1 .. n + N : t[i] = Nth(ord, i)
  BY <1>2, PlanIs
<1> HIDE DEF t
<1>4. build' = [step |-> "check", order |-> build.order, todo |-> t, key |-> build.key,
                quiet |-> build.quiet]
  BY <1>1, StepTodoSet
<1>5. IsBuild(build') /\ build'.step = "check" /\ build'.order = ord /\ build'.todo = t
  BY <1>4, BuildFields
<1>6. Shape' /\ OrderOK'
  BY <1>1, <1>5 DEF Shape, IsBuild, Steps, OrderOK
<1>7. Places' = n + N /\ Done' = 0
  <2>1. Places' = n + N
    BY <1>5 DEF Places
  <2>2. Done' = (n + N) - (n + N)
    BY <1>3, <1>5, <2>1 DEF Done
  <2> HIDE DEF n
  <2> QED
    BY <1>2, <2>1, <2>2
<1>8. TodoOK'
  <2>1. \A m \in Modules : \E i \in 1 .. n : ord[i] = m
    BY <1>1, PlacedIs
  <2>2. t # <<>>
    <3>1. t = <<>> <=> n + N = 0
      BY <1>3, EmptyIs
    <3> HIDE DEF n
    <3> QED
      BY <1>2, <3>1
  <2>3. Len(t) <= n + N
    <3> HIDE DEF n
    <3> QED
      BY <1>2, <1>3
  <2>4. \A i \in 1 .. Len(t) : t[i] = Nth(ord, 0 + i)
    <3>1. \A i \in 1 .. n + N : 0 + i = i
      <4> HIDE DEF n
      <4> QED
        BY <1>2
    <3> QED
      BY <1>3, <3>1
  <2> QED
    BY <1>5, <1>7, <2>1, <2>2, <2>3, <2>4, <1>3 DEF TodoOK
<1>9. DoneOK' /\ CurrentOK'
  BY <1>5, <1>7 DEF DoneOK, CurrentOK
<1>10. SameOK' /\ KeysOK'
  BY <1>1, <1>5, SameStays DEF BuildInv
<1> QED
  BY <1>6, <1>8, <1>9, <1>10 DEF BuildInv

\* An output that has its key stays, and the build goes on.
LEMMA ReuseKeeps ==
    ASSUME BuildInv, Reuse
    PROVE  BuildInv'
<1>1. /\ build.step = "check" /\ build' = NextOutput(build)
      /\ key[Current] = KeyOf(Current, Input(Current))
      /\ UNCHANGED <<imports, source, out, key, dist, same, edits, stops>>
  BY DEF Reuse, Holds
<1>2. Shape /\ OrderOK /\ TodoOK /\ DoneOK /\ SameOK /\ KeysOK /\ build.step \in Working
  BY <1>1 DEF BuildInv, Working
<1>3. UpToDate(imports, source, out', key', Current)
  BY <1>1, KeyNow DEF UpToDate
<1>4. DOMAIN out' = Outputs /\ DOMAIN key' = Outputs
  BY <1>1, <1>2 DEF Shape
<1>5. /\ Shape' /\ OrderOK' /\ TodoOK' /\ DoneOK' /\ CurrentOK'
      /\ build'.step \notin {"compile", "store"}
  BY <1>1, <1>2, <1>3, <1>4, Advance
<1>6. SameOK' /\ KeysOK'
  BY <1>1, <1>2, <1>5, SameStays
<1> QED
  BY <1>5, <1>6 DEF BuildInv

\* The build stays at its output.
LEMMA Remains ==
    ASSUME Shape, OrderOK, TodoOK, DoneOK, build.step \in Working, NEW st \in Working, NEW k,
           build' = [step |-> st, order |-> build.order, todo |-> build.todo, key |-> k,
                     quiet |-> build.quiet],
           imports' = imports, source' = source,
           DOMAIN out' = Outputs, DOMAIN key' = Outputs,
           \A p \in Outputs : p # Current => out'[p] = out[p] /\ key'[p] = key[p]
    PROVE  /\ Shape' /\ OrderOK' /\ TodoOK' /\ DoneOK'
           /\ Current' = Current /\ build'.quiet = build.quiet /\ build'.step = st
           /\ build'.key = k
<1>1. /\ IsBuild(build') /\ build'.step = st /\ build'.order = build.order
      /\ build'.todo = build.todo /\ build'.key = k /\ build'.quiet = build.quiet
  BY BuildFields
<1>2. Current' = Current
  BY <1>1 DEF Current
<1>3. Shape'
  BY <1>1 DEF Shape, IsBuild, Steps, Working
<1>4. OrderOK'
  BY <1>1 DEF OrderOK
<1>5. Places' = Places /\ Done' = Done
  BY <1>1 DEF Places, Done
<1>6. st # "deliver" /\ build.step # "deliver"
  BY DEF Working
<1>7. TodoOK'
  BY <1>1, <1>5, <1>6 DEF TodoOK
<1>8. DoneOK'
  <2> SUFFICES ASSUME build.quiet
               PROVE  \A i \in 1 .. Done : UpToDate(imports, source, out', key', Nth(build.order, i))
    BY <1>1, <1>5 DEF DoneOK
  <2> QED
    BY DoneStays
<1> QED
  BY <1>1, <1>2, <1>3, <1>4, <1>7, <1>8

\* cache_drop: an output without the key it should have loses the one it has.
LEMMA DropKeeps ==
    ASSUME BuildInv, Drop
    PROVE  BuildInv'
<1> DEFINE o == Current
           k == KeyOf(o, Input(o))
<1>1. /\ build.step = "check" /\ ~Holds(o, k)
      /\ build' = [build EXCEPT !.step = "compile", !.key = k]
      /\ key' = [key EXCEPT ![o] = None]
      /\ UNCHANGED <<imports, source, out, dist, same, edits, stops>>
  BY DEF Drop
<1>2. /\ Shape /\ OrderOK /\ TodoOK /\ DoneOK /\ SameOK /\ KeysOK /\ build.step \in Working
      /\ IsBuild(build)
  BY <1>1 DEF BuildInv, Working, Shape, IsBuild
<1>3. o \in Outputs
  BY <1>2, CurrentIs
<1>4. k = KeyIn(imports, source, out, key, o)
  BY KeyNow
<1>5. ~same
  <2> SUFFICES ASSUME same
               PROVE  Holds(o, k)
    BY <1>1
  <2>1. key[o] = k
    BY <1>2, <1>3, <1>4 DEF SameOK, UpToDate
  <2>2. Whole(key[o])
    BY <1>4, <2>1, KeyInIs
  <2>3. Whole(out[o])
    BY <1>2, <1>3, <2>2 DEF KeysOK
  <2>4. out[o] # None
    BY <2>3, KeyIs
  <2> QED
    BY <2>1, <2>3, <2>4 DEF Holds
<1> HIDE DEF o, k
<1>6. build' = [step |-> "compile", order |-> build.order, todo |-> build.todo, key |-> k,
                quiet |-> build.quiet]
  BY <1>1, <1>2, StepKeySet
<1>7. /\ DOMAIN out' = Outputs /\ DOMAIN key' = Outputs /\ key'[o] = None
      /\ \A p \in Outputs : p # o => out'[p] = out[p] /\ key'[p] = key[p]
  BY <1>1, <1>2, <1>3 DEF Shape
<1>8. /\ Shape' /\ OrderOK' /\ TodoOK' /\ DoneOK'
      /\ Current' = o /\ build'.quiet = build.quiet /\ build'.step = "compile"
      /\ build'.key = k
  <2>1. "compile" \in Working
    BY DEF Working
  <2> QED
    BY <1>1, <1>2, <1>6, <1>7, <2>1, Remains DEF o
<1>9. build.quiet => k = KeyIn(imports, source, out, key', o)
  BY <1>1, <1>2, <1>4, <1>7, DoneStays DEF o
<1>10. CurrentOK'
  BY <1>1, <1>7, <1>8, <1>9 DEF CurrentOK
<1>11. KeysOK'
  BY <1>1, <1>2, <1>7, KeyIs DEF KeysOK
<1>12. SameOK'
  BY <1>1, <1>5 DEF SameOK
<1> QED
  BY <1>8, <1>10, <1>11, <1>12 DEF BuildInv

\* The compile writes an output that has no key.
LEMMA CompileKeeps ==
    ASSUME BuildInv, Compile
    PROVE  BuildInv'
<1> DEFINE o == Current
<1>1. /\ build.step = "compile" /\ build' = [build EXCEPT !.step = "store"]
      /\ out' = [out EXCEPT ![o] = Made(o)]
      /\ UNCHANGED <<imports, source, key, dist, same, edits, stops>>
  BY DEF Compile
<1>2. /\ Shape /\ OrderOK /\ TodoOK /\ DoneOK /\ SameOK /\ KeysOK /\ build.step \in Working
      /\ IsBuild(build)
  BY <1>1 DEF BuildInv, Working, Shape, IsBuild
<1>3. /\ key[o] = None /\ (build.quiet => build.key = KeyIn(imports, source, out, key, o))
  BY <1>1 DEF BuildInv, CurrentOK
<1>4. o \in Outputs
  BY <1>2, CurrentIs
<1> HIDE DEF o
<1>5. build' = [step |-> "store", order |-> build.order, todo |-> build.todo, key |-> build.key,
                quiet |-> build.quiet]
  BY <1>1, <1>2, FieldSet
<1>6. /\ DOMAIN out' = Outputs /\ DOMAIN key' = Outputs /\ out'[o] = Made(o)
      /\ \A p \in Outputs : p # o => out'[p] = out[p] /\ key'[p] = key[p]
  BY <1>1, <1>2, <1>4 DEF Shape
<1>7. /\ Shape' /\ OrderOK' /\ TodoOK' /\ DoneOK'
      /\ Current' = o /\ build'.quiet = build.quiet /\ build'.step = "store"
      /\ build'.key = build.key
  <2>1. "store" \in Working
    BY DEF Working
  <2> QED
    BY <1>1, <1>2, <1>5, <1>6, <2>1, Remains DEF o
<1>8. build.quiet => build.key = KeyIn(imports, source, out', key, o)
  BY <1>1, <1>2, <1>3, <1>6, DoneStays DEF o
<1>9. Whole(out'[o])
  BY <1>6, KeyIs
<1>10. CurrentOK'
  BY <1>1, <1>3, <1>7, <1>8, <1>9 DEF CurrentOK
<1>11. KeysOK'
  BY <1>1, <1>2, <1>6, <1>9 DEF KeysOK
<1>12. SameOK'
  BY <1>1, <1>2 DEF SameOK
<1> QED
  BY <1>7, <1>10, <1>11, <1>12 DEF BuildInv

\* The key that a store writes: of an undisturbed build, the one a run would ask for.
LEMMA StoredKey ==
    ASSUME BuildInv, Store
    PROVE  /\ build.step = "store" /\ build.step \in Working /\ build' = NextOutput(build)
           /\ Current \in Outputs /\ Whole(out[Current])
           /\ DOMAIN out' = Outputs /\ DOMAIN key' = Outputs /\ out' = out
           /\ \A p \in Outputs : p # Current => out'[p] = out[p] /\ key'[p] = key[p]
           /\ build.quiet => /\ key'[Current] = KeyIn(imports, source, out, key, Current)
                             /\ UpToDate(imports, source, out', key', Current)
           /\ UNCHANGED <<imports, source, out, dist, same, edits, stops>>
<1> DEFINE o == Current
           k == IF o.kind = "lib" THEN KeyOf(o, build.key.input) ELSE build.key
<1>1. /\ build.step = "store" /\ build' = NextOutput(build)
      /\ key' = [key EXCEPT ![o] = k]
      /\ UNCHANGED <<imports, source, out, dist, same, edits, stops>>
  BY DEF Store
<1>2. /\ Shape /\ OrderOK /\ TodoOK /\ DoneOK /\ build.step \in Working
  BY <1>1 DEF BuildInv, Working
<1>3. /\ (build.quiet => build.key = KeyIn(imports, source, out, key, o)) /\ Whole(out[o])
  BY <1>1 DEF BuildInv, CurrentOK
<1>4. o \in Outputs
  BY <1>2, CurrentIs
<1>5. build.quiet => k = KeyIn(imports, source, out, key, o)
  <2> SUFFICES ASSUME build.quiet
               PROVE  k = KeyIn(imports, source, out, key, o)
    OBVIOUS
  <2>1. build.key = KeyIn(imports, source, out, key, o)
    BY <1>3
  <2> HIDE DEF o
  <2>4. KeyIn(imports, source, out, key, o).input = InputIn(source, out, o)
    BY KeyInIs
  <2>5. Input(o) = InputIn(source, out, o)
    BY KeyNow
  <2>2. build.key.input = Input(o)
    BY <2>1, <2>4, <2>5
  <2>3. KeyOf(o, build.key.input) = KeyIn(imports, source, out, key, o)
    BY <2>2, KeyNow
  <2> QED
    BY <2>1, <2>3
<1> HIDE DEF o, k
<1>6. /\ DOMAIN out' = Outputs /\ DOMAIN key' = Outputs /\ key'[o] = k
      /\ \A p \in Outputs : p # o => out'[p] = out[p] /\ key'[p] = key[p]
  BY <1>1, <1>2, <1>4 DEF Shape
<1>7. build.quiet => KeyIn(imports, source, out', key', o) = KeyIn(imports, source, out, key, o)
  BY <1>2, <1>6, DoneStays DEF o
<1>8. build.quiet => UpToDate(imports, source, out', key', o)
  BY <1>5, <1>6, <1>7 DEF UpToDate
<1> QED
  BY <1>1, <1>2, <1>3, <1>4, <1>5, <1>6, <1>8 DEF o

\* cache_store: the output gets its key, and the build goes on.
LEMMA StoreKeeps ==
    ASSUME BuildInv, Store
    PROVE  BuildInv'
<1>1. /\ build.step = "store" /\ build.step \in Working /\ build' = NextOutput(build)
      /\ Current \in Outputs /\ Whole(out[Current])
      /\ DOMAIN out' = Outputs /\ DOMAIN key' = Outputs /\ out' = out
      /\ \A p \in Outputs : p # Current => out'[p] = out[p] /\ key'[p] = key[p]
      /\ build.quiet => UpToDate(imports, source, out', key', Current)
      /\ imports' = imports /\ source' = source /\ same' = same
  BY StoredKey
<1>2. Shape /\ OrderOK /\ TodoOK /\ DoneOK /\ SameOK /\ KeysOK
  BY DEF BuildInv
<1>3. Shape' /\ OrderOK' /\ TodoOK' /\ DoneOK' /\ CurrentOK'
  BY <1>1, <1>2, Advance
<1>4. KeysOK'
  BY <1>1, <1>2 DEF KeysOK
<1>5. SameOK'
  BY <1>1, <1>2 DEF SameOK
<1> QED
  BY <1>3, <1>4, <1>5 DEF BuildInv

\* A build that delivers has brought every output up to date.
LEMMA AllDone ==
    ASSUME BuildInv, build.step = "deliver", build.quiet, NEW o \in Outputs
    PROVE  UpToDate(imports, source, out, key, o)
<1> DEFINE ord == build.order
           n == Len(ord)
<1>1. OrderOK /\ TodoOK /\ DoneOK /\ build.step \in Working \cup {"deliver"}
  BY DEF BuildInv
<1>2. n \in Nat /\ N \in Nat /\ Places = n + N /\ ord \in Seq(Modules) /\ Len(ord) = n
  BY <1>1, OrderIs
<1>3. build.todo = <<>> /\ \A m \in Modules : \E i \in 1 .. n : ord[i] = m
  BY <1>1 DEF TodoOK
<1>4. Done = n + N
  <2>1. Len(build.todo) = 0
    BY <1>3
  <2> HIDE DEF n
  <2> QED
    BY <1>2, <2>1 DEF Done
<1>5. PICK i \in 1 .. n + N : Nth(ord, i) = o
  <2> HIDE DEF ord, n
  <2> QED
    BY <1>2, <1>3, NthCovers
<1>6. UpToDate(imports, source, out, key, Nth(ord, i))
  BY <1>1, <1>4 DEF DoneOK
<1> QED
  BY <1>5, <1>6

\* The program is delivered.
LEMMA DeliverKeeps ==
    ASSUME BuildInv, Deliver
    PROVE  BuildInv'
<1>1. /\ build.step = "deliver" /\ same' = build.quiet /\ build' = NoBuild
      /\ UNCHANGED <<imports, source, out, key, edits, stops>>
  BY DEF Deliver
<1>2. Shape' /\ OrderOK' /\ TodoOK' /\ DoneOK' /\ CurrentOK'
  BY <1>1, Halts DEF BuildInv, Shape
<1>3. KeysOK'
  BY <1>1 DEF BuildInv, KeysOK
<1>4. build'.step = "idle"
  BY <1>1, NoBuildIs
<1>5. SameOK'
  <2>1. build.quiet => \A o \in Outputs : UpToDate(imports, source, out, key, o)
    BY <1>1, AllDone
  <2> QED
    BY <1>1, <1>4, <2>1 DEF SameOK
<1> QED
  BY <1>2, <1>3, <1>5 DEF BuildInv

\* A build that is killed leaves the output it writes, or its key, torn.
LEMMA StoppedKeeps ==
    ASSUME BuildInv, Stopped
    PROVE  BuildInv'
<1>1. /\ build' = NoBuild /\ UNCHANGED <<imports, source, dist, same, edits>>
      /\ \/ UNCHANGED <<out, key>>
         \/ build.step = "compile" /\ out' = [out EXCEPT ![Current] = Torn] /\ UNCHANGED key
         \/ build.step = "store" /\ key' = [key EXCEPT ![Current] = Torn] /\ UNCHANGED out
  BY DEF Stopped
<1>2. DOMAIN out' = Outputs /\ DOMAIN key' = Outputs
  BY <1>1 DEF BuildInv, Shape
<1>3. Shape' /\ OrderOK' /\ TodoOK' /\ DoneOK' /\ CurrentOK'
  BY <1>1, <1>2, Halts DEF BuildInv, Shape
<1>4. build'.step = "idle"
  BY <1>1, NoBuildIs
<1>5. SameOK'
  <2> SUFFICES ASSUME same
               PROVE  \A o \in Outputs : UpToDate(imports, source, out', key', o)
    BY <1>1, <1>4 DEF SameOK
  <2>1. UNCHANGED <<out, key>>
    BY <1>1 DEF BuildInv, SameOK
  <2> QED
    BY <2>1 DEF BuildInv, SameOK
<1>6. KeysOK'
  <2> SUFFICES ASSUME NEW o \in Outputs, Whole(key'[o])
               PROVE  Whole(out'[o])
    BY DEF KeysOK
  <2>1. CASE UNCHANGED <<out, key>>
    BY <2>1 DEF BuildInv, KeysOK
  <2>2. CASE build.step = "compile" /\ out' = [out EXCEPT ![Current] = Torn] /\ UNCHANGED key
    <3>1. key[Current] = None
      BY <2>2 DEF BuildInv, CurrentOK
    <3>2. o # Current
      BY <2>2, <3>1, KeyIs
    <3> QED
      BY <2>2, <3>2 DEF BuildInv, KeysOK, Shape
  <2>3. CASE build.step = "store" /\ key' = [key EXCEPT ![Current] = Torn] /\ UNCHANGED out
    <3>1. o # Current
      BY <2>3, KeyIs DEF BuildInv, Shape
    <3> QED
      BY <2>3, <3>1 DEF BuildInv, KeysOK, Shape
  <2> QED
    BY <1>1, <2>1, <2>2, <2>3
<1> QED
  BY <1>3, <1>5, <1>6 DEF BuildInv

\* An edit.
LEMMA EditKeeps ==
    ASSUME BuildInv, NEW m \in Modules, NEW v \in Versions, Edit(m, v)
    PROVE  BuildInv'
<1>1. /\ same' = FALSE /\ build' = [build EXCEPT !.quiet = FALSE]
      /\ UNCHANGED <<imports, out, key, dist, stops>>
      /\ IsBuild(build)
  BY DEF Edit, BuildInv, Shape, IsBuild
<1>2. build' = [step |-> build.step, order |-> build.order, todo |-> build.todo,
                key |-> build.key, quiet |-> FALSE]
  BY <1>1, FieldSet
<1>3. /\ IsBuild(build') /\ build'.step = build.step /\ build'.order = build.order
      /\ build'.todo = build.todo /\ build'.quiet = FALSE
  BY <1>2, BuildFields
<1>4. Shape'
  BY <1>1, <1>3 DEF BuildInv, Shape, IsBuild
<1>5. OrderOK'
  BY <1>1, <1>3 DEF BuildInv, OrderOK
<1>6. Places' = Places /\ Done' = Done /\ Current' = Current
  BY <1>3 DEF Places, Done, Current
<1>7. TodoOK'
  BY <1>3, <1>6 DEF BuildInv, TodoOK
<1>8. DoneOK' /\ SameOK'
  BY <1>1, <1>3 DEF DoneOK, SameOK
<1>9. CurrentOK' /\ KeysOK'
  BY <1>1, <1>3, <1>6 DEF BuildInv, CurrentOK, KeysOK
<1> QED
  BY <1>4, <1>5, <1>7, <1>8, <1>9 DEF BuildInv

\* A project that was never built.
LEMMA BuildInitInv == BuildInit => BuildInv
<1> SUFFICES ASSUME BuildInit
             PROVE  BuildInv
  OBVIOUS
<1>1. /\ imports \in [Modules -> SUBSET Modules]
      /\ out = [o \in Outputs |-> None] /\ key = [o \in Outputs |-> None]
      /\ build = NoBuild /\ same = FALSE
  BY DEF BuildInit, BuildBegins
<1>2. IsBuild(build) /\ build.step = "idle" /\ build.order = <<>>
  BY <1>1, NoBuildIs
<1>3. Shape
  BY <1>1, <1>2 DEF Shape, IsBuild, Steps
<1>4. OrderOK
  BY <1>2 DEF OrderOK, Fits
<1>5. TodoOK /\ DoneOK /\ CurrentOK
  BY <1>2 DEF TodoOK, DoneOK, CurrentOK, Working
<1>6. KeysOK /\ SameOK
  BY <1>1, KeyIs DEF KeysOK, SameOK
<1> QED
  BY <1>3, <1>4, <1>5, <1>6 DEF BuildInv

\* Every step keeps the invariant.
LEMMA BuildNextInv == BuildInv /\ [BuildNext]_buildVars => BuildInv'
<1> SUFFICES ASSUME BuildInv, [BuildNext]_buildVars
             PROVE  BuildInv'
  OBVIOUS
<1>1. CASE BeginBuild
  BY <1>1, BeginBuildKeeps
<1>2. CASE PlaceUnit
  BY <1>2, PlaceUnitKeeps
<1>3. CASE ReportCycle \/ CompileFails
  BY <1>3, EndsKeeps
<1>4. CASE Ordered
  BY <1>4, OrderedKeeps
<1>5. CASE Reuse
  BY <1>5, ReuseKeeps
<1>6. CASE Drop
  BY <1>6, DropKeeps
<1>7. CASE Compile
  BY <1>7, CompileKeeps
<1>8. CASE Store
  BY <1>8, StoreKeeps
<1>9. CASE Deliver
  BY <1>9, DeliverKeeps
<1>10. CASE Stopped
  BY <1>10, StoppedKeeps
<1>11. CASE \E m \in Modules, v \in Versions : Edit(m, v)
  BY <1>11, EditKeeps
<1>12. CASE UNCHANGED buildVars
  <2>1. UNCHANGED <<imports, source, out, key, build, same>>
    BY <1>12 DEF buildVars
  <2>2. Places' = Places /\ Done' = Done /\ Current' = Current
    BY <2>1 DEF Places, Done, Current
  <2>3. Shape' /\ OrderOK'
    BY <2>1 DEF BuildInv, Shape, OrderOK
  <2>4. TodoOK' /\ DoneOK'
    BY <2>1, <2>2 DEF BuildInv, TodoOK, DoneOK
  <2>5. CurrentOK' /\ KeysOK' /\ SameOK'
    BY <2>1, <2>2 DEF BuildInv, CurrentOK, KeysOK, SameOK
  <2> QED
    BY <2>3, <2>4, <2>5 DEF BuildInv
<1> QED
  BY <1>1, <1>2, <1>3, <1>4, <1>5, <1>6, <1>7, <1>8, <1>9, <1>10, <1>11, <1>12 DEF BuildNext

\* The invariant holds throughout.
LEMMA BuildInvariant == BuildSpec => []BuildInv
<1>1. BuildInit => BuildInv
  BY BuildInitInv
<1>2. BuildInv /\ [BuildNext]_buildVars => BuildInv'
  BY BuildNextInv
<1> QED
  BY <1>1, <1>2, PTL DEF BuildSpec

\* A build after one that delivered compiles nothing when no source changed since,
\* whatever the builds before it did, with edits during a build too: module_library,
\* object_compile and program_reuse find every key as the delivery left it.
THEOREM NeverAgain == BuildSpec => []NothingAgain
<1>1. BuildInv => NothingAgain
  BY DEF BuildInv, SameOK, NothingAgain
<1> QED
  BY <1>1, BuildInvariant, PTL

-----------------------------------------------------------------------------
(* The order of the modules. *)

\* A set of naturals has a least member.
LEMMA LeastOf ==
    ASSUME NEW S, S \subseteq Nat, S # {}
    PROVE  \E x \in S : \A y \in S : x <= y
<1>1. IsWellFoundedOn(OpToRel(<, Nat), Nat)
  BY NatLessThanWellFounded
<1>2. PICK x \in S : \A y \in S : ~(<<y, x>> \in OpToRel(<, Nat))
  BY <1>1, WFMin
<1>3. ASSUME NEW y \in S
      PROVE  x <= y
  <2>1. x \in Nat /\ y \in Nat
    OBVIOUS
  <2>2. y < x => <<y, x>> \in OpToRel(<, Nat)
    BY <2>1 DEF OpToRel
  <2>3. ~(y < x)
    BY <1>2, <2>2
  <2> QED
    BY <2>1, <2>3
<1> QED
  BY <1>3

\* A pass that places nothing found no module ready.
LEMMA NoneReady ==
    ASSUME NextUnit = {}
    PROVE  ReadyUnits = {}
<1> SUFFICES ASSUME ReadyUnits # {}
             PROVE  NextUnit # {}
  OBVIOUS
<1> DEFINE last == IF build.order = <<>> THEN 0 ELSE Last(build.order)
           later == {m \in ReadyUnits : m > last}
           pass == IF later # {} THEN later ELSE ReadyUnits
<1>1. NextUnit = {m \in pass : \A k \in pass : m <= k}
  BY DEF NextUnit
<1>2. ReadyUnits \subseteq Nat
  BY BuildAssumption DEF ReadyUnits, Modules
<1>3. pass \subseteq Nat /\ pass # {}
  BY <1>2
<1> HIDE DEF pass
<1>4. \E x \in pass : \A y \in pass : x <= y
  BY <1>3, LeastOf
<1> QED
  BY <1>1, <1>4

\* unit_order is right.
LEMMA OrderIsRight ==
    ASSUME BuildInv
    PROVE  OrderRight
<1>1. Shape /\ OrderOK
  BY DEF BuildInv
<1>2. DOMAIN build.order = 1 .. Len(build.order)
  BY <1>1 DEF OrderOK, Fits
<1>3. \A i \in DOMAIN build.order : imports[build.order[i]] \ {build.order[i]}
         \subseteq {build.order[k] : k \in 1 .. i - 1}
  BY <1>1, <1>2 DEF OrderOK, Fits
<1>4. ASSUME NextUnit = {}, Placed # Modules
      PROVE  \E c \in SUBSET (Modules \ Placed) :
                c # {} /\ \A m \in c : imports[m] \cap (c \ {m}) # {}
  <2> DEFINE c == Modules \ Placed
  <2>1. \A i \in 1 .. Len(build.order) : build.order[i] \in Modules
    BY <1>1 DEF OrderOK, Fits
  <2>2. Placed \subseteq Modules
    BY <1>1, <2>1, PlacedIs
  <2>3. c # {}
    BY <1>4, <2>2
  <2>4. ASSUME NEW m \in c
        PROVE  imports[m] \cap (c \ {m}) # {}
    <3>1. m \notin ReadyUnits
      BY <1>4, NoneReady
    <3>2. PICK i \in imports[m] \ {m} : i \notin Placed
      BY <3>1 DEF ReadyUnits
    <3>3. i \in Modules
      BY <1>1, <3>2 DEF Shape
    <3> QED
      BY <3>2, <3>3
  <2> QED
    BY <2>3, <2>4
<1> QED
  BY <1>3, <1>4 DEF OrderRight

-----------------------------------------------------------------------------
(* A clean build. *)

\* What a clean build makes of module m when F gives it the library files that m
\* reaches, and of the objects and the program.
LibFrom(g, src, F, m) ==
    [is |-> "made", kind |-> "lib", input |-> Text(src[m]),
     from |-> [i \in ClosureIn(g, m) |-> F[i]], objects |-> <<>>]
IsClean(g, src, F) == F = [m \in Modules |-> LibFrom(g, src, F, m)]
CleanIn(g, src) == CHOOSE F : IsClean(g, src, F)
ObjFrom(g, F, m) ==
    [is |-> "made", kind |-> "obj", input |-> F[m],
     from |-> [i \in ClosureIn(g, m) |-> F[i]], objects |-> <<>>]
ProgFrom(g, src, F) ==
    [is |-> "made", kind |-> "prog", input |-> Text(src[Main]),
     from |-> [i \in ClosureIn(g, Main) |-> F[i]],
     objects |-> [p \in Objects |-> ObjFrom(g, F, p.m)]]

\* These are the definitions of the model.
LEMMA CleanNow == CleanProg = ProgFrom(imports, source, CleanIn(imports, source))
<1>1. CleanLib = CleanIn(imports, source)
  BY DEF CleanLib, CleanIn, IsClean, LibFrom, Closure, Closed, ClosureIn
<1>2. \A m \in Modules : Closure(m) = ClosureIn(imports, m)
  BY DEF Closure, Closed, ClosureIn
<1>3. \A m \in Modules : CleanObj(m) = ObjFrom(imports, CleanLib, m)
  BY <1>2 DEF CleanObj, ObjFrom
<1>4. \A p \in Objects : p.m \in Modules
  BY OutputFacts, BuildAssumption DEF Modules
<1>5. Main \in Modules
  BY BuildAssumption DEF Main, Modules
<1>6. [p \in Objects |-> CleanObj(p.m)] = [p \in Objects |-> ObjFrom(imports, CleanLib, p.m)]
  BY <1>3, <1>4
<1> QED
  BY <1>1, <1>2, <1>5, <1>6 DEF CleanProg, ProgFrom

\* The same with the variables primed.
LEMMA CleanStays ==
    ASSUME UNCHANGED <<imports, source>>
    PROVE  CleanProg' = CleanProg
<1>1. CleanProg = ProgFrom(imports, source, CleanIn(imports, source))
  BY CleanNow
<1>2. (CleanProg = ProgFrom(imports, source, CleanIn(imports, source)))'
  BY CleanNow, PTL
<1> QED
  BY <1>1, <1>2

\* Along an order of the modules there is one clean build.
LEMMA CleanOne ==
    ASSUME NEW g, NEW src, NEW ord \in Seq(Modules), NEW n \in Nat, Len(ord) = n,
           \A i \in 1 .. n : g[ord[i]] \ {ord[i]} \subseteq {ord[k] : k \in 1 .. i - 1},
           \A m \in Modules : \E i \in 1 .. n : ord[i] = m,
           NEW F, IsClean(g, src, F), NEW G, IsClean(g, src, G)
    PROVE  F = G
<1> DEFINE Differ == {j \in 1 .. n : F[ord[j]] # G[ord[j]]}
<1>1. \A i \in 1 .. n : ord[i] \in Modules
  OBVIOUS
<1>2. \A m \in Modules : F[m] = LibFrom(g, src, F, m) /\ G[m] = LibFrom(g, src, G, m)
  BY DEF IsClean
<1>3. Differ = {}
  <2> SUFFICES ASSUME Differ # {}
               PROVE  FALSE
    OBVIOUS
  <2>1. Differ \subseteq Nat
    OBVIOUS
  <2>2. PICK j \in Differ : \A k \in Differ : j <= k
    <3> HIDE DEF Differ
    <3> QED
      BY <2>1, LeastOf
  <2>3. j \in 1 .. n /\ F[ord[j]] # G[ord[j]]
    BY <2>2
  <2>4. \A k \in 1 .. j - 1 : k \in 1 .. n /\ ~(j <= k)
    BY <2>3
  <2>5. \A k \in 1 .. j - 1 : F[ord[k]] = G[ord[k]]
    BY <2>2, <2>4
  <2>6. ClosureIn(g, ord[j]) \subseteq {ord[k] : k \in 1 .. j - 1}
    BY <2>3, ClosureBefore
  <2>7. \A i \in ClosureIn(g, ord[j]) : F[i] = G[i]
    BY <2>5, <2>6
  <2>8. LibFrom(g, src, F, ord[j]) = LibFrom(g, src, G, ord[j])
    BY <2>7 DEF LibFrom
  <2> QED
    BY <1>1, <1>2, <2>3, <2>8
<1>4. \A m \in Modules : F[m] = G[m]
  <2> SUFFICES ASSUME NEW m \in Modules
               PROVE  F[m] = G[m]
    OBVIOUS
  <2>1. PICK i \in 1 .. n : ord[i] = m
    OBVIOUS
  <2>2. i \notin Differ
    BY <1>3
  <2> QED
    BY <2>1, <2>2
<1>5. F = [m \in Modules |-> F[m]] /\ G = [m \in Modules |-> G[m]]
  BY DEF IsClean
<1> QED
  BY <1>4, <1>5

\* The clean build is any that fits the imports.
LEMMA CleanIs ==
    ASSUME NEW g, NEW src, NEW ord \in Seq(Modules), NEW n \in Nat, Len(ord) = n,
           \A i \in 1 .. n : g[ord[i]] \ {ord[i]} \subseteq {ord[k] : k \in 1 .. i - 1},
           \A m \in Modules : \E i \in 1 .. n : ord[i] = m,
           NEW F, IsClean(g, src, F)
    PROVE  CleanIn(g, src) = F
<1> DEFINE G == CleanIn(g, src)
<1>1. IsClean(g, src, G)
  BY DEF CleanIn
<1> HIDE DEF G
<1>2. F = G
  BY <1>1, CleanOne
<1> QED
  BY <1>2 DEF G

\* A key, kind by kind.
LEMMA KeyKinds ==
    ASSUME NEW g, NEW src, NEW O, NEW K, NEW m
    PROVE  /\ m \in Modules =>
                KeyIn(g, src, O, K, Lib(m)) =
                    [is |-> "made", kind |-> "lib", input |-> Text(src[m]),
                     from |-> [i \in ClosureIn(g, m) |-> O[Lib(i)]], objects |-> <<>>]
           /\ m \in 1 .. N - 1 =>
                KeyIn(g, src, O, K, Obj(m)) =
                    [is |-> "made", kind |-> "obj", input |-> O[Lib(m)],
                     from |-> [i \in ClosureIn(g, m) |-> O[Lib(i)]], objects |-> <<>>]
<1>1. Lib(m).kind = "lib" /\ Lib(m).m = m /\ Obj(m).kind = "obj" /\ Obj(m).m = m
  BY DEF Lib, Obj
<1>2. InputIn(src, O, Lib(m)) = Text(src[m]) /\ InputIn(src, O, Obj(m)) = O[Lib(m)]
  BY <1>1 DEF InputIn
<1> QED
  BY <1>1, <1>2 DEF KeyIn

\* The key of the program.
LEMMA ProgKey ==
    ASSUME NEW g, NEW src, NEW O, NEW K
    PROVE  KeyIn(g, src, O, K, Prog) =
               [is |-> "made", kind |-> "prog", input |-> Text(src[Main]),
                from |-> [i \in ClosureIn(g, Main) |-> O[Lib(i)]],
                objects |-> [p \in Objects |-> K[p]]]
<1>1. Prog.kind = "prog" /\ Prog.m = Main
  BY DEF Prog
<1>2. InputIn(src, O, Prog) = Text(src[Main])
  BY <1>1 DEF InputIn
<1> QED
  BY <1>1, <1>2 DEF KeyIn

\* When every output has its key and is what its key says, the program is that of a
\* clean build.
LEMMA ProgramIsClean ==
    ASSUME BuildInv, KeyTells, build.step = "deliver", build.quiet
    PROVE  out[Prog] = CleanProg
<1> DEFINE ord == build.order
           n == Len(ord)
           F == [m \in Modules |-> out[Lib(m)]]
<1>1. \A o \in Outputs : out[o] = key[o] /\ key[o] = KeyIn(imports, source, out, key, o)
  <2> SUFFICES ASSUME NEW o \in Outputs
               PROVE  out[o] = key[o] /\ key[o] = KeyIn(imports, source, out, key, o)
    OBVIOUS
  <2>1. key[o] = KeyIn(imports, source, out, key, o)
    BY AllDone DEF UpToDate
  <2>2. Whole(key[o])
    BY <2>1, KeyInIs
  <2> QED
    BY <2>1, <2>2 DEF KeyTells
<1>2. /\ ord \in Seq(Modules) /\ n \in Nat /\ Len(ord) = n
      /\ \A i \in 1 .. n : imports[ord[i]] \ {ord[i]} \subseteq {ord[k] : k \in 1 .. i - 1}
  BY OrderIs DEF BuildInv
<1>3. \A m \in Modules : \E i \in 1 .. n : ord[i] = m
  BY DEF BuildInv, TodoOK
<1>4. \A m \in Modules : F[m] = out[Lib(m)]
  OBVIOUS
<1>5. ASSUME NEW m \in Modules
      PROVE  [i \in ClosureIn(imports, m) |-> out[Lib(i)]]
                = [i \in ClosureIn(imports, m) |-> F[i]]
  BY <1>4, ClosureIs
<1>6. ASSUME NEW m \in Modules
      PROVE  out[Lib(m)] = LibFrom(imports, source, F, m)
  <2>1. Lib(m) \in Outputs
    BY OutputFacts
  <2>2. out[Lib(m)] = KeyIn(imports, source, out, key, Lib(m))
    BY <1>1, <2>1
  <2> HIDE DEF F
  <2> QED
    BY <1>5, <2>2, KeyKinds DEF LibFrom
<1>7. IsClean(imports, source, F)
  <2> DEFINE H == [m \in Modules |-> LibFrom(imports, source, F, m)]
  <2>1. F = H
    <3> HIDE DEF F
    <3>1. [m \in Modules |-> out[Lib(m)]] = H
      BY <1>6
    <3> QED
      BY <3>1 DEF F
  <2> QED
    BY <2>1 DEF IsClean
<1>8. CleanIn(imports, source) = F
  <2> HIDE DEF F, n, ord
  <2> QED
    BY <1>2, <1>3, <1>7, CleanIs
<1> HIDE DEF F
<1>9. ASSUME NEW m \in 1 .. N - 1
      PROVE  key[Obj(m)] = ObjFrom(imports, F, m)
  <2>1. Obj(m) \in Outputs /\ m \in Modules
    BY OutputFacts, BuildAssumption DEF Modules
  <2>2. key[Obj(m)] = KeyIn(imports, source, out, key, Obj(m))
    BY <1>1, <2>1
  <2> QED
    BY <1>4, <1>5, <2>1, <2>2, KeyKinds DEF ObjFrom
<1>10. \A p \in Objects : key[p] = ObjFrom(imports, F, p.m)
  BY <1>9, OutputFacts
<1>11. [p \in Objects |-> key[p]] = [p \in Objects |-> ObjFrom(imports, F, p.m)]
  BY <1>10
<1>12. out[Prog] = KeyIn(imports, source, out, key, Prog)
  BY <1>1, OutputFacts
<1>13. Main \in Modules
  BY BuildAssumption DEF Main, Modules
<1>14. [i \in ClosureIn(imports, Main) |-> out[Lib(i)]]
         = [i \in ClosureIn(imports, Main) |-> F[i]]
  BY <1>5, <1>13
<1>15. KeyIn(imports, source, out, key, Prog) =
         [is |-> "made", kind |-> "prog", input |-> Text(source[Main]),
          from |-> [i \in ClosureIn(imports, Main) |-> out[Lib(i)]],
          objects |-> [p \in Objects |-> key[p]]]
  BY ProgKey
<1>16. out[Prog] = ProgFrom(imports, source, F)
  BY <1>11, <1>12, <1>14, <1>15 DEF ProgFrom
<1> QED
  BY <1>8, <1>16, CleanNow

-----------------------------------------------------------------------------
(* Without edits during a build an output is what its key says. *)

\* Outputs and keys that change at the output the build is at do not change the
\* key it gets.
LEMMA OwnKey ==
    ASSUME OrderOK, TodoOK, build.step \in Working, NEW O, NEW P, NEW K, NEW J,
           DifferAt(O, P, K, J, Current)
    PROVE  KeyIn(imports, source, P, J, Current) = KeyIn(imports, source, O, K, Current)
<1> DEFINE ord == build.order
           n == Len(ord)
           q == Done + 1
<1>1. Fits(ord, imports) /\ n \in Nat /\ Len(ord) = n
  BY OrderIs DEF OrderOK
<1>2. q \in 1 .. n + N /\ Current = Nth(ord, q) /\ Done \in Nat
  BY CurrentIs
<1>3. q \in 1 .. q
  BY <1>2
<1> HIDE DEF ord, n, q
<1>4. DifferAt(O, P, K, J, Nth(ord, q))
  BY <1>2
<1>5. KeyIn(imports, source, P, J, Nth(ord, q)) = KeyIn(imports, source, O, K, Nth(ord, q))
  BY <1>1, <1>2, <1>3, <1>4, KeyStays
<1> QED
  BY <1>2, <1>5

\* The compile and the link make what KeyIn says of the outputs themselves.
LEMMA MadeIs ==
    ASSUME NEW o
    PROVE  Made(o) = KeyIn(imports, source, out, out, o)
<1>1. Input(o) = InputIn(source, out, o)
      /\ ReadFrom(o.m) = [i \in ClosureIn(imports, o.m) |-> out[Lib(i)]]
  BY KeyNow
<1> QED
  BY <1>1 DEF Made, KeyIn

\* At the program all objects are done, so their keys are what they are.
LEMMA ObjectsTold ==
    ASSUME BuildInv, KeyTells, build.step \in Working, build.quiet
    PROVE  KeyIn(imports, source, out, key, Current) = KeyIn(imports, source, out, out, Current)
<1> DEFINE o == Current
           ord == build.order
           n == Len(ord)
<1>1. OrderOK /\ TodoOK /\ DoneOK
  BY DEF BuildInv
<1>2. /\ Done \in Nat /\ Done + 1 \in 1 .. n + N /\ o = Nth(ord, Done + 1)
  BY <1>1, CurrentIs
<1>3. n \in Nat /\ N \in Nat /\ N > 0 /\ ord \in Seq(Modules) /\ Len(ord) = n
  BY <1>1, OrderIs
<1>4. \A i \in 1 .. Done : UpToDate(imports, source, out, key, Nth(ord, i))
  BY <1>1 DEF DoneOK, Working
<1> HIDE DEF o, ord, n
<1>5. o.kind = "prog" => \A p \in Objects : key[p] = out[p]
  <2> SUFFICES ASSUME o.kind = "prog", NEW m \in 1 .. N - 1
               PROVE  key[Obj(m)] = out[Obj(m)]
    BY OutputFacts
  <2> DEFINE d == Done + 1
             i == n + m
  <2>1. d = n + N
    <3>1. d \in 1 .. n + N /\ o = Nth(ord, d)
      BY <1>2
    <3>2. d <= n \/ (d > n /\ d < n + N) \/ d = n + N
      BY <1>3, <3>1
    <3> HIDE DEF d
    <3> QED
      BY <1>3, <3>1, <3>2, NthIs, OutputFacts
  <2>2. i \in 1 .. Done /\ i \in 1 .. n + N /\ i > n /\ i < n + N /\ i - n = m
    BY <1>2, <1>3, <2>1
  <2> HIDE DEF i
  <2>3. Nth(ord, i) = Obj(m)
    BY <1>3, <2>2, NthIs
  <2>4. UpToDate(imports, source, out, key, Obj(m))
    BY <1>4, <2>2, <2>3
  <2>5. Whole(key[Obj(m)])
    BY <2>4, KeyInIs DEF UpToDate
  <2>6. Obj(m) \in Outputs
    BY OutputFacts
  <2> QED
    BY <2>5, <2>6 DEF KeyTells
<1>6. (IF o.kind # "prog" THEN <<>> ELSE [p \in Objects |-> key[p]])
        = (IF o.kind # "prog" THEN <<>> ELSE [p \in Objects |-> out[p]])
  BY <1>5
<1>7. KeyIn(imports, source, out, key, o) = KeyIn(imports, source, out, out, o)
  BY <1>6 DEF KeyIn
<1> QED
  BY <1>7 DEF o

\* A step that leaves the files alone.
LEMMA FreshStays ==
    ASSUME FreshInv, UNCHANGED <<imports, source, out, key, dist, same>>,
           build'.quiet \/ build'.step = "idle", build'.step # "store"
    PROVE  FreshInv'
<1>1. KeyTells'
  BY DEF FreshInv, KeyTells
<1>2. DeliversFresh'
  BY CleanStays DEF FreshInv, DeliversFresh
<1> QED
  BY <1>1, <1>2 DEF FreshInv

\* The steps that begin, order and end a build, and those that leave an output.
LEMMA QuietSteps ==
    ASSUME BuildInv, FreshInv,
           BeginBuild \/ PlaceUnit \/ ReportCycle \/ Ordered \/ Reuse \/ CompileFails
    PROVE  FreshInv'
<1>1. UNCHANGED <<imports, source, out, key, dist, same>>
  BY DEF BeginBuild, PlaceUnit, ReportCycle, Ordered, Reuse, CompileFails
<1>2. IsBuild(build) /\ IsBuild(NoBuild) /\ NoBuild.quiet = TRUE /\ NoBuild.step = "idle"
  BY NoBuildIs DEF BuildInv, Shape, IsBuild
<1>3. build.step # "idle" => build.quiet
  BY DEF FreshInv
<1>4. CASE BeginBuild
  <2> DEFINE b == NoBuild
  <2>1. build' = [b EXCEPT !.step = "order"] /\ IsBuild(b) /\ b.quiet = TRUE
    BY <1>2, <1>4 DEF BeginBuild
  <2> HIDE DEF b
  <2>2. build' = [step |-> "order", order |-> b.order, todo |-> b.todo, key |-> b.key,
                  quiet |-> b.quiet]
    BY <2>1, FieldSet
  <2>3. build'.quiet = TRUE /\ build'.step = "order"
    BY <2>1, <2>2, BuildFields
  <2> QED
    BY <1>1, <2>3, FreshStays
<1>5. CASE PlaceUnit
  <2>1. PICK m : build' = [build EXCEPT !.order = Append(build.order, m)]
    BY <1>2, <1>5 DEF PlaceUnit, IsBuild
  <2> DEFINE s == Append(build.order, m)
  <2>2. build' = [build EXCEPT !.order = s] /\ build.step = "order"
    BY <1>5, <2>1 DEF PlaceUnit
  <2> HIDE DEF s
  <2>3. build' = [step |-> build.step, order |-> s, todo |-> build.todo, key |-> build.key,
                  quiet |-> build.quiet]
    BY <1>2, <2>2, FieldSet
  <2>4. build'.quiet = build.quiet /\ build'.step = "order"
    BY <2>2, <2>3, BuildFields
  <2> QED
    BY <1>1, <1>3, <2>2, <2>4, FreshStays
<1>6. CASE ReportCycle \/ CompileFails
  <2>1. build' = NoBuild
    BY <1>6 DEF ReportCycle, CompileFails
  <2> QED
    BY <1>1, <1>2, <2>1, FreshStays
<1>7. CASE Ordered
  <2> DEFINE t == Plan
  <2>1. build' = [build EXCEPT !.step = "check", !.todo = t] /\ build.step = "order"
    BY <1>7 DEF Ordered
  <2> HIDE DEF t
  <2>2. build' = [step |-> "check", order |-> build.order, todo |-> t, key |-> build.key,
                  quiet |-> build.quiet]
    BY <1>2, <2>1, StepTodoSet
  <2>3. build'.quiet = build.quiet /\ build'.step = "check"
    BY <2>2, BuildFields
  <2> QED
    BY <1>1, <1>3, <2>1, <2>3, FreshStays
<1>8. CASE Reuse
  <2>1. build' = NextOutput(build) /\ build.step = "check" /\ build.step \in Working
    BY <1>8 DEF Reuse, Working
  <2>2. build'.quiet = build.quiet /\ build'.step # "store"
    <3> DEFINE n == Len(build.todo)
    <3>1. n \in Nat /\ n >= 1 /\ Len(build.todo) = n /\ build.todo \in Seq(Outputs)
      BY <2>1, CurrentIs DEF BuildInv
    <3> HIDE DEF n
    <3>2. build'.quiet = build.quiet /\ build'.step = IF n = 1 THEN "deliver" ELSE "check"
      BY <1>2, <2>1, <3>1, NextIs
    <3> QED
      BY <3>2
  <2> QED
    BY <1>1, <1>3, <2>1, <2>2, FreshStays
<1> QED
  BY <1>4, <1>5, <1>6, <1>7, <1>8

\* Without its key an output may be anything.
LEMMA DropFresh ==
    ASSUME BuildInv, FreshInv, Drop
    PROVE  FreshInv'
<1> DEFINE k == KeyOf(Current, Input(Current))
<1>1. /\ build.step = "check" /\ build' = [build EXCEPT !.step = "compile", !.key = k]
      /\ key' = [key EXCEPT ![Current] = None]
      /\ UNCHANGED <<imports, source, out, dist, same>>
  BY DEF Drop
<1>2. IsBuild(build) /\ DOMAIN key = Outputs
  BY DEF BuildInv, Shape, IsBuild
<1> HIDE DEF k
<1>3. build' = [step |-> "compile", order |-> build.order, todo |-> build.todo, key |-> k,
                quiet |-> build.quiet]
  BY <1>1, <1>2, StepKeySet
<1>4. build'.quiet = build.quiet /\ build'.step = "compile"
  BY <1>3, BuildFields
<1>5. KeyTells'
  BY <1>1, <1>2, KeyIs DEF FreshInv, KeyTells
<1>6. DeliversFresh'
  BY <1>1, CleanStays DEF FreshInv, DeliversFresh
<1> QED
  BY <1>1, <1>4, <1>5, <1>6 DEF FreshInv

\* The compile makes the output of what stands.
LEMMA CompileFresh ==
    ASSUME BuildInv, FreshInv, Compile
    PROVE  FreshInv'
<1> DEFINE o == Current
<1>1. /\ build.step = "compile" /\ build' = [build EXCEPT !.step = "store"]
      /\ out' = [out EXCEPT ![o] = Made(o)]
      /\ UNCHANGED <<imports, source, key, dist, same>>
  BY DEF Compile
<1>2. /\ IsBuild(build) /\ DOMAIN out = Outputs /\ OrderOK /\ TodoOK /\ build.step \in Working
      /\ key[o] = None
  BY <1>1 DEF BuildInv, Shape, IsBuild, Working, CurrentOK
<1>3. o \in Outputs
  BY <1>2, CurrentIs
<1>4. build' = [step |-> "store", order |-> build.order, todo |-> build.todo, key |-> build.key,
                quiet |-> build.quiet]
  BY <1>1, <1>2, FieldSet
<1>5. build'.quiet = build.quiet /\ build'.step = "store" /\ build'.todo = build.todo
  BY <1>4, BuildFields
<1>6. Current' = o
  BY <1>5 DEF Current
<1> HIDE DEF o
<1>7. out'[o] = Made(o) /\ \A p \in Outputs : p # o => out'[p] = out[p]
  BY <1>1, <1>2, <1>3
<1>8. Made(o) = KeyIn(imports, source, out, out, o)
  BY MadeIs
<1>9. KeyIn(imports, source, out', out', o) = KeyIn(imports, source, out, out, o)
  <2>1. DifferAt(out, out', out, out', Current)
    BY <1>7 DEF DifferAt, o
  <2> QED
    BY <1>2, <2>1, OwnKey DEF o
<1>10. KeyTells'
  BY <1>1, <1>2, <1>7, KeyIs DEF FreshInv, KeyTells
<1>11. DeliversFresh'
  BY <1>1, CleanStays DEF FreshInv, DeliversFresh
<1>12. build'.quiet
  BY <1>1, <1>5 DEF FreshInv
<1>13. out'[Current'] = KeyIn(imports', source', out', out', Current')
  BY <1>1, <1>6, <1>7, <1>8, <1>9
<1> QED
  BY <1>10, <1>11, <1>12, <1>13 DEF FreshInv

\* The key that a store writes says what the compile made.
LEMMA StoreFresh ==
    ASSUME BuildInv, FreshInv, Store
    PROVE  FreshInv'
<1>1. /\ build.step = "store" /\ build.step \in Working /\ build' = NextOutput(build)
      /\ Current \in Outputs /\ out' = out
      /\ \A p \in Outputs : p # Current => key'[p] = key[p]
      /\ build.quiet => key'[Current] = KeyIn(imports, source, out, key, Current)
      /\ UNCHANGED <<imports, source, out, dist, same>>
  BY StoredKey
<1>2. build.quiet /\ KeyTells /\ out[Current] = KeyIn(imports, source, out, out, Current)
  BY <1>1 DEF FreshInv
<1>3. key'[Current] = out[Current]
  BY <1>1, <1>2, ObjectsTold
<1>4. KeyTells'
  BY <1>1, <1>2, <1>3 DEF KeyTells
<1>5. DeliversFresh'
  BY <1>1, CleanStays DEF FreshInv, DeliversFresh
<1>6. IsBuild(build)
  BY DEF BuildInv, Shape, IsBuild
<1>7. build'.quiet = build.quiet /\ build'.step # "store"
  <2> DEFINE n == Len(build.todo)
  <2>1. n \in Nat /\ n >= 1 /\ Len(build.todo) = n /\ build.todo \in Seq(Outputs)
    BY <1>1, CurrentIs DEF BuildInv
  <2> HIDE DEF n
  <2>2. build'.quiet = build.quiet /\ build'.step = IF n = 1 THEN "deliver" ELSE "check"
    BY <1>1, <1>6, <2>1, NextIs
  <2> QED
    BY <2>2
<1> QED
  BY <1>2, <1>4, <1>5, <1>7 DEF FreshInv

\* What is delivered is what a clean build makes.
LEMMA DeliverFresh ==
    ASSUME BuildInv, FreshInv, Deliver
    PROVE  FreshInv'
<1>1. /\ build.step = "deliver" /\ build' = NoBuild /\ dist' = out[Prog]
      /\ UNCHANGED <<imports, source, out, key>>
  BY DEF Deliver
<1>2. build.quiet /\ KeyTells
  BY <1>1 DEF FreshInv
<1>3. dist' = CleanProg
  BY <1>1, <1>2, ProgramIsClean
<1>4. DeliversFresh'
  BY <1>1, <1>3, CleanStays DEF DeliversFresh
<1>5. KeyTells'
  BY <1>1, <1>2 DEF KeyTells
<1>6. build'.step = "idle"
  BY <1>1, NoBuildIs
<1> QED
  BY <1>4, <1>5, <1>6 DEF FreshInv

\* A torn output has no key, and a torn key is none.
LEMMA StoppedFresh ==
    ASSUME BuildInv, FreshInv, Stopped
    PROVE  FreshInv'
<1>1. /\ build' = NoBuild /\ UNCHANGED <<imports, source, dist, same>>
      /\ \/ UNCHANGED <<out, key>>
         \/ build.step = "compile" /\ out' = [out EXCEPT ![Current] = Torn] /\ UNCHANGED key
         \/ build.step = "store" /\ key' = [key EXCEPT ![Current] = Torn] /\ UNCHANGED out
  BY DEF Stopped
<1>2. build'.step = "idle"
  BY <1>1, NoBuildIs
<1>3. DOMAIN out = Outputs /\ DOMAIN key = Outputs
  BY DEF BuildInv, Shape
<1>4. KeyTells'
  <2> SUFFICES ASSUME NEW o \in Outputs, Whole(key'[o])
               PROVE  out'[o] = key'[o]
    BY DEF KeyTells
  <2>1. CASE UNCHANGED <<out, key>>
    BY <2>1 DEF FreshInv, KeyTells
  <2>2. CASE build.step = "compile" /\ out' = [out EXCEPT ![Current] = Torn] /\ UNCHANGED key
    <3>1. key[Current] = None
      BY <2>2 DEF BuildInv, CurrentOK
    <3>2. o # Current
      BY <2>2, <3>1, KeyIs
    <3> QED
      BY <1>3, <2>2, <3>2 DEF FreshInv, KeyTells
  <2>3. CASE build.step = "store" /\ key' = [key EXCEPT ![Current] = Torn] /\ UNCHANGED out
    <3>1. o # Current
      BY <1>3, <2>3, KeyIs
    <3> QED
      BY <1>3, <2>3, <3>1 DEF FreshInv, KeyTells
  <2> QED
    BY <1>1, <2>1, <2>2, <2>3
<1>5. DeliversFresh'
  BY <1>1, CleanStays DEF FreshInv, DeliversFresh
<1> QED
  BY <1>2, <1>4, <1>5 DEF FreshInv

\* Between builds an edit makes what was delivered old.
LEMMA EditFresh ==
    ASSUME EditsWhileBuilding = FALSE, BuildInv, FreshInv,
           NEW m \in Modules, NEW v \in Versions, Edit(m, v)
    PROVE  FreshInv'
<1>1. /\ build.step = "idle" /\ same' = FALSE /\ build' = [build EXCEPT !.quiet = FALSE]
      /\ UNCHANGED <<out, key>>
      /\ IsBuild(build)
  BY DEF Edit, BuildInv, Shape, IsBuild
<1>2. build' = [step |-> build.step, order |-> build.order, todo |-> build.todo,
                key |-> build.key, quiet |-> FALSE]
  BY <1>1, FieldSet
<1>3. build'.step = "idle"
  BY <1>1, <1>2, BuildFields
<1>4. KeyTells' /\ DeliversFresh'
  BY <1>1 DEF FreshInv, KeyTells, DeliversFresh
<1> QED
  BY <1>3, <1>4 DEF FreshInv

\* A project that was never built.
LEMMA FreshInit == BuildInit => FreshInv
<1> SUFFICES ASSUME BuildInit
             PROVE  FreshInv
  OBVIOUS
<1>1. key = [o \in Outputs |-> None] /\ build = NoBuild /\ same = FALSE
  BY DEF BuildInit, BuildBegins
<1>2. build.step = "idle"
  BY <1>1, NoBuildIs
<1>3. KeyTells
  BY <1>1, KeyIs DEF KeyTells
<1> QED
  BY <1>1, <1>2, <1>3 DEF FreshInv, DeliversFresh

\* Every step keeps it.
LEMMA FreshNext ==
    ASSUME EditsWhileBuilding = FALSE
    PROVE  BuildInv /\ FreshInv /\ [BuildNext]_buildVars => FreshInv'
<1> SUFFICES ASSUME BuildInv, FreshInv, [BuildNext]_buildVars
             PROVE  FreshInv'
  OBVIOUS
<1>1. CASE BeginBuild \/ PlaceUnit \/ ReportCycle \/ Ordered \/ Reuse \/ CompileFails
  BY <1>1, QuietSteps
<1>2. CASE Drop
  BY <1>2, DropFresh
<1>3. CASE Compile
  BY <1>3, CompileFresh
<1>4. CASE Store
  BY <1>4, StoreFresh
<1>5. CASE Deliver
  BY <1>5, DeliverFresh
<1>6. CASE Stopped
  BY <1>6, StoppedFresh
<1>7. CASE \E m \in Modules, v \in Versions : Edit(m, v)
  BY <1>7, EditFresh
<1>8. CASE UNCHANGED buildVars
  <2>1. UNCHANGED <<imports, source, out, key, dist, build, same>>
    BY <1>8 DEF buildVars
  <2>2. Current' = Current
    BY <2>1 DEF Current
  <2>3. KeyTells'
    BY <2>1 DEF FreshInv, KeyTells
  <2>4. DeliversFresh'
    BY <2>1, CleanStays DEF FreshInv, DeliversFresh
  <2>5. build'.quiet \/ build'.step = "idle"
    BY <2>1 DEF FreshInv
  <2>6. build'.step = "store" => out'[Current'] = KeyIn(imports', source', out', out', Current')
    BY <2>1, <2>2 DEF FreshInv
  <2> QED
    BY <2>3, <2>4, <2>5, <2>6 DEF FreshInv
<1> QED
  BY <1>1, <1>2, <1>3, <1>4, <1>5, <1>6, <1>7, <1>8 DEF BuildNext

\* When no source changes during a build, and for any modules, imports, sources and
\* stops: the key beside an output names what it was made from also after a compile
\* that failed or was killed (cache_drop, cache_store), unit_order puts a module
\* after its imports and gives up only at a cycle, and what is delivered is what a
\* build from nothing would make.
THEOREM CacheAlwaysSound ==
    ASSUME EditsWhileBuilding = FALSE
    PROVE  BuildSpec => []CacheSound
<1>1. BuildInit => FreshInv
  BY FreshInit
<1>2. BuildInv /\ FreshInv /\ [BuildNext]_buildVars => FreshInv'
  BY FreshNext
<1>3. BuildInv /\ FreshInv => CacheSound
  BY OrderIsRight DEF FreshInv, CacheSound
<1> QED
  BY <1>1, <1>2, <1>3, BuildInvariant, PTL DEF BuildSpec
==============================================================================
