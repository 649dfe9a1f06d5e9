------------------------------- MODULE BuildCache -------------------------------
(***************************************************************************)
(* A dev build of a project by `anti build` and the files it keeps between *)
(* runs: src/src/anti/build.c, cache.c, files.c and units.c.  A build      *)
(* orders the modules, then brings each output up to date: the library     *)
(* file of every module, the object of every module but the one with       *)
(* `main`, and the program, which it delivers to dist/.  An output is      *)
(* reused when the key beside it is the key the run would write.           *)
(*                                                                         *)
(* A digest is what it is of, so a key and an output have one form: the    *)
(* input, the library files reached through imports and, for the program,  *)
(* the objects.  The compiler writes an output in place, and the key of an *)
(* output is written in place after it.  A build can be killed or can fail *)
(* at every step, and sources change between its steps or between builds.  *)
(***************************************************************************)
EXTENDS Integers, Sequences, FiniteSets, SequencesExt

CONSTANTS
    N,                  \* the modules 1 .. N, in the order of their paths
    Versions,           \* the texts a source can have
    Bad,                \* the version that does not compile
    MaxEdits,           \* bound: changes of a source
    MaxStops,           \* bound: builds that are killed or fail
    EditsWhileBuilding  \* whether sources change during a build

ASSUME BuildAssumption ==
    /\ N \in Nat \ {0} /\ Bad \in Versions
    /\ MaxEdits \in Nat /\ MaxStops \in Nat
    /\ EditsWhileBuilding \in BOOLEAN

VARIABLES
    imports,    \* imports[m]: the modules that module m imports
    source,     \* source[m]: the text of module m
    out,        \* out[o]: the output o as it stands
    key,        \* key[o]: the key beside it
    dist,       \* the program in dist/
    build,      \* the build that runs: its step, order, output and key
    same,       \* whether a build delivered and no source changed since it began
    edits,
    stops

buildVars == <<imports, source, out, key, dist, build, same, edits, stops>>

Modules == 1 .. N
Main == N
Outputs == [kind : {"lib"}, m : Modules] \cup [kind : {"obj"}, m : Modules \ {Main}]
           \cup [kind : {"prog"}, m : {Main}]
Lib(m) == [kind |-> "lib", m |-> m]
Obj(m) == [kind |-> "obj", m |-> m]
Prog == [kind |-> "prog", m |-> Main]

\* A file that is not there, and one that was not written to its end.
None == [is |-> "none"]
Torn == [is |-> "torn"]
Text(v) == [is |-> "text", of |-> v]
Whole(f) == f.is \notin {"none", "torn"}

\* The modules that m reaches through imports: driver_libraries.
Closed(X) == \A i \in X : imports[i] \subseteq X
Closure(m) ==
    {i \in Modules \ {m} :
        \A X \in SUBSET Modules : imports[m] \subseteq X /\ Closed(X) => i \in X}

\* cache_imports: the digest of each library file that is reached.
ReadFrom(m) == [i \in Closure(m) |-> out[Lib(i)]]

\* What the compile of o takes as its input.
Input(o) == IF o.kind = "obj" THEN out[Lib(o.m)] ELSE Text(source[o.m])

Objects == {Obj(m) : m \in Modules \ {Main}}

\* Mutant: the key leaves the imports out.
KeyOfAlone(o, input) ==
    [is |-> "made", kind |-> o.kind, input |-> input, from |-> <<>>,
     objects |-> IF o.kind # "prog" THEN <<>> ELSE [p \in Objects |-> key[p]]]

\* cache_key, imports_key and, for the program, cache_key_of of each object.
KeyOf(o, input) ==
    [is |-> "made", kind |-> o.kind, input |-> input, from |-> ReadFrom(o.m),
     objects |-> IF o.kind # "prog" THEN <<>> ELSE [p \in Objects |-> key[p]]]

\* driver_run: what the compile or the link makes of what stands now.
Made(o) ==
    [is |-> "made", kind |-> o.kind, input |-> Input(o), from |-> ReadFrom(o.m),
     objects |-> IF o.kind # "prog" THEN <<>> ELSE [p \in Objects |-> out[p]]]

-----------------------------------------------------------------------------
(* The order of the modules. *)

NoBuild == [step |-> "idle", order |-> <<>>, todo |-> <<>>, key |-> None,
            quiet |-> TRUE]

Placed == Range(build.order)

\* No module it imports waits, itself apart: unit_waiting.
ReadyUnits == {m \in Modules \ Placed : imports[m] \ {m} \subseteq Placed}

\* unit_order passes over the modules until a pass places none: the next one it
\* places is the first that is ready after the last one placed, or the first of
\* the next pass.
NextUnit ==
    LET last == IF build.order = <<>> THEN 0 ELSE Last(build.order)
        later == {m \in ReadyUnits : m > last}
        pass == IF later # {} THEN later ELSE ReadyUnits
    IN {m \in pass : \A k \in pass : m <= k}

BeginBuild ==
    /\ build.step = "idle"
    /\ build' = [NoBuild EXCEPT !.step = "order"]
    /\ UNCHANGED <<imports, source, out, key, dist, same, edits, stops>>

PlaceUnit ==
    /\ build.step = "order"
    /\ \E m \in NextUnit : build' = [build EXCEPT !.order = Append(@, m)]
    /\ UNCHANGED <<imports, source, out, key, dist, same, edits, stops>>

\* unit_report_cycle: the build ends.
ReportCycle ==
    /\ build.step = "order"
    /\ NextUnit = {} /\ Placed # Modules
    /\ build' = NoBuild
    /\ UNCHANGED <<imports, source, out, key, dist, same, edits, stops>>

\* build_target and build_dev: the outputs in the order they are made.
Plan ==
    [i \in DOMAIN build.order |-> Lib(build.order[i])]
    \o [m \in 1 .. N - 1 |-> Obj(m)]
    \o <<Prog>>

Ordered ==
    /\ build.step = "order" /\ Placed = Modules
    /\ build' = [build EXCEPT !.step = "check", !.todo = Plan]
    /\ UNCHANGED <<imports, source, out, key, dist, same, edits, stops>>

-----------------------------------------------------------------------------
(* One output: module_library, object_compile, and program_reuse with the link. *)

Current == Head(build.todo)

NextOutput(b) ==
    IF Len(b.todo) = 1 THEN [b EXCEPT !.todo = <<>>, !.step = "deliver"]
    ELSE [b EXCEPT !.todo = Tail(@), !.step = "check", !.key = None]

\* cache_holds: the output stands, a library file can be read, and the key is k.
Holds(o, k) ==
    /\ IF o.kind = "lib" THEN Whole(out[o]) ELSE out[o] # None
    /\ key[o] = k

\* The output is as the key says, and stays.
Reuse ==
    /\ build.step = "check" /\ Holds(Current, KeyOf(Current, Input(Current)))
    /\ build' = NextOutput(build)
    /\ UNCHANGED <<imports, source, out, key, dist, same, edits, stops>>

\* cache_drop removes the old key before the compile.
Drop ==
    /\ build.step = "check" /\ ~Holds(Current, KeyOf(Current, Input(Current)))
    /\ build' = [build EXCEPT !.step = "compile", !.key = KeyOf(Current, Input(Current))]
    /\ key' = [key EXCEPT ![Current] = None]
    /\ UNCHANGED <<imports, source, out, dist, same, edits, stops>>

\* driver_run reads its input again.
Compile ==
    /\ build.step = "compile"
    /\ Input(Current) # Text(Bad)
    /\ out' = [out EXCEPT ![Current] = Made(Current)]
    /\ build' = [build EXCEPT !.step = "store"]
    /\ UNCHANGED <<imports, source, key, dist, same, edits, stops>>

\* An error in the source: the output that stands stays.
CompileFails ==
    /\ build.step = "compile"
    /\ Input(Current) = Text(Bad)
    /\ build' = NoBuild
    /\ UNCHANGED <<imports, source, out, key, dist, same, edits, stops>>

\* Mutant: an object gets no key.
StoreSome ==
    /\ build.step = "store"
    /\ key' = [key EXCEPT ![Current] = IF Current.kind = "obj" THEN None
                                       ELSE KeyOf(Current, build.key.input)]
    /\ build' = NextOutput(build)
    /\ UNCHANGED <<imports, source, out, dist, same, edits, stops>>

\* cache_store.  The key of a library file takes the imports it names after the
\* compile.
Store ==
    /\ build.step = "store"
    /\ key' = [key EXCEPT ![Current] = IF Current.kind = "lib"
                                       THEN KeyOf(Current, build.key.input)
                                       ELSE build.key]
    /\ build' = NextOutput(build)
    /\ UNCHANGED <<imports, source, out, dist, same, edits, stops>>

\* copy_into: the program goes to a file beside the one in dist/ and takes its
\* name, so that one is replaced at once.
Deliver ==
    /\ build.step = "deliver"
    /\ dist' = out[Prog]
    /\ same' = build.quiet
    /\ build' = NoBuild
    /\ UNCHANGED <<imports, source, out, key, edits, stops>>

-----------------------------------------------------------------------------
(* What goes wrong, and what the user does. *)

\* The build is killed, or a write fails: what it writes in place stays as far as it
\* came.
Stopped ==
    /\ stops < MaxStops /\ build.step # "idle"
    /\ \/ UNCHANGED <<out, key>>
       \/ build.step = "compile" /\ out' = [out EXCEPT ![Current] = Torn] /\ UNCHANGED key
       \/ build.step = "store" /\ key' = [key EXCEPT ![Current] = Torn] /\ UNCHANGED out
    /\ build' = NoBuild /\ stops' = stops + 1
    /\ UNCHANGED <<imports, source, dist, same, edits>>

Edit(m, v) ==
    /\ edits < MaxEdits /\ source[m] # v
    /\ EditsWhileBuilding \/ build.step = "idle"
    /\ source' = [source EXCEPT ![m] = v]
    /\ edits' = edits + 1 /\ same' = FALSE /\ build' = [build EXCEPT !.quiet = FALSE]
    /\ UNCHANGED <<imports, out, key, dist, stops>>

-----------------------------------------------------------------------------
\* A project that was never built.
BuildBegins(g, s) ==
    /\ imports = g /\ source = s
    /\ out = [o \in Outputs |-> None] /\ key = [o \in Outputs |-> None]
    /\ dist = None /\ build = NoBuild /\ same = FALSE /\ edits = 0 /\ stops = 0

BuildInit ==
    \E g \in [Modules -> SUBSET Modules], s \in [Modules -> Versions] : BuildBegins(g, s)

BuildNext ==
    \/ BeginBuild \/ PlaceUnit \/ ReportCycle \/ Ordered
    \/ Reuse \/ Drop \/ Compile \/ CompileFails \/ Store \/ Deliver
    \/ Stopped
    \/ \E m \in Modules, v \in Versions : Edit(m, v)

BuildSpec == BuildInit /\ [][BuildNext]_buildVars

-----------------------------------------------------------------------------
(* Properties *)

\* A clean build of module m and of the program, from the sources as they are.
CleanLib ==
    LET Clean[m \in Modules] ==
            [is |-> "made", kind |-> "lib", input |-> Text(source[m]),
             from |-> [i \in Closure(m) |-> Clean[i]], objects |-> <<>>]
    IN Clean
CleanObj(m) ==
    [is |-> "made", kind |-> "obj", input |-> CleanLib[m],
     from |-> [i \in Closure(m) |-> CleanLib[i]], objects |-> <<>>]
CleanProg ==
    [is |-> "made", kind |-> "prog", input |-> Text(source[Main]),
     from |-> [i \in Closure(Main) |-> CleanLib[i]],
     objects |-> [p \in Objects |-> CleanObj(p.m)]]

\* The key beside an output names what the output was made from, also after a
\* compile that failed halfway or was killed: "a compile that fails halfway leaves
\* no key the next run trusts", cache.c.
KeyTells == \A o \in Outputs : Whole(key[o]) => out[o] = key[o]

\* A build that delivers leaves in dist/ what a build from nothing would make of
\* the sources, whatever the builds before it did and where they stopped.
DeliversFresh == same => dist = CleanProg

\* A build after one that delivered compiles nothing when no source changed.
NothingAgain == same => build.step \notin {"compile", "store"}

\* unit_order puts each module after all it imports, and ends with a cycle only when
\* the imports make one.
OrderRight ==
    /\ \A i \in DOMAIN build.order : imports[build.order[i]] \ {build.order[i]}
           \subseteq {build.order[k] : k \in 1 .. i - 1}
    /\ build.step = "order" /\ NextUnit = {} /\ Placed # Modules
       => \E c \in SUBSET (Modules \ Placed) :
             c # {} /\ \A m \in c : imports[m] \cap (c \ {m}) # {}

\* A cache that builds may trust after any edits, failures and kills (cache.c,
\* build.c, units.c): its keys tell what made its outputs, modules compile after
\* what they import, and what is delivered is made of the sources.
CacheSound == KeyTells /\ OrderRight /\ DeliversFresh
==============================================================================
