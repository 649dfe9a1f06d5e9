------------------------------- MODULE LockOrder -------------------------------
(***************************************************************************)
(* The safety check `lock-order` and the warning `blocking-under-lock` of  *)
(* antic, src/src/antic/sema_lock.c, over the modules of a program: each   *)
(* library is built before the modules that import it and hands them, in   *)
(* its library file (antl_locks.c), the locks its functions take, the      *)
(* edges it adds to the graph of lock orders and the waits its functions   *)
(* reach.  The last module is the program.  Once nothing is refused its    *)
(* functions run on threads.                                               *)
(*                                                                         *)
(* Functions are numbered in the order of the text and locks by their      *)
(* first use.  A place is a path: the function, then the number of the     *)
(* statement in each block around it.  Statements are `sync` of one lock   *)
(* or of two, a call of a function by its name, a call through a table of  *)
(* a function of a synchronized class, which takes the hidden lock, and a  *)
(* wait.  NoLock stands for a Mutex that is no lock of the graph.          *)
(***************************************************************************)
EXTENDS Integers, Sequences, FiniteSets, SequencesExt

CONSTANTS
    Home,       \* Home[f]: the module of function f, in the order of the builds
    NoLock,
    Threads

VARIABLES
    code,       \* code[f]: the hidden lock the function takes, and its body
    reads,      \* reads[m]: the modules whose library files module m reads
    files,      \* the library files of the modules built so far
    cycles,     \* the edges refused
    warned,     \* the places with a warning
    left        \* left[t]: what thread t still does, with the locks it holds

orderVars == <<code, reads, files, cycles, warned, left>>

Fns == 1 .. Len(Home)
Program == Home[Len(Home)]
Named(locks) == Range(locks) \ {NoLock}

\* a is before b in the text: pos_order.
PosBefore(a, b) ==
    \/ \E n \in DOMAIN a : /\ n \in DOMAIN b /\ a[n] < b[n]
                           /\ \A k \in 1 .. n - 1 : a[k] = b[k]
    \/ IsStrictPrefix(a, b)

-----------------------------------------------------------------------------
(* The walk of a body. *)

\* walk_stmt and walk_expr: every statement with the locks of the graph that the
\* code holds there, and whether it holds any lock.
RECURSIVE Places(_, _, _, _)
Places(body, pos, held, locked) ==
    UNION {{[pos |-> Append(pos, i), s |-> body[i], held |-> held, locked |-> locked]}
           \cup IF body[i].k # "sync" THEN {}
                ELSE Places(body[i].body, Append(pos, i),
                            held \cup Named(body[i].locks), TRUE) :
           i \in DOMAIN body}

\* read_function: a function of a synchronized class holds the hidden lock.
FnPlaces(f) ==
    Places(code[f].body, <<f>>, Named(<<code[f].own>>), code[f].own # NoLock)

Calls(f) == {p \in FnPlaces(f) : p.s.k = "call"}
OwnCallees(f) == {p.s.fn : p \in {q \in Calls(f) : Home[q.s.fn] = Home[f]}}

\* take_call and take_lock: the locks a place takes, the callees of its module
\* apart.  library_locks reads those of a library function from its file.
TakenAt(p, m) ==
    CASE p.s.k = "sync" -> Named(p.s.locks)
      [] p.s.k = "table" -> {p.s.lock}
      [] p.s.k = "call" /\ Home[p.s.fn] # m -> files[Home[p.s.fn]].takes[p.s.fn]
      [] OTHER -> {}

Direct(f) == Named(<<code[f].own>>) \cup
             UNION {TakenAt(p, Home[f]) : p \in FnPlaces(f)}

\* Mutant: the locks that callees take through their own calls are left out.
LocksTakenNear(takes) == takes

\* locks_taken, and the marks of find_waits: what the callees of a function have
\* is added to what it has, until nothing changes.
RECURSIVE LocksTaken(_)
LocksTaken(takes) ==
    LET more == [f \in DOMAIN takes |->
                    takes[f] \cup UNION {takes[g] : g \in OwnCallees(f)}]
    IN IF more = takes THEN takes ELSE LocksTaken(more)

-----------------------------------------------------------------------------
(* The graph of lock orders. *)

Edge(m, pos, held, taken) == [m |-> m, pos |-> pos, held |-> held, taken |-> taken]
Pair(e) == <<e.held, e.taken>>

\* site_edges: from each lock a place holds to each lock it takes and does not
\* hold already.
SiteEdges(m, takes) ==
    UNION {LET taken == TakenAt(p, m) \cup
                        IF p.s.k = "call" /\ Home[p.s.fn] = m THEN takes[p.s.fn] ELSE {}
           IN {Edge(m, p.pos, h, l) : h \in p.held, l \in taken \ p.held} :
           p \in UNION {FnPlaces(f) : f \in DOMAIN takes}}

\* edge_order: the edges of the libraries first.
EdgeBefore(a, b) ==
    \/ a.m < b.m
    \/ a.m = b.m /\ PosBefore(a.pos, b.pos)
    \/ a.m = b.m /\ a.pos = b.pos /\ a.held < b.held
    \/ a.m = b.m /\ a.pos = b.pos /\ a.held = b.held /\ a.taken < b.taken

\* find_path: the locks that the pairs lead to from those seen.
RECURSIVE Reached(_, _)
Reached(pairs, seen) ==
    LET more == seen \cup {p[2] : p \in {q \in pairs : q[1] \in seen}}
    IN IF more = seen THEN seen ELSE Reached(pairs, more)

ClosesCycle(pairs, e) == e.held \in Reached(pairs, {e.taken})

\* Mutant: an edge of a library is kept at `main` too.
FindCyclesOwn(m, edges) ==
    LET Add(g, e) ==
            IF \/ Pair(e) \in g.pairs \/ ~ClosesCycle(g.pairs, e) \/ e.m # m
            THEN [g EXCEPT !.kept = @ \cup {e}, !.pairs = @ \cup {Pair(e)}]
            ELSE [g EXCEPT !.refused = @ \cup {e}]
    IN FoldLeft(Add, [kept |-> {}, pairs |-> {}, refused |-> {}],
                SetToSortSeq(edges, EdgeBefore))

\* find_cycles: an edge that closes a cycle is refused and leaves the graph, but
\* for an edge of a library while a library is built.
FindCycles(m, edges) ==
    LET Add(g, e) ==
            IF \/ Pair(e) \in g.pairs
               \/ ~ClosesCycle(g.pairs, e)
               \/ e.m # m /\ m # Program
            THEN [g EXCEPT !.kept = @ \cup {e}, !.pairs = @ \cup {Pair(e)}]
            ELSE [g EXCEPT !.refused = @ \cup {e}]
    IN FoldLeft(Add, [kept |-> {}, pairs |-> {}, refused |-> {}],
                SetToSortSeq(edges, EdgeBefore))

-----------------------------------------------------------------------------
(* The waits. *)

NoWait == <<>>

\* The first wait of a library function, as its file records it.
LibraryWait(p, m) ==
    IF p.s.k = "call" /\ Home[p.s.fn] # m THEN files[Home[p.s.fn]].waits[p.s.fn]
    ELSE NoWait

\* A place that waits itself, or in a library.
WaitAt(p, m) == IF p.s.k = "wait" THEN p.pos ELSE LibraryWait(p, m)

\* find_waits: whether a function reaches a wait, as a set that is empty or not.
WaitMarks(m) ==
    LocksTaken([f \in {g \in Fns : Home[g] = m} |->
                   {"waits" : p \in {q \in FnPlaces(f) : WaitAt(q, m) # NoWait}}])

\* first_wait: a walk of the places of f in the order of the text, which enters
\* each callee once.
RECURSIVE FirstWait(_, _)
FirstWait(f, entered) ==
    LET Look(x, p) ==
            IF x.wait # NoWait THEN x
            ELSE IF WaitAt(p, Home[f]) # NoWait
                 THEN [x EXCEPT !.wait = WaitAt(p, Home[f])]
            ELSE IF p.s.k = "call" /\ Home[p.s.fn] = Home[f] /\ p.s.fn \notin x.entered
                 THEN FirstWait(p.s.fn, x.entered \cup {p.s.fn})
            ELSE x
    IN FoldLeft(Look, [wait |-> NoWait, entered |-> entered],
                SetToSortSeq(FnPlaces(f), LAMBDA p, q : PosBefore(p.pos, q.pos)))

\* warn_waits: a place that waits, or calls what waits, while it holds a lock.
WarnWaits(m, marks) ==
    {p.pos : p \in {q \in UNION {FnPlaces(f) : f \in DOMAIN marks} :
                    q.locked /\ (\/ WaitAt(q, m) # NoWait
                                 \/ /\ q.s.k = "call" /\ Home[q.s.fn] = m
                                    /\ marks[q.s.fn] # {})}}

-----------------------------------------------------------------------------
(* sema_check_lock_order, for the next module.  keep_facts writes its file: of *)
(* the edges it kept only those of its own.                                    *)
Build ==
    LET m == Len(files) + 1
        takes == LocksTaken([f \in {g \in Fns : Home[g] = m} |-> Direct(f)])
        read == UNION {files[n].edges : n \in reads[m]}
        graph == FindCycles(m, read \cup SiteEdges(m, takes))
        marks == WaitMarks(m)
    IN /\ m <= Program
       /\ cycles = {}
       /\ cycles' = graph.refused
       /\ warned' = warned \cup WarnWaits(m, marks)
       /\ files' = Append(files,
              [takes |-> takes,
               edges |-> {e \in graph.kept : e.m = m},
               waits |-> [f \in DOMAIN takes |->
                             IF marks[f] = {} THEN NoWait
                             ELSE FirstWait(f, {f}).wait]])
       /\ UNCHANGED <<code, reads, left>>

-----------------------------------------------------------------------------
(* What the program does.  A function that runs gives events: it takes a lock  *)
(* and gives it back, but for one it holds, and it waits.  A function does not *)
(* enter itself again, as each of its locks would be held.                     *)

Take(l) == [e |-> "take", lock |-> l]
Give(l) == [e |-> "give", lock |-> l]

\* The events between taking and giving back locks that were not held.
Within(locks, held, events) ==
    LET new == SetToSortSeq(Named(locks) \ held, <)
    IN [i \in DOMAIN new |-> Take(new[i])] \o events \o
       [i \in DOMAIN new |-> Give(Reverse(new)[i])]

RECURSIVE Events(_, _, _, _, _)
Events(body, pos, held, locked, frames) ==
    FlattenSeq([i \in DOMAIN body |->
        LET s == body[i]
            at == Append(pos, i)
            here == Append(frames, [pos |-> at, locked |-> locked])
        IN CASE s.k = "sync" ->
                  Within(s.locks, held,
                         Events(s.body, at, held \cup Named(s.locks), TRUE, frames))
             [] s.k = "table" -> Within(<<s.lock>>, held, <<>>)
             [] s.k = "wait" -> <<[e |-> "wait", frames |-> here]>>
             [] s.k = "call" ->
                  IF \E n \in DOMAIN here : here[n].pos[1] = s.fn THEN <<>>
                  ELSE Within(<<code[s.fn].own>>, held,
                              Events(code[s.fn].body, <<s.fn>>,
                                     held \cup Named(<<code[s.fn].own>>),
                                     code[s.fn].own # NoLock, here))])

Run(f) ==
    LET own == code[f].own
    IN Within(<<own>>, {}, Events(code[f].body, <<f>>, Named(<<own>>), own # NoLock, <<>>))

\* The locks held after the first n events, and the orders a run takes them in.
HeldAfter(run, n) ==
    FoldLeft(LAMBDA h, x : CASE x.e = "take" -> h \cup {x.lock}
                             [] x.e = "give" -> h \ {x.lock}
                             [] OTHER -> h,
             {}, SubSeq(run, 1, n))

Orders(run) ==
    UNION {{<<h, run[n].lock>> : h \in HeldAfter(run, n - 1)} :
           n \in {k \in DOMAIN run : run[k].e = "take"}}

\* `sync` of two different locks: they are taken in the order of their addresses.
Pairs(f) == {p \in FnPlaces(f) : p.s.k = "sync" /\ Cardinality(Named(p.s.locks)) = 2}

Built == Len(files) = Program
Idle == [todo |-> <<>>, held |-> {}]
Free(l, t) == \A u \in Threads \ {t} : l \notin left[u].held

\* Each thread begins a function of the program.
Start ==
    /\ Built /\ cycles = {}
    /\ \A t \in Threads : left[t] = Idle
    /\ \E fs \in [Threads -> Fns] :
         left' = [t \in Threads |-> [todo |-> Run(fs[t]), held |-> {}]]
    /\ UNCHANGED <<code, reads, files, cycles, warned>>

\* Thread t does its next event, once the lock is free.
Step(t) ==
    /\ left[t].todo # <<>>
    /\ LET x == Head(left[t].todo)
       IN /\ x.e = "take" => Free(x.lock, t)
          /\ left' = [left EXCEPT ![t] =
                 [todo |-> Tail(@.todo),
                  held |-> CASE x.e = "take" -> @.held \cup {x.lock}
                             [] x.e = "give" -> @.held \ {x.lock}
                             [] OTHER -> @.held]]
    /\ UNCHANGED <<code, reads, files, cycles, warned>>

\* The code and its imports are the only free choices.
OrderBegins(c, r) ==
    /\ code = c /\ reads = r /\ files = <<>> /\ cycles = {} /\ warned = {}
    /\ left = [t \in Threads |-> Idle]

OrderNext == Build \/ Start \/ \E t \in Threads : Step(t)

-----------------------------------------------------------------------------
(* Properties *)

Ready == Built /\ \A t \in Threads : left[t] = Idle
Kept == {Pair(e) : e \in UNION {files[m].edges : m \in DOMAIN files}}
Cyclic(pairs) == \E p \in pairs : p[1] \in Reached(pairs, {p[2]})

\* The threads of a program that antic accepted never wait for each other in a
\* circle, over any calls and library files: what the graph of find_cycles is
\* for.  `sync a, b` adds no edge by design, so programs with one are left out.
NoLockCycle ==
    (\A f \in Fns : Pairs(f) = {}) =>
    ~ \E stuck \in SUBSET Threads :
        /\ stuck # {}
        /\ \A t \in stuck :
             /\ left[t].todo # <<>> /\ Head(left[t].todo).e = "take"
             /\ \E u \in stuck \ {t} : Head(left[t].todo).lock \in left[u].held

\* The pairs of locks in the graph of the whole program are those its functions
\* take one after the other when they run, each from the outside: site_edges and
\* locks_taken miss none and invent none, but for `sync a, b`.
OrdersExact ==
    LET within(f) == {<<a, b>> : a, b \in UNION {Named(p.s.locks) : p \in Pairs(f)}}
        run == UNION {Orders(Run(f)) : f \in Fns}
        known == Kept \cup {Pair(e) : e \in cycles}
    IN Ready => /\ known \subseteq run
                /\ run \subseteq known \cup UNION {within(f) : f \in Fns}

\* A program is refused exactly when the orders of its modules make a cycle, also
\* one that no library closes by itself.
RefusedForCycle == Ready => (cycles # {} <=> Cyclic(Kept \cup {Pair(e) : e \in cycles}))

\* Each wait that a run reaches while it holds a lock has a warning at the place
\* that waits or at a call on the way, in whichever module holds the lock.
WaitsWarned ==
    Ready => \A f \in Fns : \A x \in Range(Run(f)) :
        x.e = "wait" /\ (\E k \in DOMAIN x.frames : x.frames[k].locked)
        => \E k \in DOMAIN x.frames : x.frames[k].pos \in warned

\* The wait a library file records of a function is the first one the function
\* reaches when it runs, through calls and recursion.
FirstWaitTrue ==
    Ready => \A f \in Fns :
        LET waits == SelectSeq(Run(f), LAMBDA x : x.e = "wait")
        IN files[Home[f]].waits[f] =
             IF waits = <<>> THEN NoWait ELSE Last(waits[1].frames).pos

\* What the checks of sema_lock.c say of a program is what its runs do: the orders
\* recorded, the programs refused, the waits warned of and the waits on file.
LockCheckExact == OrdersExact /\ RefusedForCycle /\ WaitsWarned /\ FirstWaitTrue
==============================================================================
