------------------------------- MODULE PathChecks -------------------------------
(***************************************************************************)
(* The safety checks `use-after-free` and `uninitialized-read` of antic,   *)
(* src/src/antic/sema_free.c and src/src/antic/sema_uninit.c.  Both walk   *)
(* the body of a function once, along every path at the same time: they    *)
(* join the states of paths that meet, walk the body of a loop twice and   *)
(* read a `defer` or an `undo` at each exit that runs it.                  *)
(*                                                                         *)
(* A state of a path is the set of its faults.  For use-after-free it says *)
(* that the value x is dead.  For uninitialized-read it holds the keys of  *)
(* the buffer p that are not written: the constant index, the local i, any *)
(* computed index of this turn, and FOLLOWED while p is followed.  So both *)
(* join by union.  Conditions are free, and an expression is a statement   *)
(* of its own.                                                             *)
(*                                                                         *)
(* The reference follows each path by itself, and loops until no turn      *)
(* brings a new state.  For uninitialized-read it takes two rules over from*)
(* docs/decisions.md:3230: a loop counts as a write of the whole range when*)
(* every turn of it writes at a computed index, and the path after a loop  *)
(* is one on which it ran once at least.  It does not follow the path on   *)
(* which a loop that fills takes no turn.                                  *)
(***************************************************************************)
EXTENDS Integers, Sequences, FiniteSets, SequencesExt

VARIABLES
    check,      \* "free" or "fill"
    body,       \* the body of the function
    refused,    \* the places refused so far
    done        \* whether the check has run

DEAD == "dead"
FOLLOWED == "followed"
CONSTANT_KEY == "constant"
NAME_KEY == "name"
ANY_KEY == "any"

AllKeys == {FOLLOWED, CONSTANT_KEY, NAME_KEY, ANY_KEY}

Op(op) == [k |-> "op", op |-> op]

\* Whether the operation is refused on a path with these faults.  A read at a
\* computed index that names no local finds no key, so it is refused as long as
\* the buffer is followed.
Wrong(op, bad) ==
    \/ op \in {"use", "delete"} /\ DEAD \in bad
    \/ op = "read" /\ CONSTANT_KEY \in bad
    \/ op = "read_name" /\ NAME_KEY \in bad
    \/ op = "read_any" /\ FOLLOWED \in bad

\* kill and revive of use-after-free.
Killed(op, bad) ==
    CASE op = "delete" -> {DEAD}
      [] op = "assign" -> {}
      [] OTHER -> bad

\* write_element: at a constant index, at the local i, or at another computed one.
Written(op, bad) ==
    CASE op = "write" -> bad \ {CONSTANT_KEY}
      [] op = "write_name" -> bad \ {NAME_KEY, ANY_KEY}
      [] op = "write_any" -> bad \ {ANY_KEY}
      [] OTHER -> bad

\* bind and leave_buffer.  `set` gives the local i another value, which drops the
\* key of every buffer that is followed.
Bound(op, bad) ==
    CASE op = "alloc" -> AllKeys
      [] op = "set" -> IF FOLLOWED \in bad THEN bad \cup {NAME_KEY} ELSE bad
      [] op = "leave" -> {}
      [] OTHER -> bad

\* The faults after the operation.
After(op, bad) == Killed(op, Written(op, Bound(op, bad)))

-----------------------------------------------------------------------------
(* The states of the walk. *)

NoPath == [live |-> FALSE, bad |-> {}, told |-> {}]
Live == [live |-> TRUE, bad |-> {}, told |-> {}]

\* Mutant: the path that comes first goes on.
JoinFirst(p, q) == IF p.live THEN p ELSE q

\* state_join.  told are the faults a message was given for.
Join(p, q) ==
    IF ~q.live THEN p ELSE IF ~p.live THEN q
    ELSE [live |-> TRUE, bad |-> p.bad \cup q.bad,
          told |-> (p.told \ (q.bad \ p.bad)) \cup (q.told \cap (q.bad \ p.bad))]

Targets == {"break", "continue", "error", "yield", "fall"}

Walk0(c) ==
    [c |-> c, now |-> Live, to |-> [t \in Targets |-> NoPath],
     base |-> [t \in Targets |-> 0], pend |-> <<>>, depth |-> 0,
     quiet |-> FALSE, exiting |-> FALSE, refused |-> {}]

\* refuse of use-after-free: one message for a death, and one for a place that
\* several exits read.
RefuseUse(w, pos) ==
    IF w.quiet \/ DEAD \in w.now.told \/ (w.exiting /\ pos \in w.refused) THEN w
    ELSE [w EXCEPT !.refused = @ \cup {pos}, !.now.told = @ \cup {DEAD}]

\* read_element that finds no key: the buffer is followed no longer.
RefuseRead(w, pos) ==
    [w EXCEPT !.refused = IF w.quiet THEN @ ELSE @ \cup {pos}, !.now.bad = {}]

WalkOp(op, pos, w) ==
    LET told == IF ~Wrong(op, w.now.bad) THEN w
                ELSE IF w.c = "free" THEN RefuseUse(w, pos) ELSE RefuseRead(w, pos)
    IN [told EXCEPT !.now.bad = After(op, @)]

\* The path ends here, and the target takes it.
LeaveTo(w, t) == [w EXCEPT !.to[t] = Join(@, w.now), !.now = NoPath]

RECURSIVE WalkStmt(_, _, _), WalkBlock(_, _, _)

\* The statements an exit runs: of the innermost block first, in each block the
\* undo statements of an error first, and the last declared first.
ExitOrder(w, base, failing) ==
    SetToSortSeq({i \in base + 1 .. Len(w.pend) : failing \/ ~w.pend[i].undo},
                 LAMBDA i, j : LET a == w.pend[i] b == w.pend[j]
                               IN \/ a.block > b.block
                                  \/ a.block = b.block /\ a.undo /\ ~b.undo
                                  \/ a.block = b.block /\ a.undo = b.undo /\ i > j)

\* run_exits: from a copy of the state, which the path goes on without.
RunExits(w, base, failing) ==
    IF w.exiting \/ ~w.now.live THEN w
    ELSE LET inner == FoldLeft(LAMBDA x, i : WalkStmt(w.pend[i].s, w.pend[i].pos, x),
                               [w EXCEPT !.exiting = TRUE],
                               ExitOrder(w, base, failing))
         IN [w EXCEPT !.refused = inner.refused]

\* A block of its own, as the handler of an error, whose paths at their end and
\* at every yield join the state given.
WalkHandler(b, pos, w, ok) ==
    LET in == WalkBlock(b, pos, [w EXCEPT !.to["yield"] = NoPath,
                                          !.base["yield"] = Len(w.pend)])
    IN [in EXCEPT !.now = Join(Join(ok, in.now), in.to["yield"]),
                  !.to["yield"] = w.to["yield"], !.base["yield"] = w.base["yield"]]

\* The handler of a call: `try`, the try block around it, or a block.
WalkCall(s, pos, w) ==
    CASE s.h = "try" -> RunExits(w, 0, TRUE)
      [] s.h = "enclosing" ->
           LET out == RunExits(w, w.base["error"], TRUE)
           IN [out EXCEPT !.to["error"] = Join(@, w.now)]
      [] s.h = "block" -> WalkHandler(s.a, pos, w, w.now)

WalkIf(s, pos, w) ==
    LET then == WalkBlock(s.a, Append(pos, 1), w)
        else == WalkBlock(s.b, Append(pos, 2), [then EXCEPT !.now = w.now])
    IN [else EXCEPT !.now = Join(then.now, @)]

\* walk_arms: each arm from the state before it and from the arm that falls
\* through to it.  A switch may match no arm, a select may not.
WalkArms(s, pos, w) ==
    LET fresh == [w EXCEPT !.to["fall"] = NoPath, !.base["fall"] = Len(w.pend)]
        Arm(x, i) ==
            LET in == WalkBlock(s.arms[i], Append(pos, i),
                                [x.w EXCEPT !.now = Join(w.now, x.w.to["fall"]),
                                            !.to["fall"] = NoPath])
            IN [w |-> in, after |-> Join(x.after, in.now)]
        last == FoldLeft(Arm, [w |-> fresh, after |-> NoPath],
                         [i \in DOMAIN s.arms |-> i])
        none == IF s.select THEN NoPath ELSE Join(w.now, last.w.to["fall"])
    IN [last.w EXCEPT !.now = Join(last.after, none),
                      !.to["fall"] = w.to["fall"], !.base["fall"] = w.base["fall"]]

\* one_turn.  A computed write counts for the turn that makes it.
OneTurn(s, pos, w) ==
    LET in == WalkBlock(s.a, pos,
                 [w EXCEPT !.to["break"] = NoPath, !.to["continue"] = NoPath,
                           !.base["break"] = Len(w.pend),
                           !.base["continue"] = Len(w.pend),
                           !.now.bad = IF FOLLOWED \in @ THEN @ \cup {ANY_KEY} ELSE @])
    IN [in EXCEPT !.now = Join(@, in.to["continue"])]

\* The path that leaves a loop at its head or its tail.  Of a buffer it has what
\* the end of a turn wrote, and the whole range when every turn writes at a
\* computed index or lets the buffer leave.
LoopExit(c, exit, end) ==
    IF c = "free" \/ ~end.live \/ FOLLOWED \notin exit.bad THEN exit
    ELSE [exit EXCEPT !.bad = IF ANY_KEY \in end.bad THEN end.bad ELSE {}]

\* Mutant: the body is walked once.
WalkLoopOnce(s, pos, w) ==
    LET turn == OneTurn(s, pos, w)
        exit == CASE s.leaves = "head" -> w.now [] s.leaves = "tail" -> turn.now
                  [] OTHER -> NoPath
        after == IF exit.live THEN LoopExit(w.c, exit, turn.now) ELSE exit
    IN [turn EXCEPT !.now = Join(after, turn.to["break"]),
                    !.to["break"] = w.to["break"], !.to["continue"] = w.to["continue"],
                    !.base = w.base]

\* walk_loop: the first walk of the body is quiet and gives the end of a turn, the
\* second starts from its join with the state before the loop.
WalkLoop(s, pos, w) ==
    LET first == OneTurn(s, pos, [w EXCEPT !.quiet = TRUE])
        entry == Join(w.now, first.now)
        turn == OneTurn(s, pos, [first EXCEPT !.quiet = w.quiet, !.now = entry])
        exit == CASE s.leaves = "head" -> entry [] s.leaves = "tail" -> turn.now
                  [] OTHER -> NoPath
        after == IF exit.live THEN LoopExit(w.c, exit, turn.now) ELSE exit
    IN [turn EXCEPT !.now = Join(after, turn.to["break"]),
                    !.to["break"] = w.to["break"], !.to["continue"] = w.to["continue"],
                    !.base = w.base]

\* walk_try: each failing call of the body reaches the handler with its state.
WalkTry(s, pos, w) ==
    LET in == WalkBlock(s.a, Append(pos, 1),
                 [w EXCEPT !.to["error"] = NoPath, !.base["error"] = Len(w.pend)])
        out == [in EXCEPT !.to["error"] = w.to["error"],
                          !.base["error"] = w.base["error"]]
    IN IF ~in.to["error"].live THEN out
       ELSE WalkHandler(s.b, Append(pos, 2), [out EXCEPT !.now = in.to["error"]],
                        in.now)

\* The statements that leave.
WalkExit(to, w) ==
    CASE to = "return" -> [RunExits(w, 0, FALSE) EXCEPT !.now = NoPath]
      [] to = "fail" -> [RunExits(w, 0, TRUE) EXCEPT !.now = NoPath]
      [] OTHER -> LeaveTo(RunExits(w, w.base[to], FALSE), to)

WalkStmt(s, pos, w) ==
    IF ~w.now.live THEN w
    ELSE CASE s.k = "op" -> WalkOp(s.op, pos, w)
           [] s.k = "if" -> WalkIf(s, pos, w)
           [] s.k = "loop" -> WalkLoop(s, pos, w)
           [] s.k = "try" -> WalkTry(s, pos, w)
           [] s.k = "call" -> WalkCall(s, pos, w)
           [] s.k = "arms" -> WalkArms(s, pos, w)
           [] s.k = "block" -> WalkBlock(s.a, pos, w)
           [] s.k = "exit" -> WalkExit(s.to, w)
           [] s.k = "defer" ->
                [w EXCEPT !.pend = Append(@, [s |-> s.s, pos |-> pos, undo |-> s.undo,
                                              block |-> w.depth])]

\* walk_block: the closing brace is an exit of the block, and never an error.
WalkBlock(b, pos, w) ==
    LET in == FoldLeft(LAMBDA x, i : WalkStmt(b[i], Append(pos, i), x),
                       [w EXCEPT !.depth = @ + 1], [i \in DOMAIN b |-> i])
    IN [RunExits(in, Len(w.pend), FALSE) EXCEPT !.pend = w.pend, !.depth = w.depth]

-----------------------------------------------------------------------------
(* sema_check_frees and sema_check_fills. *)

checkVars == <<check, body, refused, done>>

\* Check c is about to read the body b of a function.
CheckBegins(c, b) == check = c /\ body = b /\ refused = {} /\ done = FALSE

SemaCheck ==
    /\ ~done
    /\ refused' = WalkBlock(body, <<>>, Walk0(check)).refused
    /\ done' = TRUE
    /\ UNCHANGED <<check, body>>

CheckNext == SemaCheck

-----------------------------------------------------------------------------
(* The reference: every path by itself.  The paths of a statement from a set of *)
(* states are outcomes, each with where it goes, the state it goes on with and  *)
(* the state the statements of its exit have left so far, and the places where  *)
(* a path does what is wrong.                                                   *)

Outcome(to, bad, left) == [to |-> to, bad |-> bad, left |-> left]
Onward(bads) == {Outcome("next", b, b) : b \in bads}
StatesTo(outs, tos) == {o.bad : o \in {q \in outs : q.to \in tos}}

\* What the exit of outcome o does in block b, whose first n statements ran.
Leaving(b, pos, n, o) ==
    LET failing == o.to \in {"fail", "error"}
        mine == {i \in 1 .. n : b[i].k = "defer" /\ (failing \/ ~b[i].undo)}
        order == SetToSortSeq(mine, LAMBDA i, j :
                     (b[i].undo /\ ~b[j].undo) \/ (b[i].undo = b[j].undo /\ i > j))
        Do(x, i) == [left |-> After(b[i].s.op, x.left),
                     seen |-> x.seen \cup IF Wrong(b[i].s.op, x.left)
                                          THEN {Append(pos, i)} ELSE {}]
    IN FoldLeft(Do, [left |-> o.left, seen |-> {}], order)

RECURSIVE PathsStmt(_, _, _, _), PathsBlock(_, _, _, _)

\* The heads of a loop that begins in states bads, after any number of turns.
RECURSIVE Heads(_, _, _, _)
Heads(c, s, pos, bads) ==
    LET begun == {IF FOLLOWED \in b THEN b \cup {ANY_KEY} ELSE b : b \in bads}
        ends == StatesTo(PathsBlock(c, s.a, pos, begun).outs, {"next", "continue"})
    IN IF ends \subseteq bads THEN [begun |-> begun, heads |-> bads, ends |-> ends]
       ELSE Heads(c, s, pos, bads \cup ends)

\* The two rules of docs/decisions.md:3230 on a loop whose turns end in states
\* ends: the path that leaves it at its head or tail took a turn, and has the whole
\* range when every turn wrote at a computed index or let the buffer leave.
Turned(ends) == IF \A e \in ends : ANY_KEY \notin e THEN {{}} ELSE ends

PathsLoop(c, s, pos, bads) ==
    LET h == Heads(c, s, pos, bads)
        in == PathsBlock(c, s.a, pos, h.begun)
        exits == CASE s.leaves = "never" -> {}
                   [] c = "fill" /\ h.ends # {} -> Turned(h.ends)
                   [] s.leaves = "head" -> h.heads
                   [] OTHER -> h.ends
    IN [outs |-> Onward(exits \cup StatesTo(in.outs, {"break"}))
                 \cup {o \in in.outs : o.to \notin {"next", "continue", "break"}},
        seen |-> in.seen]

\* Paths into a handler, whose end and every yield go on.
PathsHandler(c, b, pos, bads) ==
    LET in == PathsBlock(c, b, pos, bads)
    IN [outs |-> Onward(StatesTo(in.outs, {"next", "yield"}))
                 \cup {o \in in.outs : o.to \notin {"next", "yield"}},
        seen |-> in.seen]

Both(x, y) == [outs |-> x.outs \cup y.outs, seen |-> x.seen \cup y.seen]

PathsArms(c, s, pos, bads) ==
    LET Arm(x, i) ==
            LET in == PathsBlock(c, s.arms[i], Append(pos, i), bads \cup x.fell)
            IN [all |-> Both(x.all, [in EXCEPT !.outs = {o \in @ : o.to # "fall"}]),
                fell |-> StatesTo(in.outs, {"fall"})]
        last == FoldLeft(Arm, [all |-> [outs |-> {}, seen |-> {}], fell |-> {}],
                         [i \in DOMAIN s.arms |-> i])
    IN IF s.select THEN last.all
       ELSE [last.all EXCEPT !.outs = @ \cup Onward(bads \cup last.fell)]

PathsTry(c, s, pos, bads) ==
    LET in == PathsBlock(c, s.a, Append(pos, 1), bads)
    IN Both([in EXCEPT !.outs = {o \in @ : o.to # "error"}],
            PathsHandler(c, s.b, Append(pos, 2), StatesTo(in.outs, {"error"})))

PathsStmt(c, s, pos, bads) ==
    CASE s.k = "op" ->
           [outs |-> Onward({After(s.op, b) : b \in bads}),
            seen |-> IF \E b \in bads : Wrong(s.op, b) THEN {pos} ELSE {}]
      [] s.k = "if" -> Both(PathsBlock(c, s.a, Append(pos, 1), bads),
                            PathsBlock(c, s.b, Append(pos, 2), bads))
      [] s.k = "loop" -> PathsLoop(c, s, pos, bads)
      [] s.k = "try" -> PathsTry(c, s, pos, bads)
      [] s.k = "arms" -> PathsArms(c, s, pos, bads)
      [] s.k = "block" -> PathsBlock(c, s.a, pos, bads)
      [] s.k = "defer" -> [outs |-> Onward(bads), seen |-> {}]
      [] s.k = "exit" -> [outs |-> {Outcome(s.to, b, b) : b \in bads}, seen |-> {}]
      [] s.k = "call" ->
           Both([outs |-> Onward(bads), seen |-> {}],
                IF s.h = "block" THEN PathsHandler(c, s.a, pos, bads)
                ELSE [outs |-> {Outcome(IF s.h = "try" THEN "fail" ELSE "error", b, b) :
                                b \in bads}, seen |-> {}])

PathsBlock(c, b, pos, bads) ==
    LET Stmt(x, i) ==
            LET in == PathsStmt(c, b[i], Append(pos, i), x.on)
                outs == {o \in in.outs : o.to # "next"}
            IN [on |-> StatesTo(in.outs, {"next"}),
                outs |-> x.outs \cup {[o EXCEPT !.left = Leaving(b, pos, i - 1, o).left] :
                                      o \in outs},
                seen |-> UNION ({x.seen, in.seen} \cup
                                {Leaving(b, pos, i - 1, o).seen : o \in outs})]
        last == FoldLeft(Stmt, [on |-> bads, outs |-> {}, seen |-> {}],
                         [i \in DOMAIN b |-> i])
        ends == Onward(last.on)
    IN [outs |-> last.outs \cup ends,
        seen |-> UNION ({last.seen} \cup {Leaving(b, pos, Len(b), o).seen : o \in ends})]

\* The places where some path does what is wrong, of those the reference follows.
WrongPlaces == PathsBlock(check, body, <<>>, {{}}).seen

-----------------------------------------------------------------------------
(* Properties *)

\* sema_check_frees refuses a place only when a path reaches it with the value
\* dead, over any turns of loops, handlers of errors and exits.
FreesJustified == done /\ check = "free" => refused \subseteq WrongPlaces

\* A body with a path that uses or deletes a dead value is never accepted, though
\* the walk joins its paths and walks a loop twice only.
FreesCaught == done /\ check = "free" /\ WrongPlaces # {} => refused # {}

\* sema_check_fills refuses a read only when a path on which each loop took a turn
\* reaches it without the write it needs.
FillsJustified == done /\ check = "fill" => refused \subseteq WrongPlaces

\* A body with a path that reads what it did not write is never accepted, but for
\* a path on which a loop that fills took no turn or left elements of the range
\* out: the check takes every such loop as one over the range.
FillsCaught == done /\ check = "fill" /\ WrongPlaces # {} => refused # {}

\* sema_check_frees refuses a body exactly when a path of it uses or deletes a dead
\* value, at places where one does.
FreesExact == FreesJustified /\ FreesCaught

\* sema_check_fills refuses a body exactly when a path of it reads what was not
\* written, at places where one does, by the rules of C1 (docs/decisions.md:3206)
\* on the writes a read needs and of docs/decisions.md:3230 on loops, though it
\* joins its paths, walks a loop twice only and may leave it by a break.
FillsExact == FillsJustified /\ FillsCaught
==============================================================================
