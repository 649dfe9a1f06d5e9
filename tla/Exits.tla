---------------------------------- MODULE Exits ----------------------------------
(***************************************************************************)
(* How antic lowers the exits of blocks: src/src/antic/lower_stmt.c,       *)
(* lower_error.c, lower_sync.c and lower_function.c.  Nothing unwinds at   *)
(* run time: where the text leaves a block, by its brace, `break`,         *)
(* `continue`, `yield`, `return`, `fail` or an error that goes on, the     *)
(* lowerer writes what the blocks it leaves owe: deferred statements,      *)
(* teardowns, unlocks, deletes of errors.                                  *)
(*                                                                         *)
(* The model follows one path of the function that is lowered.  low is the *)
(* lowerer as it stands where the path is, with what it lowers next, and   *)
(* the place a jump goes to is the lowerer as it stands there.  slot and   *)
(* duty are of the program: a duty is a value, a lock or a statement that  *)
(* has to come to its end.  Sites number the places of the text that make  *)
(* one.                                                                    *)
(***************************************************************************)
EXTENDS Integers, Sequences, FiniteSets, SequencesExt

CONSTANTS
    Sites,      \* the numbered places of a function
    MaxTurns    \* bound: turns of a loop

VARIABLES
    low,        \* struct lowerer
    slot,       \* slot[n]: the duty that the slot of site n holds, or 0
    duty,       \* the duties in the order they arose
    opened,     \* how many scopes were opened, which tells their addresses apart
    phase       \* "runs", "returned", "failed", "stopped" or "crashed"

exitVars == <<low, slot, duty, opened, phase>>

ASSUME ExitsAssumption == Sites \subseteq Nat \ {0} /\ MaxTurns \in Nat

\* The sites of the scope around the body of a function.
UNBUILD == 1
OWN == 2
LEAVE == 3
HIDDEN == 4

-----------------------------------------------------------------------------
(* Duties. *)

New(k, sees) == [k |-> k, sees |-> sees, state |-> "open"]

\* The teardown, delete, unlock or run of each duty in I.
EndedAll(d, I) ==
    [i \in DOMAIN d |->
        IF i \notin I THEN d[i]
        ELSE [d[i] EXCEPT !.state = IF @ = "open" THEN "done" ELSE "twice"]]

Arises(k, n, sees) ==
    /\ duty' = Append(duty, New(k, sees))
    /\ slot' = [slot EXCEPT ![n] = Len(duty) + 1]

\* lower_end_temps: what the temporaries kept since mark hold ends.
TempsSince(mark) == {low.temps[i] : i \in mark + 1 .. Len(low.temps)}
WithoutTemps(mark) == EndedAll(duty, {slot[n] : n \in TempsSince(mark)})
ZeroTemps(mark) == [n \in Sites |-> IF n \in TempsSince(mark) THEN 0 ELSE slot[n]]

-----------------------------------------------------------------------------
(* The lowerer. *)

On(do) == phase = "runs" /\ low.todo # <<>> /\ Head(low.todo).do = do
OnStmt(k) == On("stmt") /\ Head(low.todo).s.k = k
Top == Head(low.todo)

Stmt(s) == [do |-> "stmt", s |-> s]
BlockOf(b) == Stmt([k |-> "block", a |-> b])
CLOSE == [do |-> "close"]
Jump(to) == [do |-> "jump", to |-> to]

\* The frames take the place of the frame on top.
Then(frames) == [low EXCEPT !.todo = frames \o Tail(@)]

\* lower_stmt: the statement on top is lowered by the frames, and then the
\* temporaries it kept end.
By(frames) == Then(Append(frames, [do |-> "end", mark |-> Len(low.temps)]))

Item(k, n) == [k |-> k, n |-> n, s |-> [k |-> "op"]]

\* push_exit_action, and a scope of exit actions around what comes.
Push(l, item) == [l EXCEPT !.scopes[Len(l.scopes)].items = Append(@, item)]
Open(l, items) ==
    [l EXCEPT !.scopes = Append(@, [id |-> opened + 1, items |-> items])]
InnerId == low.scopes[Len(low.scopes)].id

\* The open values that a statement here can name.
InScope ==
    LET items == FlattenSeq([i \in 1 .. Len(low.scopes) |-> low.scopes[i].items])
    IN {i \in {slot[items[x].n] : x \in 1 .. Len(items)} \ {0} :
           duty[i].k \in {"local", "lock", "error", "received"} /\ duty[i].state = "open"}

\* The frames that run the actions js of the scope at depth i.
Frames(js, i, undoPass, failing) ==
    [x \in 1 .. Len(js) |-> [do |-> "act", depth |-> i, at |-> js[x],
                             undoPass |-> undoPass, failing |-> failing]]
Backward(l, i, kinds) ==
    SelectSeq(Reverse([j \in 1 .. Len(l.scopes[i].items) |-> j]),
              LAMBDA j : l.scopes[i].items[j].k \in kinds)

\* The kinds of exit action beside `undo`.
Others == {"local", "defer", "received", "lock", "error", "leave", "unbuild"}

\* Mutant: one pass takes the undo statements with the others.
ActsOnePass(l, i, failing) ==
    Frames(Backward(l, i, Others \cup (IF failing THEN {"undo"} ELSE {})), i, FALSE, failing)

\* lower_run_defers: the undo statements when an error leaves, then the others,
\* the last declared first.
Acts(l, i, failing) ==
    Frames(Backward(l, i, IF failing THEN {"undo"} ELSE {}), i, TRUE, failing)
    \o Frames(Backward(l, i, Others), i, FALSE, failing)

\* The depth of the scope stop, 0 for NULL and for a scope off the chain.
Depth(l, stop) == SelectInSeq(l.scopes, LAMBDA sc : sc.id = stop)

\* lower_run_defers_to: every scope from the innermost to stop, and then the
\* frames.  The walk reads past the end of a chain that does not hold stop.
Leave(l, stop, failing, frames) ==
    LET inner == Len(l.scopes) - Depth(l, stop)
    IN /\ low' = [l EXCEPT !.todo =
                     FlattenSeq([x \in 1 .. inner |->
                                    Acts(l, Len(l.scopes) + 1 - x, failing)]) \o frames]
       /\ phase' = IF stop # 0 /\ Depth(l, stop) = 0 THEN "crashed" ELSE phase
       /\ UNCHANGED opened

-----------------------------------------------------------------------------
(* Statements. *)

\* `let`: the local is torn down where its block ends.
LowerLet ==
    /\ OnStmt("let")
    /\ Arises("local", Top.s.n, {})
    /\ low' = Push(By(<<>>), Item("local", Top.s.n))
    /\ UNCHANGED <<opened, phase>>

\* `defer` and `undo`.
LowerDefer ==
    /\ OnStmt("defer") \/ OnStmt("undo")
    /\ Arises(Top.s.k, Top.s.n, InScope)
    /\ low' = Push(By(<<>>), [Item(Top.s.k, Top.s.n) EXCEPT !.s = Top.s.s])
    /\ UNCHANGED <<opened, phase>>

\* A move clears the local's table, `destroy` ends what its slot holds.
LowerMove ==
    /\ OnStmt("move")
    /\ duty' = [i \in DOMAIN duty |->
                   IF i = slot[Top.s.n] THEN [duty[i] EXCEPT !.state = Top.s.to] ELSE duty[i]]
    /\ slot' = [slot EXCEPT ![Top.s.n] = 0]
    /\ low' = By(<<>>)
    /\ UNCHANGED <<opened, phase>>

\* A statement that runs to its end.
LowerPlain ==
    /\ OnStmt("op")
    /\ low' = By(<<>>)
    /\ UNCHANGED <<slot, duty, opened, phase>>

\* lower_block.
LowerBlock ==
    /\ OnStmt("block")
    /\ low' = Open(By([i \in 1 .. Len(Top.s.a) |-> Stmt(Top.s.a[i])] \o <<CLOSE>>), <<>>)
    /\ opened' = opened + 1
    /\ UNCHANGED <<slot, duty, phase>>

\* lower_if: either branch.
LowerIf ==
    /\ OnStmt("if")
    /\ \E b \in {Top.s.a, Top.s.b} : low' = By(<<BlockOf(b)>>)
    /\ UNCHANGED <<slot, duty, opened, phase>>

\* `sync m { }`, lower_hold_lock.
LowerSync ==
    /\ OnStmt("sync")
    /\ Arises("lock", Top.s.n, {})
    /\ low' = Open(By(<<BlockOf(Top.s.a), CLOSE>>), <<Item("lock", Top.s.n)>>)
    /\ opened' = opened + 1
    /\ UNCHANGED phase

\* What the holders ns of `recv` or `select` held ends, and the holder n takes
\* what comes now, which is nothing when the channel is closed.
Receives(ns, n) ==
    LET before == EndedAll(duty, {slot[m] : m \in ns})
        emptied == [m \in Sites |-> IF m \in ns THEN 0 ELSE slot[m]]
    IN \/ duty' = before /\ slot' = emptied
       \/ /\ duty' = Append(before, New("received", {}))
          /\ slot' = [emptied EXCEPT ![n] = Len(duty) + 1]

\* The condition of a loop may hold a `recv`, whose exit action stands from where
\* the condition is lowered: before the body of a `while`, after that of a `do`.
Condition(l, n) == IF n = 0 THEN l ELSE Push(l, Item("received", n))

\* lower_loop.
LowerLoop ==
    /\ OnStmt("loop")
    /\ low' = Condition(By(<<[do |-> "turn", s |-> Top.s, turns |-> 0]>>),
                        IF Top.s.do THEN 0 ELSE Top.s.recv)
    /\ UNCHANGED <<slot, duty, opened, phase>>

\* lower_for_hooks: the iterator lives in a scope around the loop.
LowerFor ==
    /\ OnStmt("for")
    /\ Arises("local", Top.s.n, {})
    /\ low' = Open(By(<<[do |-> "turn", s |-> Top.s, turns |-> 0], CLOSE>>),
                   <<Item("local", Top.s.n)>>)
    /\ opened' = opened + 1
    /\ UNCHANGED phase

\* The lowerer after the loop on top, and inside one turn, which the frames lower.
AfterLoop ==
    Condition(Then(<<>>), IF Top.s.k = "loop" /\ Top.s.do THEN Top.s.recv ELSE 0)
InTurn(frames) ==
    LET again == Then(<<[Top EXCEPT !.turns = @ + 1]>>)
    IN [low EXCEPT !.todo = Append(frames, Jump(again)),
                   !.loops = Append(@, [breakTo |-> AfterLoop, continueTo |-> again,
                                        defersAt |-> InnerId, tempsAt |-> Len(low.temps)])]

\* The test of a loop; a `do` runs its body before the first one.
Untested == Top.s.do /\ Top.turns = 0
Tests ==
    IF Untested \/ Top.s.recv = 0 THEN UNCHANGED <<slot, duty>>
    ELSE Receives({Top.s.recv}, Top.s.recv)

LoopTurn ==
    /\ On("turn") /\ Top.s.k = "loop" /\ Top.turns < MaxTurns
    /\ Tests
    /\ low' = InTurn(<<BlockOf(Top.s.a)>>)
    /\ UNCHANGED <<opened, phase>>

LoopEnds ==
    /\ On("turn") /\ Top.s.k = "loop" /\ ~Untested
    /\ Tests
    /\ low' = AfterLoop
    /\ UNCHANGED <<opened, phase>>

\* A value of an iterator lives in a scope around one pass.
ForTurn ==
    /\ On("turn") /\ Top.s.k = "for" /\ Top.turns < MaxTurns
    /\ Arises("local", Top.s.v, {})
    /\ low' = Open(InTurn(<<BlockOf(Top.s.a), CLOSE>>), <<Item("local", Top.s.v)>>)
    /\ opened' = opened + 1
    /\ UNCHANGED phase

ForEnds ==
    /\ On("turn") /\ Top.s.k = "for"
    /\ low' = AfterLoop
    /\ UNCHANGED <<slot, duty, opened, phase>>

\* The operands of a call or of a `switch`; lower_keep_temp where one is a fresh
\* value that the statement reads through.
Operands ==
    /\ OnStmt("call") \/ OnStmt("switch")
    /\ LET l == By(<<[do |-> Top.s.k, s |-> Top.s, at |-> 0]>>)
       IN IF Top.s.temp = 0 THEN low' = l /\ UNCHANGED <<slot, duty>>
          ELSE /\ low' = [l EXCEPT !.temps = Append(@, Top.s.temp)]
               /\ Arises("temp", Top.s.temp, {})
    /\ UNCHANGED <<opened, phase>>

\* lower_switch: an arm, entered by its test or by the fall of the arm before.  The
\* scope of an arm tears down the copy of the fields that the arm binds, if any.
Arm ==
    /\ On("switch")
    /\ \E i \in IF Top.at > 0 THEN {Top.at} ELSE 1 .. Len(Top.s.arms) :
          LET falls == Top.s.falls /\ i < Len(Top.s.arms)
              n == Top.s.bound[i]
          IN /\ low' = Open(Then(<<BlockOf(Top.s.arms[i]), CLOSE>>
                                \o IF falls THEN <<[Top EXCEPT !.at = i + 1]>> ELSE <<>>),
                            IF n = 0 THEN <<>> ELSE <<Item("local", n)>>)
             /\ IF n = 0 THEN UNCHANGED <<slot, duty>> ELSE Arises("local", n, {})
    /\ opened' = opened + 1
    /\ UNCHANGED phase

NoArm ==
    /\ On("switch") /\ Top.at = 0
    /\ low' = Then(<<>>)
    /\ UNCHANGED <<slot, duty, opened, phase>>

\* The block owns what `recv` gives, whether or not it reaches a name.
LowerRecv ==
    /\ OnStmt("recv")
    /\ Receives({Top.s.n}, Top.s.n)
    /\ low' = Push(By(<<>>), Item("received", Top.s.n))
    /\ UNCHANGED <<opened, phase>>

\* lower_select: one holder for each arm, all owned by the block around.
LowerSelect ==
    /\ OnStmt("select")
    /\ \E i \in 1 .. Len(Top.s.ns) :
          /\ Receives(Range(Top.s.ns), Top.s.ns[i])
          /\ low' = FoldLeft(Push, By(<<BlockOf(Top.s.arms[i])>>),
                             [x \in 1 .. Len(Top.s.ns) |-> Item("received", Top.s.ns[x])])
    /\ UNCHANGED <<opened, phase>>

-----------------------------------------------------------------------------
(* Errors. *)

\* The call gives no error, and a `let` binds its result.
CallReturns ==
    /\ On("call")
    /\ IF Top.s.let = 0 THEN low' = Then(<<>>) /\ UNCHANGED <<slot, duty>>
       ELSE /\ low' = Push(Then(<<>>), Item("local", Top.s.let))
            /\ Arises("local", Top.s.let, {})
    /\ UNCHANGED <<opened, phase>>

\* A handled `let` registers its local where the handler joins it.
Bind ==
    /\ On("bind")
    /\ low' = Push(Then(<<>>), Item("local", Top.n))
    /\ UNCHANGED <<slot, duty, opened, phase>>

\* lower_handler: a scope around the handler holds the delete of the error.
Handler(n, b, let, join) ==
    /\ low' = Open([low EXCEPT !.todo = <<BlockOf(b), CLOSE, Jump(join)>>,
                               !.handlings = Append(@, [join |-> join, let |-> let,
                                                        defersAt |-> InnerId])],
                   <<Item("error", n)>>)
    /\ opened' = opened + 1

CatchBlock ==
    /\ On("call") /\ Top.s.h = "block"
    /\ Arises("error", Top.s.n, {})
    /\ Handler(Top.s.n, Top.s.a, Top.s.let,
               Then(IF Top.s.let = 0 THEN <<>> ELSE <<[do |-> "bind", n |-> Top.s.let]>>))
    /\ UNCHANGED phase

\* `catch fatal` ends the program.
CatchFatal ==
    /\ On("call") /\ Top.s.h = "fatal"
    /\ phase' = "stopped"
    /\ UNCHANGED <<low, slot, duty, opened>>

\* STMT_TRY.
LowerTry ==
    /\ OnStmt("try")
    /\ low' = [low EXCEPT
          !.todo = <<BlockOf(Top.s.a), Jump(By(<<>>))>>,
          !.tries = Append(@, [handler |-> By(<<[do |-> "catch", s |-> Top.s]>>),
                               n |-> Top.s.n, defersAt |-> InnerId])]
    /\ UNCHANGED <<slot, duty, opened, phase>>

Catch ==
    /\ On("catch")
    /\ Handler(Top.s.n, Top.s.b, 0, Then(<<>>))
    /\ UNCHANGED <<slot, duty, phase>>

\* forward_to_try_block: the error leaves every block up to the handler of the
\* `try` block that is lowered, whose temporary takes it.
Forward ==
    /\ On("call") /\ Top.s.h \in {"enclosing", "try"} /\ low.tries # <<>>
    /\ LET t == Last(low.tries)
       IN /\ Arises("error", t.n, {})
          /\ Leave(low, t.defersAt, TRUE, <<Jump(t.handler)>>)

\* `try` outside a `try` block gives the error to the caller.
ForwardToCaller ==
    /\ On("call") /\ Top.s.h = "try" /\ low.tries = <<>>
    /\ duty' = Append(WithoutTemps(0), New("error", {}))
    /\ slot' = [ZeroTemps(0) EXCEPT ![Top.s.n] = Len(duty) + 1]
    /\ Leave(low, 0, TRUE, <<[do |-> "ret", n |-> Top.s.n, to |-> "failed"]>>)

\* lower_fail, of a new error or of the one a handler binds.
LowerFail ==
    /\ OnStmt("fail")
    /\ IF Top.s.bound
       THEN duty' = WithoutTemps(0) /\ slot' = ZeroTemps(0)
       ELSE /\ duty' = Append(WithoutTemps(0), New("error", {}))
            /\ slot' = [ZeroTemps(0) EXCEPT ![Top.s.n] = Len(duty) + 1]
    /\ Leave([low EXCEPT !.moved = IF Top.s.bound THEN Top.s.n ELSE 0], 0, TRUE,
             <<[do |-> "ret", n |-> Top.s.n, to |-> "failed"]>>)

-----------------------------------------------------------------------------
(* The other exits. *)

\* `return`, of the local n when n is not 0.
LowerReturn ==
    /\ OnStmt("return")
    /\ duty' = WithoutTemps(0) /\ slot' = ZeroTemps(0)
    /\ Leave([low EXCEPT !.moved = Top.s.n], 0, FALSE,
             <<[do |-> "ret", n |-> Top.s.n, to |-> "returned"]>>)

\* `break` and `continue` first end the temporaries of the loop's statements.
LeaveLoop(loop, target) ==
    /\ duty' = WithoutTemps(loop.tempsAt) /\ slot' = ZeroTemps(loop.tempsAt)
    /\ Leave(low, loop.defersAt, FALSE, <<Jump(target)>>)

\* Mutant: `break` forgets the temporaries.
LowerBreakKeepsTemps ==
    /\ OnStmt("break")
    /\ Leave(low, Last(low.loops).defersAt, FALSE, <<Jump(Last(low.loops).breakTo)>>)
    /\ UNCHANGED <<slot, duty>>

LowerBreak == OnStmt("break") /\ LeaveLoop(Last(low.loops), Last(low.loops).breakTo)
LowerContinue ==
    OnStmt("continue") /\ LeaveLoop(Last(low.loops), Last(low.loops).continueTo)

\* `yield` gives the value of the failing call, and leaves the handler.
LowerYield ==
    /\ OnStmt("yield")
    /\ LET h == Last(low.handlings)
       IN /\ IF h.let = 0 THEN UNCHANGED <<slot, duty>> ELSE Arises("local", h.let, {})
          /\ Leave(low, h.defersAt, FALSE, <<Jump(h.join)>>)

\* The closing brace: its actions run, and the scope is gone.
Close ==
    /\ On("close")
    /\ low' = Then(Append(Acts(low, Len(low.scopes), FALSE), [do |-> "pop"]))
    /\ UNCHANGED <<slot, duty, opened, phase>>

Pop ==
    /\ On("pop")
    /\ low' = [Then(<<>>) EXCEPT !.scopes = Front(@)]
    /\ UNCHANGED <<slot, duty, opened, phase>>

\* The end of a statement.
StmtEnds ==
    /\ On("end")
    /\ duty' = WithoutTemps(Top.mark) /\ slot' = ZeroTemps(Top.mark)
    /\ low' = [Then(<<>>) EXCEPT !.temps = SubSeq(@, 1, Top.mark)]
    /\ UNCHANGED <<opened, phase>>

Jumps ==
    /\ On("jump")
    /\ low' = Top.to
    /\ UNCHANGED <<slot, duty, opened, phase>>

\* The path leaves the function, and the caller takes the value or the error.
Ret ==
    /\ On("ret")
    /\ phase' = Top.to
    /\ duty' = IF Top.n = 0 THEN duty ELSE [duty EXCEPT ![slot[Top.n]].state = "handed"]
    /\ UNCHANGED <<low, slot, opened>>

-----------------------------------------------------------------------------
(* Exit actions. *)

Acting == low.scopes[Top.depth].items[Top.at]
ActsOn(kinds) == On("act") /\ Acting.k \in kinds

\* run_deferred_stmt: the statement runs with the actions that have not run yet
\* as the innermost scope, where an error of it leaves from.  The pass of the
\* undo statements passes over those that ran; the later pass does not.
RunDeferred ==
    /\ ActsOn({"defer", "undo"})
    /\ duty' = EndedAll(duty, {slot[Acting.n]})
    /\ LET items == low.scopes[Top.depth].items
           rest == SubSeq(items, 1, Top.at - 1)
                   \o IF Top.undoPass
                      THEN SelectSeq(SubSeq(items, Top.at + 1, Len(items)),
                                     LAMBDA item : item.k # "undo")
                      ELSE <<>>
       IN low' = [Then(<<Stmt(Acting.s), [do |-> "restore", scopes |-> low.scopes]>>)
                     EXCEPT !.scopes = Append(SubSeq(@, 1, Top.depth - 1),
                                              [id |-> opened + 1, items |-> rest])]
    /\ opened' = opened + 1
    /\ UNCHANGED <<slot, phase>>

Restore ==
    /\ On("restore")
    /\ low' = [Then(<<>>) EXCEPT !.scopes = Top.scopes]
    /\ UNCHANGED <<slot, duty, opened, phase>>

\* The local or the error that `return` and `fail` hand on is passed over, and so
\* is the teardown of what a constructor built unless an error leaves.
Passed ==
    \/ Acting.k \in {"local", "error"} /\ Acting.n = low.moved
    \/ Acting.k = "unbuild" /\ ~Top.failing

\* A teardown, an unlock, the delete of an error or the `leave` hook.  The holder
\* of a received value is emptied.
RunAction ==
    /\ On("act") /\ Acting.k \notin {"defer", "undo"}
    /\ duty' = IF Passed THEN duty ELSE EndedAll(duty, {slot[Acting.n]})
    /\ slot' = IF Acting.k = "received" THEN [slot EXCEPT ![Acting.n] = 0] ELSE slot
    /\ low' = Then(<<>>)
    /\ UNCHANGED <<opened, phase>>

-----------------------------------------------------------------------------
(* The function. *)

\* lower_function_body: the scope around the body, with what the function has of
\* the teardown of a constructor, an owned parameter, the leave hook and the
\* hidden lock.
Around == <<Item("unbuild", UNBUILD), Item("local", OWN),
            Item("leave", LEAVE), Item("lock", HIDDEN)>>

ExitBegins(body, around) ==
    LET items == SelectSeq(Around, LAMBDA item : item.n \in around)
    IN /\ low = [todo |-> <<BlockOf(body), CLOSE,
                             [do |-> "ret", n |-> 0, to |-> "returned"]>>,
                 scopes |-> <<[id |-> 1, items |-> items]>>,
                 loops |-> <<>>, tries |-> <<>>, handlings |-> <<>>, temps |-> <<>>,
                 moved |-> 0]
       /\ duty = [i \in 1 .. Len(items) |-> New(items[i].k, {})]
       /\ slot = [n \in Sites |-> SelectInSeq(items, LAMBDA item : item.n = n)]
       /\ opened = 1
       /\ phase = "runs"

ExitNext ==
    \/ LowerLet \/ LowerDefer \/ LowerMove \/ LowerPlain \/ LowerBlock \/ LowerIf
    \/ LowerSync \/ LowerLoop \/ LowerFor \/ LoopTurn \/ LoopEnds \/ ForTurn \/ ForEnds
    \/ Operands \/ Arm \/ NoArm \/ LowerRecv \/ LowerSelect
    \/ CallReturns \/ Bind \/ CatchBlock \/ CatchFatal \/ LowerTry \/ Catch
    \/ Forward \/ ForwardToCaller \/ LowerFail
    \/ LowerReturn \/ LowerBreak \/ LowerContinue \/ LowerYield
    \/ Close \/ Pop \/ StmtEnds \/ Jumps \/ Ret \/ RunDeferred \/ Restore \/ RunAction

-----------------------------------------------------------------------------
(* Properties. *)

\* No deferred statement runs twice and nothing is torn down, unlocked or deleted
\* twice: an exit inside a deferred statement runs "the actions that have not run
\* yet" (run_deferred_stmt, src/src/antic/lower_stmt.c).
RunsOnce == \A i \in DOMAIN duty : duty[i].state # "twice"

\* Of the blocks that were left last, the undo statements and the teardown of what a
\* constructor built ran just when an error left.
UndoneFor(errs) ==
    \A i \in 1 .. Len(low.scopes) : \A j \in 1 .. Len(low.scopes[i].items) :
        LET item == low.scopes[i].items[j]
        IN item.k \in {"undo", "unbuild"} => (duty[slot[item.n]].state = "done") = errs

\* When the path leaves the function, every value, lock, error and deferred
\* statement that arose on it came to its end once or went to the caller,
\* whichever exits it took, and of the blocks it left last the undo statements ran
\* if an error left them and only then, as the teardown of what a constructor
\* built did (lower_run_defers_to, lower_end_temps).  No exit walks past the
\* scopes there are.
EndsExact ==
    /\ phase # "crashed"
    /\ RunsOnce
    /\ phase \in {"returned", "failed"} =>
          /\ \A i \in DOMAIN duty :
                duty[i].state = "open" => duty[i].k \in {"undo", "unbuild"}
          /\ UndoneFor(phase = "failed")

\* A deferred statement runs while the values and locks it can name are alive,
\* and an undo statement while the others of its block are (the two passes of
\* lower_run_defers, the order of lower_run_defers_to).
SeesAlive ==
    [][RunDeferred =>
          /\ \A i \in duty[slot[Acting.n]].sees : duty[i].state \in {"open", "handed"}
          /\ Acting.k = "undo" =>
                \A j \in 1 .. Len(low.scopes[Top.depth].items) :
                    LET item == low.scopes[Top.depth].items[j]
                    IN item.k \in {"local", "lock", "received"} /\ slot[item.n] # 0
                          => duty[slot[item.n]].state \in {"open", "handed"}]_exitVars
==================================================================================
