--------------------------------- MODULE MCExits ---------------------------------
(***************************************************************************)
(* The functions whose exits are lowered: two blocks of any kind, one in   *)
(* the other, around each exit, and deferred statements that are blocks    *)
(* with exits of their own.                                                *)
(***************************************************************************)
EXTENDS Exits

CONSTANT Family     \* "sound", or the text of one finding

SOp == [k |-> "op"]
SLet(n) == [k |-> "let", n |-> n]
SDefer(n, s) == [k |-> "defer", n |-> n, s |-> s]
SUndo(n, s) == [k |-> "undo", n |-> n, s |-> s]
SMove(n, to) == [k |-> "move", n |-> n, to |-> to]
SBlock(a) == [k |-> "block", a |-> a]
SIf(a, b) == [k |-> "if", a |-> a, b |-> b]
SLoop(do, recv, a) == [k |-> "loop", do |-> do, recv |-> recv, a |-> a]
STry(n, a, b) == [k |-> "try", n |-> n, a |-> a, b |-> b]
SRecv(n) == [k |-> "recv", n |-> n]
SCall(h, n, temp, let, a) ==
    [k |-> "call", h |-> h, n |-> n, temp |-> temp, let |-> let, a |-> a]
SJump(k) == [k |-> k]
SReturn(n) == [k |-> "return", n |-> n]
SFail(n, bound) == [k |-> "fail", n |-> n, bound |-> bound]

-----------------------------------------------------------------------------
(* One block in another around an exit. *)

Loops == {"while", "do", "test", "for"}
Handlers == {"catch", "handler", "let"}
Kinds == Loops \cup Handlers \cup {"block", "if", "sync", "try", "switch", "select"}

Wrap(c, n, a) ==
    CASE c = "block" -> SBlock(a)
      [] c = "if" -> SIf(a, <<>>)
      [] c = "sync" -> [k |-> "sync", n |-> n, a |-> a]
      [] c = "while" -> SLoop(FALSE, 0, a)
      [] c = "do" -> SLoop(TRUE, 0, a)
      [] c = "test" -> SLoop(FALSE, n, a)
      [] c = "for" -> [k |-> "for", n |-> n, v |-> n + 1, a |-> a]
      [] c = "try" -> STry(n, a, <<SOp>>)
      [] c = "catch" -> STry(n, <<SCall("enclosing", n + 1, 0, 0, <<>>)>>, a)
      [] c = "handler" -> SCall("block", n, n + 1, 0, a)
      [] c = "let" -> SCall("block", n, n + 1, n + 2, Append(a, SJump("yield")))
      [] c = "switch" -> [k |-> "switch", temp |-> n, arms |-> <<a, <<SOp>>>>,
                          bound |-> <<n + 1, 0>>, falls |-> TRUE]
      [] c = "select" -> [k |-> "select", ns |-> <<n, n + 1>>, arms |-> <<a, <<SOp>>>>]

ExitOf(e, c1, c2, handler) ==
    CASE e = "op" -> <<SOp>>
      [] e \in {"break", "continue", "yield"} -> <<SJump(e)>>
      [] e = "return" -> <<SReturn(18)>>
      [] e = "fail" -> <<SFail(20, FALSE)>>
      [] e = "rethrow" -> <<SFail(handler, TRUE)>>
      [] e = "enclosing" -> <<SCall("enclosing", 20, 0, 21, <<>>)>>
      [] e = "try" -> <<SCall("try", 20, IF "try" \in {c1, c2} THEN 0 ELSE 22, 21, <<>>)>>
      [] e = "fatal" -> <<SMove(18, "handed"), SCall("fatal", 20, 22, 21, <<>>)>>

\* The exits the text allows there.
Allowed(c1, c2) ==
    {"op", "return", "fail", "try", "fatal"}
    \cup (IF {c1, c2} \cap Loops # {} THEN {"break", "continue"} ELSE {})
    \cup (IF {c1, c2} \cap Handlers # {} THEN {"yield", "rethrow"} ELSE {})
    \cup (IF "try" \in {c1, c2} THEN {"enclosing"} ELSE {})

\* A temporary of the inner statement is lost where an error goes to a `try`
\* block, and where `yield` leaves a `switch`: see Family "temps".
LosesTemp(c1, c2, e) ==
    \/ c1 = "try" /\ c2 \in {"switch", "handler", "let"} /\ e \in {"enclosing", "try"}
    \/ c1 \in Handlers /\ c2 = "switch" /\ e = "yield"

Nested(c1, c2, e) ==
    <<SLet(5), SDefer(6, SOp),
      Wrap(c1, 7, <<SUndo(10, SOp), SLet(11), SRecv(12),
          Wrap(c2, 13, <<SDefer(16, SOp), SUndo(17, SOp), SLet(18)>>
                       \o ExitOf(e, c1, c2, IF c2 \in Handlers THEN 13 ELSE 7))>>)>>

NestedSound ==
    {Nested(x[1], x[2], x[3]) : x \in
        {x \in (Kinds \ {"block"}) \X (Kinds \ {"if", "do", "test"}) \X UNION {Allowed(c, d) : c, d \in Kinds} :
            x[3] \in Allowed(x[1], x[2]) /\ ~LosesTemp(x[1], x[2], x[3])}}

-----------------------------------------------------------------------------
(* Deferred statements with exits of their own. *)

DeferredFails(e) ==
    <<SLoop(FALSE, 0, <<STry(5, <<SLet(6), SDefer(7, SOp),
        SDefer(8, SBlock(<<SLet(9), SCall("enclosing", 10, 0, 0, <<>>)>>)),
        SLet(11), SDefer(12, SOp), e>>, <<SOp>>)>>)>>

DeferredHandles(e) ==
    <<SLet(5), SUndo(6, SCall("block", 7, 8, 0, <<SOp>>)), SRecv(9), SMove(9, "done"),
      SDefer(10, SBlock(<<SLet(11), SDefer(12, SOp), SOp>>)), SUndo(13, SOp), e>>

Sound ==
    NestedSound
    \cup {DeferredFails(e) : e \in {SOp, SJump("break"), SJump("continue")}}
    \cup {DeferredHandles(e) : e \in {SOp, SReturn(5), SFail(14, FALSE),
                                      SCall("try", 14, 15, 16, <<>>)}}

-----------------------------------------------------------------------------
(* The findings. *)

\* try { undo f(); defer g(); h(); } catch { }, where g and h may fail
UndoTwice ==
    <<STry(5, <<SUndo(6, SOp), SDefer(7, SCall("enclosing", 8, 0, 0, <<>>)),
                SCall("enclosing", 9, 0, 0, <<>>)>>, <<SOp>>)>>

\* try { f(Box.make(i).n); } catch { }
TempLost == <<STry(5, <<SCall("enclosing", 6, 7, 0, <<>>)>>, <<SOp>>)>>

\* do { if n == 3 { return; } } while f(recv(c))
ReceivedLost == <<SLoop(TRUE, 5, <<SIf(<<SReturn(0)>>, <<>>)>>)>>

Texts ==
    CASE Family = "sound" -> Sound
      [] Family = "undo" -> {UndoTwice}
      [] Family = "temps" -> {TempLost}
      [] Family = "recv" -> {ReceivedLost}

\* A synchronized function that is traced, or a constructor that may fail.
ExitInit ==
    \E f \in Texts : ExitBegins(f, IF f \in NestedSound THEN {OWN, LEAVE, HIDDEN}
                                   ELSE {UNBUILD, OWN})
ExitSpec == ExitInit /\ [][ExitNext]_exitVars
==================================================================================
