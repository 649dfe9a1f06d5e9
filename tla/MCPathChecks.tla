----------------------------- MODULE MCPathChecks -----------------------------
(* Small bodies: a beginning, a statement that branches, loops or handles errors *)
(* around two more, and a statement after it; alone, in a loop, in a try or in a *)
(* block with a deferred statement before it.                                    *)
EXTENDS PathChecks, TLC

If(a, b) == [k |-> "if", a |-> a, b |-> b]
Loop(leaves, a) == [k |-> "loop", leaves |-> leaves, a |-> a]
Try(a, b) == [k |-> "try", a |-> a, b |-> b]
Call(h, a) == [k |-> "call", h |-> h, a |-> a]
Arms(select, arms) == [k |-> "arms", select |-> select, arms |-> arms]
Block(a) == [k |-> "block", a |-> a]
Defer(undo, s) == [k |-> "defer", undo |-> undo, s |-> s]
Exit(to) == [k |-> "exit", to |-> to]

Ops(c) == IF c = "free" THEN {Op("use"), Op("delete"), Op("assign")}
          ELSE {Op("alloc"), Op("read"), Op("write"), Op("leave"),
                Op("read_name"), Op("write_name"), Op("set"),
                Op("read_any"), Op("write_any")}

\* What a body begins with.
Begin(c) == IF c = "free" THEN {<<s>> : s \in Ops(c)}
            ELSE {<<Op("alloc")>>, <<Op("alloc"), Op("write")>>,
                  <<Op("alloc"), Op("write_name")>>}
Reads(c) == IF c = "free" THEN {Op("use")} ELSE {Op("read"), Op("read_name"), Op("read_any")}

\* What a statement in the middle may hold.
Inner(c) == {<<s>> : s \in Ops(c)} \cup
            {<<s, e>> : s \in Ops(c), e \in {Exit("return"), Exit("fail")}}

Middle(c) ==
    {If(a, b) : a \in Inner(c), b \in {<<>>, <<Exit("return")>>}}
    \cup {Loop(l, a) : l \in {"head", "tail", "never"}, a \in Inner(c)}
    \cup {Loop("head", <<If(<<s, e>>, <<>>), t>>) :
            s, t \in Ops(c), e \in {Exit("break"), Exit("continue")}}
    \cup {Try(<<s, Call("enclosing", <<>>), t>>, <<u>>) :
            s \in Ops(c), t \in Ops(c), u \in Reads(c)}
    \cup {Call("block", <<s, e>>) : s \in Ops(c), e \in {Exit("yield"), Exit("return")}}
    \cup {Arms(x, <<<<s, e>>, <<t>>>>) : x \in BOOLEAN, s, t \in Ops(c),
            e \in {Exit("fall"), Exit("return")}}

\* Statements an exit runs.
Later(c) == {<<Defer(u, s)>> : u \in BOOLEAN, s \in Reads(c)} \cup
            IF c = "free" THEN {<<Defer(u, s), Defer(~u, t)>> : u \in BOOLEAN,
                                s, t \in {Op("use"), Op("delete")}}
            ELSE {}

\* The beginning and the rest of a body, with both or the rest in a loop, in a try,
\* or after what exits run.
Wrapped(c, a, b) ==
    {a \o b, <<Loop("head", a \o b)>>, Append(a, Loop("head", b)), <<Try(a \o b, <<>>)>>}
    \cup {d \o a \o b : d \in Later(c)}

CheckInit ==
    \E c \in {"free", "fill"} :
        \E a \in Begin(c), m \in Middle(c), t \in Reads(c) :
            \E b \in Wrapped(c, a, <<m, t>>) : CheckBegins(c, b)

CheckSpec == CheckInit /\ [][CheckNext]_checkVars
==============================================================================
