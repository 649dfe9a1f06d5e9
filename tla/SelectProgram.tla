----------------------------- MODULE SelectProgram -----------------------------
(***************************************************************************)
(* A program on top of Channels: some threads run a loop of selects, the   *)
(* others send to the channels and close them.  What a select owes its     *)
(* caller over time depends on what the threads do next, so the liveness   *)
(* of select is stated of such a program.                                  *)
(***************************************************************************)
EXTENDS Channels

CONSTANTS
    Selectors,  \* the threads that run the loop
    Program     \* the selects of one turn of that loop, in order

ASSUME ProgramAssumption ==
    /\ Selectors \subseteq Threads
    /\ Program \in Seq(Selects) \ {<<>>}

VARIABLES
    at,         \* at[t]: the select of Program that t runs next
    chosen      \* chosen[t]: the channel of the arm t's last select returned

pvars == <<vars, at, chosen>>

PInit ==
    /\ Init
    /\ at = [t \in Selectors |-> 1]
    /\ chosen = [t \in Selectors |-> {}]

\* The select the loop has come to.
LoopCall(t) ==
    /\ CallSelect(t, Program[at[t]])
    /\ at' = [at EXCEPT ![t] = (@ % Len(Program)) + 1]
    /\ UNCHANGED chosen

\* A select that returns an arm.
LoopReturn(t) ==
    /\ TryTake(t) \/ TryNone(t)
    /\ chosen' = [chosen EXCEPT ![t] = {TriedArm(t)}]
    /\ UNCHANGED at

\* Every other step of a select.
LoopStep(t) ==
    /\ \/ TryNext(t) \/ Add(t) \/ Hold(t) \/ LookReady(t) \/ LookNext(t)
       \/ Doze(t) \/ Rehold(t) \/ Sub(t)
    /\ UNCHANGED <<at, chosen>>

LoopSpurious(t) == Spurious(t) /\ UNCHANGED <<at, chosen>>

FeedCall(t) ==
    /\ \E c \in Channels : CallSend(t, c) \/ Close(t, c)
    /\ UNCHANGED <<at, chosen>>

FeedStep(t) ==
    /\ \/ SendWait(t) \/ SendFatal(t) \/ SendPut(t)
       \/ NoSelectWaits(t) \/ SelectWaits(t) \/ Broadcast(t)
    /\ UNCHANGED <<at, chosen>>

Selector(t) == LoopCall(t) \/ LoopReturn(t) \/ LoopStep(t)

PNext ==
    /\ ~aborted
    /\ \/ \E t \in Selectors : Selector(t) \/ LoopSpurious(t)
       \/ \E t \in Threads \ Selectors : FeedCall(t) \/ FeedStep(t)

\* The loops keep going, and a send or a close that began goes on.  Nobody has
\* to send or to close.
PSpec ==
    /\ PInit
    /\ [][PNext]_pvars
    /\ \A t \in Selectors : WF_pvars(~aborted /\ Selector(t))
    /\ \A t \in Threads \ Selectors : WF_pvars(~aborted /\ FeedStep(t))

-----------------------------------------------------------------------------
(* Properties *)

InSelect(t) == pc[t] \in {"try", "add", "hold", "look", "doze", "selectWait",
                          "rehold", "sub"}

\* A select does not stay in its call while a channel of its own is ready: the
\* count in waiting, the second look and the broadcast lose no wake-up, and the
\* locks never leave everybody waiting for everybody.
SelectServed ==
    \A t \in Selectors :
        LET Due == /\ InSelect(t)
                   /\ \E i \in DOMAIN arg[t] : Ready(arg[t][i])
                   /\ ~aborted
        IN  Due ~> ~Due

\* No ready channel is hidden: once every channel is closed, and so ready for
\* ever, a loop of selects returns each of its arms again and again.  This is
\* the purpose the comment on `turn` gives.
NoArmHidden ==
    <>[](~aborted /\ \A c \in Channels : closed[c])
        => \A t \in Selectors, c \in Channels : []<>(chosen[t] = {c})
==============================================================================
