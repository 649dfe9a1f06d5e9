------------------------------- MODULE FifoSpec -------------------------------
(***************************************************************************)
(* What `chan T` promises: values come out of a channel one at a time, each*)
(* once, in the order they went in, never more of them inside than the     *)
(* capacity, and none goes in after `close`.  How the threads wait for     *)
(* each other is no part of it.                                            *)
(***************************************************************************)
EXTENDS Integers, Sequences

CONSTANTS
    Channels,   \* the channels of the program
    Capacity    \* Capacity[c]: how many values channel c holds

VARIABLES
    queue,      \* queue[c]: the values inside c, oldest first
    closed,     \* closed[c]: whether c was closed
    sent,       \* sent[c]: how many values went into c, the name of the last
    got         \* got[c]: the value that came out of c last, 0 before any

vars == <<queue, closed, sent, got>>

Init ==
    /\ queue = [c \in Channels |-> <<>>]
    /\ closed = [c \in Channels |-> FALSE]
    /\ sent = [c \in Channels |-> 0]
    /\ got = [c \in Channels |-> 0]

Put(c) ==
    /\ ~closed[c]
    /\ Len(queue[c]) < Capacity[c]
    /\ queue' = [queue EXCEPT ![c] = Append(@, sent[c] + 1)]
    /\ sent' = [sent EXCEPT ![c] = @ + 1]
    /\ UNCHANGED <<closed, got>>

Get(c) ==
    /\ queue[c] # <<>>
    /\ got' = [got EXCEPT ![c] = Head(queue[c])]
    /\ queue' = [queue EXCEPT ![c] = Tail(@)]
    /\ UNCHANGED <<closed, sent>>

Close(c) ==
    /\ closed' = [closed EXCEPT ![c] = TRUE]
    /\ UNCHANGED <<queue, sent, got>>

Next == \E c \in Channels : Put(c) \/ Get(c) \/ Close(c)

Spec == Init /\ [][Next]_vars
==============================================================================
