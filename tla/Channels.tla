------------------------------- MODULE Channels -------------------------------
(***************************************************************************)
(* The channels of `chan T` and `select`, src/src/rt/sync.c.               *)
(*                                                                         *)
(* A channel is a ring behind a monitor of its own.  What a function does  *)
(* between taking that monitor and giving it back (or waiting on it) touches*)
(* this channel alone, so it is one action.  A select that found nothing   *)
(* goes on in smaller steps: it counts itself in waiting, takes the        *)
(* monitor SELECT, and looks at its channels one after the other while it  *)
(* holds SELECT, with sends and closes running in between.                 *)
(*                                                                         *)
(* A thread that waits on a condition is at a "Wait" place.  A wake moves  *)
(* it to the place where it takes the monitor again and looks again, and   *)
(* so does a wake that nobody sent.  The values of a channel are opaque to *)
(* the code; here they are named 1, 2, ... in the order they go in.        *)
(***************************************************************************)
EXTENDS Integers, Sequences, FiniteSets

CONSTANTS
    Threads,    \* the threads of the program
    Channels,   \* its channels
    Capacity,   \* Capacity[c]: the capacity c was made with
    Selects,    \* the lists of channels the program has a `select` on
    MaxSends,   \* bound: values put into one channel
    TurnWrap    \* turn counts modulo this, 2^32 in the code

ASSUME ChannelsAssumption ==
    /\ IsFiniteSet(Threads)
    /\ Capacity \in [Channels -> Nat \ {0}]
    /\ Selects \subseteq Seq(Channels) \ {<<>>}
    /\ MaxSends \in Nat
    /\ TurnWrap \in Nat \ {0}

VARIABLES
    values,     \* values[c][i]: the slots of the ring of c, from 0
    head,       \* head[c]: the slot of the oldest value
    count,      \* count[c]: how many values c holds
    closed,     \* closed[c]
    deleted,    \* deleted[c]: c was freed
    waiting,    \* how many selects say that they wait
    pc,         \* where each thread is
    arg,        \* arg[t]: the channels of the call t is in
    turn,       \* turn[t]: the thread-local counter behind start
    start,      \* start[t]: the arm where this turn of the loop starts
    k,          \* k[t]: how many arms this walk over the arms has passed
    aborted,    \* a send on a closed channel stopped the program
    sent,       \* history: sent[c] values went into c
    got         \* history: the value that came out of c last

ring == <<values, head, count, closed, deleted, sent, got>>
call == <<arg, turn, start, k>>
vars == <<ring, waiting, pc, call, aborted>>

\* "send" "recv"             about to take the monitor of the channel
\* "sendWait" "recvWait"     waiting on NOT_FULL and on NOT_EMPTY
\* "load"                    after a send or a close, about to load waiting
\* "broadcast"               found a select, about to take SELECT to wake it
\* "try"                     a select about to look at arm k for the first time
\* "add" "hold"              about to count itself, and to take SELECT
\* "look" "doze"             holding SELECT, looking at arm k, about to wait
\* "selectWait" "rehold"     waiting on SELECT_READY, and woken
\* "sub"                     about to count itself out
Places == {"idle", "send", "sendWait", "recv", "recvWait", "load",
           "broadcast", "try", "add", "hold", "look", "doze",
           "selectWait", "rehold", "sub"}

Chan(t) == arg[t][1]

Ready(c) == count[c] > 0 \/ closed[c]

Full(c) == count[c] = Capacity[c]

\* The threads that wait at place on a condition of channel c.
Waiters(place, c) == {t \in Threads : pc[t] = place /\ Chan(t) = c}

\* The sets of threads a wake_one of that condition can wake.
WakeOne(place, c) ==
    IF Waiters(place, c) = {} THEN {{}} ELSE {{t} : t \in Waiters(place, c)}

\* Where a woken waiter goes on.
Woken(place) ==
    CASE place = "sendWait"   -> "send"
      [] place = "recvWait"   -> "recv"
      [] place = "selectWait" -> "rehold"

\* Thread t goes to place and the threads of wake wake up.
Move(t, place, wake) ==
    pc' = [u \in Threads |-> IF u = t THEN place
                             ELSE IF u \in wake THEN Woken(pc[u])
                             ELSE pc[u]]

\* The threads in a call on channel c.
Users(c) == {t \in Threads : \E i \in DOMAIN arg[t] : arg[t][i] = c}

NoCall == <<>>

\* t is back in the program.
Return(t, wake) ==
    /\ Move(t, "idle", wake)
    /\ arg' = [arg EXCEPT ![t] = NoCall]
    /\ start' = [start EXCEPT ![t] = 0]
    /\ k' = [k EXCEPT ![t] = 0]
    /\ UNCHANGED turn

\* SELECT is held from "look" to the wait or the release.
SelectFree == \A t \in Threads : pc[t] \notin {"look", "doze"}

Init ==
    /\ values = [c \in Channels |-> [i \in 0 .. Capacity[c] - 1 |-> 0]]
    /\ head = [c \in Channels |-> 0]
    /\ count = [c \in Channels |-> 0]
    /\ closed = [c \in Channels |-> FALSE]
    /\ deleted = [c \in Channels |-> FALSE]
    /\ waiting = 0
    /\ pc = [t \in Threads |-> "idle"]
    /\ arg = [t \in Threads |-> NoCall]
    /\ turn = [t \in Threads |-> 0]
    /\ start = [t \in Threads |-> 0]
    /\ k = [t \in Threads |-> 0]
    /\ aborted = FALSE
    /\ sent = [c \in Channels |-> 0]
    /\ got = [c \in Channels |-> 0]

-----------------------------------------------------------------------------
(* Calls of the program.  It uses no channel after its delete. *)

\* Every send of the bound that is not yet in the ring counts.
SendsLeft(c) ==
    sent[c] + Cardinality({t \in Threads : pc[t] \in {"send", "sendWait"}
                                           /\ Chan(t) = c}) < MaxSends

Call(t, place, chans) ==
    /\ pc[t] = "idle"
    /\ \A i \in DOMAIN chans : ~deleted[chans[i]]
    /\ Move(t, place, {})
    /\ arg' = [arg EXCEPT ![t] = chans]

CallSend(t, c) ==
    /\ SendsLeft(c)
    /\ Call(t, "send", <<c>>)
    /\ UNCHANGED <<ring, waiting, turn, start, k, aborted>>

CallRecv(t, c) ==
    /\ Call(t, "recv", <<c>>)
    /\ UNCHANGED <<ring, waiting, turn, start, k, aborted>>

-----------------------------------------------------------------------------
(* anti_rt_chan_send *)

SendWait(t) ==
    /\ pc[t] = "send"
    /\ Full(Chan(t)) /\ ~closed[Chan(t)]
    /\ Move(t, "sendWait", {})
    /\ UNCHANGED <<ring, waiting, call, aborted>>

\* A value sent after `close` would never be received: the program stops.
SendFatal(t) ==
    /\ pc[t] = "send"
    /\ closed[Chan(t)]
    /\ aborted' = TRUE
    /\ UNCHANGED <<ring, waiting, pc, call>>

\* The value goes into the slot behind the newest one.
Put(c) ==
    /\ values' = [values EXCEPT ![c][(head[c] + count[c]) % Capacity[c]]
                                    = sent[c] + 1]
    /\ count' = [count EXCEPT ![c] = @ + 1]
    /\ sent' = [sent EXCEPT ![c] = @ + 1]
    /\ UNCHANGED <<head, closed, deleted, got>>

\* Mutant: a send wakes a receiver only when the channel was empty.
SendPutWakesFirst(t) ==
    LET c == Chan(t) IN
    /\ pc[t] = "send"
    /\ ~Full(c) /\ ~closed[c]
    /\ Put(c)
    /\ \E wake \in IF count[c] = 0 THEN WakeOne("recvWait", c) ELSE {{}} :
          Move(t, "load", wake)
    /\ UNCHANGED <<waiting, call, aborted>>

SendPut(t) ==
    LET c == Chan(t) IN
    /\ pc[t] = "send"
    /\ ~Full(c) /\ ~closed[c]
    /\ Put(c)
    /\ \E wake \in WakeOne("recvWait", c) : Move(t, "load", wake)
    /\ UNCHANGED <<waiting, call, aborted>>

-----------------------------------------------------------------------------
(* wake_selects, the end of a send and of a close *)

\* No select waits: the call ends here and takes no lock.
NoSelectWaits(t) ==
    /\ pc[t] = "load"
    /\ waiting = 0
    /\ Return(t, {})
    /\ UNCHANGED <<ring, waiting, aborted>>

SelectWaits(t) ==
    /\ pc[t] = "load"
    /\ waiting > 0
    /\ Move(t, "broadcast", {})
    /\ UNCHANGED <<ring, waiting, call, aborted>>

\* Mutant: one select is woken in place of all.
BroadcastOne(t) ==
    /\ pc[t] = "broadcast"
    /\ SelectFree
    /\ \E wake \in {{u} : u \in {v \in Threads : pc[v] = "selectWait"}} \cup {{}} :
          Return(t, wake)
    /\ UNCHANGED <<ring, waiting, aborted>>

\* Under SELECT, every select that waits wakes up.
Broadcast(t) ==
    /\ pc[t] = "broadcast"
    /\ SelectFree
    /\ Return(t, {u \in Threads : pc[u] = "selectWait"})
    /\ UNCHANGED <<ring, waiting, aborted>>

-----------------------------------------------------------------------------
(* anti_rt_chan_recv *)

RecvWait(t) ==
    /\ pc[t] = "recv"
    /\ ~Ready(Chan(t))
    /\ Move(t, "recvWait", {})
    /\ UNCHANGED <<ring, waiting, call, aborted>>

\* Mutant: the head moves on without the wrap of the ring.
TakeNoWrap(c) ==
    /\ got' = [got EXCEPT ![c] = values[c][head[c]]]
    /\ head' = [head EXCEPT ![c] = IF @ + 1 > Capacity[c] - 1 THEN @ ELSE @ + 1]
    /\ count' = [count EXCEPT ![c] = @ - 1]
    /\ UNCHANGED <<values, closed, deleted, sent>>

\* take: the oldest value leaves the ring.  The caller wakes a sender.
Take(c) ==
    /\ got' = [got EXCEPT ![c] = values[c][head[c]]]
    /\ head' = [head EXCEPT ![c] = (@ + 1) % Capacity[c]]
    /\ count' = [count EXCEPT ![c] = @ - 1]
    /\ UNCHANGED <<values, closed, deleted, sent>>

RecvTake(t) ==
    LET c == Chan(t) IN
    /\ pc[t] = "recv"
    /\ count[c] > 0
    /\ Take(c)
    /\ \E wake \in WakeOne("sendWait", c) : Return(t, wake)
    /\ UNCHANGED <<waiting, aborted>>

\* The channel is closed and empty: recv gives NULL.
RecvNone(t) ==
    /\ pc[t] = "recv"
    /\ count[Chan(t)] = 0 /\ closed[Chan(t)]
    /\ Return(t, {})
    /\ UNCHANGED <<ring, waiting, aborted>>

-----------------------------------------------------------------------------
(* anti_rt_chan_close, anti_rt_chan_held and anti_rt_chan_delete *)

\* A second close changes nothing, and wakes all the same.
Close(t, c) ==
    /\ pc[t] = "idle"
    /\ ~deleted[c]
    /\ closed' = [closed EXCEPT ![c] = TRUE]
    /\ Move(t, "load", Waiters("recvWait", c) \cup Waiters("sendWait", c))
    /\ arg' = [arg EXCEPT ![t] = <<c>>]
    /\ UNCHANGED <<values, head, count, deleted, sent, got, waiting,
                   turn, start, k, aborted>>

\* `delete(c)` takes the values a channel still holds, one call each.  Its
\* thread is the last user of the channel.
TakeHeld(t, c) ==
    /\ pc[t] = "idle"
    /\ ~deleted[c] /\ Users(c) = {}
    /\ count[c] > 0
    /\ Take(c)
    /\ UNCHANGED <<waiting, pc, call, aborted>>

Delete(t, c) ==
    /\ pc[t] = "idle"
    /\ ~deleted[c] /\ Users(c) = {}
    /\ count[c] = 0
    /\ deleted' = [deleted EXCEPT ![c] = TRUE]
    /\ UNCHANGED <<values, head, count, closed, sent, got, waiting, pc, call,
                   aborted>>

-----------------------------------------------------------------------------
(* anti_rt_select *)

Arms(t) == Len(arg[t])

\* The channel of the k-th arm from the arm where this turn starts.
TriedArm(t) == arg[t][((start[t] + k[t]) % Arms(t)) + 1]

\* Mutant: every select starts at its first arm.
CallSelectFirst(t, chans) ==
    /\ Call(t, "try", chans)
    /\ start' = [start EXCEPT ![t] = 0]
    /\ turn' = [turn EXCEPT ![t] = (@ + 1) % TurnWrap]
    /\ UNCHANGED <<ring, waiting, k, aborted>>

\* The head of the loop: start is turn, and turn moves on.
CallSelect(t, chans) ==
    /\ Call(t, "try", chans)
    /\ start' = [start EXCEPT ![t] = turn[t] % Len(chans)]
    /\ turn' = [turn EXCEPT ![t] = (@ + 1) % TurnWrap]
    /\ UNCHANGED <<ring, waiting, k, aborted>>

\* try_arm finds a value, and select returns this arm.
TryTake(t) ==
    LET c == TriedArm(t) IN
    /\ pc[t] = "try"
    /\ count[c] > 0
    /\ Take(c)
    /\ \E wake \in WakeOne("sendWait", c) : Return(t, wake)
    /\ UNCHANGED <<waiting, aborted>>

\* try_arm finds the channel closed and empty, and select returns this arm.
TryNone(t) ==
    /\ pc[t] = "try"
    /\ count[TriedArm(t)] = 0 /\ closed[TriedArm(t)]
    /\ Return(t, {})
    /\ UNCHANGED <<ring, waiting, aborted>>

\* try_arm finds nothing: the next arm, or on to the wait.
TryNext(t) ==
    /\ pc[t] = "try"
    /\ ~Ready(TriedArm(t))
    /\ IF k[t] + 1 < Arms(t)
       THEN k' = [k EXCEPT ![t] = @ + 1] /\ UNCHANGED pc
       ELSE k' = [k EXCEPT ![t] = 0] /\ Move(t, "add", {})
    /\ UNCHANGED <<ring, waiting, arg, turn, start, aborted>>

\* The select counts itself before it looks again.
Add(t) ==
    /\ pc[t] = "add"
    /\ waiting' = waiting + 1
    /\ Move(t, "hold", {})
    /\ UNCHANGED <<ring, call, aborted>>

\* Mutant: the select waits without a second look at its channels.
HoldThenDoze(t) ==
    /\ pc[t] = "hold"
    /\ SelectFree
    /\ Move(t, "doze", {})
    /\ UNCHANGED <<ring, waiting, call, aborted>>

Hold(t) ==
    /\ pc[t] = "hold"
    /\ SelectFree
    /\ Move(t, "look", {})
    /\ UNCHANGED <<ring, waiting, call, aborted>>

\* any_ready, under SELECT: a channel is ready, so the select goes round.
LookReady(t) ==
    /\ pc[t] = "look"
    /\ Ready(arg[t][k[t] + 1])
    /\ k' = [k EXCEPT ![t] = 0]
    /\ Move(t, "sub", {})
    /\ UNCHANGED <<ring, waiting, arg, turn, start, aborted>>

\* any_ready, under SELECT: not this channel, nor any after the last one.
LookNext(t) ==
    /\ pc[t] = "look"
    /\ ~Ready(arg[t][k[t] + 1])
    /\ IF k[t] + 1 < Arms(t)
       THEN k' = [k EXCEPT ![t] = @ + 1] /\ UNCHANGED pc
       ELSE k' = [k EXCEPT ![t] = 0] /\ Move(t, "doze", {})
    /\ UNCHANGED <<ring, waiting, arg, turn, start, aborted>>

\* The wait gives SELECT back and sleeps in one step.
Doze(t) ==
    /\ pc[t] = "doze"
    /\ Move(t, "selectWait", {})
    /\ UNCHANGED <<ring, waiting, call, aborted>>

\* The wait takes SELECT again as it returns, and the select gives it back.
Rehold(t) ==
    /\ pc[t] = "rehold"
    /\ SelectFree
    /\ Move(t, "sub", {})
    /\ UNCHANGED <<ring, waiting, call, aborted>>

\* The select counts itself out and goes round the loop.
Sub(t) ==
    /\ pc[t] = "sub"
    /\ waiting' = waiting - 1
    /\ Move(t, "try", {})
    /\ start' = [start EXCEPT ![t] = turn[t] % Arms(t)]
    /\ turn' = [turn EXCEPT ![t] = (@ + 1) % TurnWrap]
    /\ UNCHANGED <<ring, arg, k, aborted>>

\* A wait on a condition may end without a wake.
Spurious(t) ==
    /\ pc[t] \in {"sendWait", "recvWait", "selectWait"}
    /\ Move(t, Woken(pc[t]), {})
    /\ UNCHANGED <<ring, waiting, call, aborted>>

-----------------------------------------------------------------------------
\* What a thread does inside a call once it is in it.
Step(t) ==
    \/ SendWait(t) \/ SendFatal(t) \/ SendPut(t)
    \/ NoSelectWaits(t) \/ SelectWaits(t) \/ Broadcast(t)
    \/ RecvWait(t) \/ RecvTake(t) \/ RecvNone(t)
    \/ TryTake(t) \/ TryNone(t) \/ TryNext(t)
    \/ Add(t) \/ Hold(t) \/ LookReady(t) \/ LookNext(t)
    \/ Doze(t) \/ Rehold(t) \/ Sub(t)

Begin(t) ==
    \/ \E c \in Channels : \/ CallSend(t, c) \/ CallRecv(t, c)
                           \/ Close(t, c) \/ TakeHeld(t, c) \/ Delete(t, c)
    \/ \E chans \in Selects : CallSelect(t, chans)

\* The abort of a send on a closed channel stops every thread.
Next ==
    /\ ~aborted
    /\ \E t \in Threads : Begin(t) \/ Step(t) \/ Spurious(t)

Spec == Init /\ [][Next]_vars

\* A thread that is not asleep keeps running inside a call: the monitors are
\* held for a few steps at a time and the system gives them on.  A program
\* need not make calls, and no wait ends by itself.
Fairness == \A t \in Threads : WF_vars(~aborted /\ Step(t))

FairSpec == Spec /\ Fairness

-----------------------------------------------------------------------------
(* Properties *)

\* The ring stays inside its slots and each thread is at a place.
TypeOK ==
    /\ \A c \in Channels :
          /\ values[c] \in [0 .. Capacity[c] - 1 -> 0 .. MaxSends]
          /\ head[c] \in 0 .. Capacity[c] - 1
          /\ count[c] \in 0 .. Capacity[c]
          /\ sent[c] \in 0 .. MaxSends
          /\ got[c] \in 0 .. MaxSends
    /\ closed \in [Channels -> BOOLEAN]
    /\ deleted \in [Channels -> BOOLEAN]
    /\ waiting \in 0 .. Cardinality(Threads)
    /\ pc \in [Threads -> Places]
    /\ arg \in [Threads -> {NoCall} \cup {<<c>> : c \in Channels} \cup Selects]
    /\ turn \in [Threads -> 0 .. TurnWrap - 1]
    /\ \A t \in Threads : start[t] \in Nat /\ k[t] \in Nat
    /\ aborted \in BOOLEAN

\* No receiver is stranded on NOT_EMPTY: while one sleeps, the channel is open
\* and every value in it has a receiver on its way, so that a wake_one which
\* another receiver or a select overtook strands nobody.
NoStrandedReceiver ==
    \A c \in Channels :
        Waiters("recvWait", c) # {} =>
            /\ ~closed[c]
            /\ count[c] <= Cardinality(Waiters("recv", c))

\* No sender is stranded on NOT_FULL: while one sleeps, the channel is open
\* and every free slot has a sender on its way.
NoStrandedSender ==
    \A c \in Channels :
        Waiters("sendWait", c) # {} =>
            /\ ~closed[c]
            /\ Capacity[c] - count[c] <= Cardinality(Waiters("send", c))

\* Nobody sleeps on a channel that has what it waits for, whoever the single
\* wakes of anti_rt_chan_send and anti_rt_chan_recv went to.
NobodyStranded == TypeOK /\ NoStrandedReceiver /\ NoStrandedSender

\* No select is stranded: while it sleeps with a channel of its own ready,
\* the send or the close that made it ready has not woken the selects yet.
\* This is the claim of the comment on `waiting`.
NoStrandedSelect ==
    \A t \in Threads :
        (pc[t] = "selectWait" /\ \E i \in DOMAIN arg[t] : Ready(arg[t][i]))
            => \E u \in Threads : pc[u] \in {"load", "broadcast"}

\* What a channel promises, with the ring read from its head.
Contents ==
    [c \in Channels |->
        [i \in 1 .. count[c] |-> values[c][(head[c] + i - 1) % Capacity[c]]]]

Fifo == INSTANCE FifoSpec WITH queue <- Contents

\* Values come out of each channel once, in the order they went in, through
\* recv, select and delete alike.
ImplementsFifo == Fifo!Spec
==============================================================================
