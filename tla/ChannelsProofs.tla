---------------------------- MODULE ChannelsProofs ----------------------------
(***************************************************************************)
(* Proofs about the channels for any threads, channels, capacities and     *)
(* selects: nobody sleeps on a channel that has what it waits for, no      *)
(* select misses the channel that became ready, and the ring is a queue.   *)
(*                                                                         *)
(* The induction needs to know where the argument of a call comes from,    *)
(* that `waiting` is the number of selects between the two counts, and     *)
(* what a select has seen on its way to sleep: while it holds SELECT, an   *)
(* arm it passed can become ready only by a thread that is yet to load     *)
(* `waiting`, which is not 0 then, and to take SELECT, which is not free.  *)
(***************************************************************************)
EXTENDS Channels, FiniteSetTheorems, SequenceTheorems, TLAPS

\* The places of a call on one channel, and of a select.
OneChannel == {"send", "sendWait", "recv", "recvWait", "load", "broadcast"}
InSelect == {"try", "add", "hold", "look", "doze", "selectWait", "rehold", "sub"}
Counted == {"hold", "look", "doze", "selectWait", "rehold", "sub"}

Slots(c) == 0 .. Capacity[c] - 1

RingOK ==
    /\ values = [c \in Channels |-> values[c]]
    /\ \A c \in Channels : values[c] \in [Slots(c) -> 0 .. MaxSends]
    /\ head \in [Channels -> Nat] /\ \A c \in Channels : head[c] \in Slots(c)
    /\ count \in [Channels -> Nat] /\ \A c \in Channels : count[c] <= Capacity[c]
    /\ sent \in [Channels -> 0 .. MaxSends]
    /\ got \in [Channels -> 0 .. MaxSends]
    /\ closed \in [Channels -> BOOLEAN]
    /\ deleted \in [Channels -> BOOLEAN]

\* The argument of the call t is in, and how far a walk over it can be.
InCall(t) ==
    /\ pc[t] = "idle" => arg[t] = NoCall
    /\ pc[t] \in OneChannel => \E c \in Channels : arg[t] = <<c>>
    /\ pc[t] \in InSelect => arg[t] \in Selects
    /\ pc[t] \in {"try", "look"} => k[t] < Arms(t)
    /\ pc[t] \notin {"try", "look"} => k[t] = 0

CallOK ==
    /\ pc \in [Threads -> Places]
    /\ arg \in [Threads -> {NoCall} \cup {<<c>> : c \in Channels} \cup Selects]
    /\ turn \in [Threads -> 0 .. TurnWrap - 1]
    /\ start \in [Threads -> Nat] /\ k \in [Threads -> Nat]
    /\ aborted \in BOOLEAN
    /\ \A t \in Threads : InCall(t)

\* `waiting` is the number of selects that counted themselves and not yet out.
Selecting == {t \in Threads : pc[t] \in Counted}
WaitingExact == waiting = Cardinality(Selecting)

\* The bound of the sends: the sends under way fit in it.
Senders(c) == {t \in Threads : pc[t] \in {"send", "sendWait"} /\ Chan(t) = c}
SendsFit == \A c \in Channels : sent[c] + Cardinality(Senders(c)) <= MaxSends

\* A send or a close has yet to tell the selects.
Untold == \E u \in Threads : pc[u] \in {"load", "broadcast"}

\* What a select has seen on its way to sleep.
Overlooked(t) ==
    \/ pc[t] \in {"doze", "selectWait"} /\ \E i \in DOMAIN arg[t] : Ready(arg[t][i])
    \/ pc[t] = "look" /\ \E i \in 1 .. k[t] : Ready(arg[t][i])
SelectSeen == \A t \in Threads : Overlooked(t) => Untold

ChanInv ==
    /\ RingOK /\ CallOK /\ WaitingExact /\ SendsFit /\ SelectSeen
    /\ NoStrandedReceiver /\ NoStrandedSender

USE ChannelsAssumption

LEMMA ChanInvInit == Init => ChanInv
<1> SUFFICES ASSUME Init PROVE ChanInv
  OBVIOUS
<1> USE DEF Init
<1>1. RingOK
  BY DEF RingOK, Slots
<1>2. CallOK
  <2>1. /\ pc \in [Threads -> Places] /\ turn \in [Threads -> 0 .. TurnWrap - 1]
        /\ start \in [Threads -> Nat] /\ k \in [Threads -> Nat]
    BY DEF Places
  <2>2. arg \in [Threads -> {NoCall} \cup {<<c>> : c \in Channels} \cup Selects]
    OBVIOUS
  <2>3. \A t \in Threads : pc[t] = "idle" /\ arg[t] = NoCall /\ k[t] = 0
    OBVIOUS
  <2> QED
    BY <2>1, <2>2, <2>3 DEF CallOK, InCall, OneChannel, InSelect
<1>3. WaitingExact
  <2>1. Selecting = {}
    BY DEF Selecting, Counted
  <2> QED
    BY <2>1, FS_EmptySet DEF WaitingExact
<1>4. SendsFit
  <2>1. ASSUME NEW c \in Channels PROVE Cardinality(Senders(c)) = 0 /\ sent[c] = 0
    <3>1. Senders(c) = {}
      BY DEF Senders
    <3> QED
      BY <3>1, FS_EmptySet
  <2> QED
    BY <2>1 DEF SendsFit
<1>5. SelectSeen /\ NoStrandedReceiver /\ NoStrandedSender
  BY DEF SelectSeen, Overlooked, NoStrandedReceiver, NoStrandedSender, Waiters
<1> QED
  BY <1>1, <1>2, <1>3, <1>4, <1>5 DEF ChanInv

-----------------------------------------------------------------------------
(* The channels of a call. *)

LEMMA ModRange ==
  ASSUME NEW n \in Nat \ {0}, NEW x \in Nat
  PROVE  x % n \in 0 .. n - 1
  OBVIOUS

LEMMA ChanOf ==
  ASSUME CallOK, NEW t \in Threads, pc[t] \in OneChannel
  PROVE  Chan(t) \in Channels /\ arg[t] = <<Chan(t)>>
  BY DEF CallOK, InCall, Chan

LEMMA ArmsOf ==
  ASSUME CallOK, NEW t \in Threads, pc[t] \in InSelect
  PROVE  /\ arg[t] \in Seq(Channels) /\ Arms(t) \in Nat \ {0}
         /\ DOMAIN arg[t] = 1 .. Arms(t)
         /\ \A i \in 1 .. Arms(t) : arg[t][i] \in Channels
<1>1. arg[t] \in Seq(Channels) /\ arg[t] # <<>>
  BY DEF CallOK, InCall
<1> QED
  BY <1>1 DEF Arms

LEMMA TriedArmOf ==
  ASSUME CallOK, NEW t \in Threads, pc[t] = "try"
  PROVE  TriedArm(t) \in Channels
<1>1. /\ Arms(t) \in Nat \ {0} /\ \A i \in 1 .. Arms(t) : arg[t][i] \in Channels
  BY ArmsOf DEF InSelect
<1>2. start[t] + k[t] \in Nat
  BY DEF CallOK
<1>3. (start[t] + k[t]) % Arms(t) \in 0 .. Arms(t) - 1
  BY <1>1, <1>2, ModRange
<1>4. ((start[t] + k[t]) % Arms(t)) + 1 \in 1 .. Arms(t)
  BY <1>1, <1>3
<1> QED
  BY <1>1, <1>4 DEF TriedArm

-----------------------------------------------------------------------------
(* What a step of t does to the other threads. *)

Sleeping == {"sendWait", "recvWait", "selectWait"}

\* The others stay in their calls, and at their places but for a wake.
OthersKeep(t) ==
    \A u \in Threads \ {t} :
        /\ arg'[u] = arg[u] /\ k'[u] = k[u]
        /\ pc'[u] = pc[u] \/ (pc[u] \in Sleeping /\ pc'[u] = Woken(pc[u]))

LEMMA MoveKeeps ==
  ASSUME CallOK, NEW t \in Threads, NEW place \in Places, NEW wake,
         Move(t, place, wake), \A u \in wake : u \in Threads /\ pc[u] \in Sleeping
  PROVE  /\ pc' \in [Threads -> Places] /\ pc'[t] = place
         /\ \A u \in Threads \ {t} :
               pc'[u] = pc[u] \/ (pc[u] \in Sleeping /\ pc'[u] = Woken(pc[u]))
<1>1. \A p \in Sleeping : Woken(p) \in Places
  BY DEF Sleeping, Woken, Places
<1> QED
  BY <1>1 DEF Move, CallOK

LEMMA WakeOneSleeps ==
  ASSUME NEW place \in Sleeping, NEW c, NEW wake \in WakeOne(place, c)
  PROVE  \A u \in wake : u \in Threads /\ pc[u] \in Sleeping
  BY DEF WakeOne, Waiters

\* A step keeps the calls of the others, so its own is what is left to show.
LEMMA CallKept ==
  ASSUME CallOK, NEW t \in Threads, OthersKeep(t),
         pc' \in [Threads -> Places],
         arg' \in [Threads -> {NoCall} \cup {<<c>> : c \in Channels} \cup Selects],
         turn' \in [Threads -> 0 .. TurnWrap - 1], start' \in [Threads -> Nat],
         k' \in [Threads -> Nat], aborted' \in BOOLEAN, InCall(t)'
  PROVE  CallOK'
<1>1. ASSUME NEW u \in Threads \ {t} PROVE InCall(u)'
  <2>1. /\ InCall(u) /\ arg'[u] = arg[u] /\ k'[u] = k[u]
        /\ pc'[u] = pc[u] \/ (pc[u] \in Sleeping /\ pc'[u] = Woken(pc[u]))
    BY DEF OthersKeep, CallOK
  <2> QED
    BY <2>1 DEF InCall, Sleeping, Woken, OneChannel, InSelect, Arms
<1> QED
  BY <1>1 DEF CallOK

LEMMA CallStep ==
  ASSUME CallOK, NEW t \in Threads, Begin(t) \/ Step(t) \/ Spurious(t)
  PROVE  CallOK' /\ OthersKeep(t)
<1> DEFINE Args == {NoCall} \cup {<<c>> : c \in Channels} \cup Selects
\* The steps that stay in the call, with its arguments and its walk.
<1>1. ASSUME UNCHANGED <<call, aborted>>, NEW place \in Places, NEW wake,
             \A u \in wake : u \in Threads /\ pc[u] \in Sleeping,
             Move(t, place, wake),
             \/ pc[t] \in OneChannel /\ place \in OneChannel
             \/ pc[t] \in InSelect /\ place \in InSelect /\ place # "try"
                /\ pc[t] \notin {"try", "look"}
      PROVE  CallOK' /\ OthersKeep(t)
  <2>1. /\ pc' \in [Threads -> Places] /\ pc'[t] = place
        /\ \A u \in Threads \ {t} :
              pc'[u] = pc[u] \/ (pc[u] \in Sleeping /\ pc'[u] = Woken(pc[u]))
    BY <1>1, MoveKeeps
  <2>2. OthersKeep(t)
    BY <1>1, <2>1 DEF OthersKeep, call
  <2>3. InCall(t)'
    <3>1. InCall(t) /\ arg' = arg /\ k' = k
      BY <1>1 DEF call, CallOK
    <3>2. CASE pc[t] \in OneChannel /\ place \in OneChannel
      BY <3>1, <3>2, <2>1 DEF InCall, OneChannel, InSelect
    <3>3. CASE pc[t] \in InSelect /\ place \in InSelect /\ place # "try"
               /\ pc[t] \notin {"try", "look"}
      <4>1. Arms(t) \in Nat \ {0} /\ k[t] = 0
        BY <3>1, <3>3, ArmsOf DEF InCall
      <4> QED
        BY <3>1, <3>3, <4>1, <2>1 DEF InCall, OneChannel, InSelect, Arms
    <3> QED
      BY <1>1, <3>2, <3>3
  <2>4. UNCHANGED <<arg, turn, start, k, aborted>>
    BY <1>1 DEF call
  <2> QED
    BY <2>1, <2>2, <2>3, <2>4, CallKept DEF CallOK
\* The steps that return.
<1>2. ASSUME NEW wake, \A u \in wake : u \in Threads /\ pc[u] \in Sleeping,
             Return(t, wake), UNCHANGED aborted
      PROVE  CallOK' /\ OthersKeep(t)
  <2>1. /\ pc' \in [Threads -> Places] /\ pc'[t] = "idle"
        /\ \A u \in Threads \ {t} :
              pc'[u] = pc[u] \/ (pc[u] \in Sleeping /\ pc'[u] = Woken(pc[u]))
    BY <1>2, MoveKeeps DEF Return, Places
  <2>2. /\ arg' \in [Threads -> Args] /\ arg'[t] = NoCall
        /\ start' \in [Threads -> Nat] /\ k' \in [Threads -> Nat] /\ k'[t] = 0
        /\ turn' \in [Threads -> 0 .. TurnWrap - 1] /\ aborted' \in BOOLEAN
        /\ \A u \in Threads \ {t} : arg'[u] = arg[u] /\ k'[u] = k[u]
    BY <1>2 DEF Return, CallOK
  <2>3. OthersKeep(t)
    BY <2>1, <2>2 DEF OthersKeep
  <2>4. InCall(t)'
    BY <2>1, <2>2 DEF InCall, OneChannel, InSelect
  <2> QED
    BY <2>1, <2>2, <2>3, <2>4, CallKept
\* The steps that begin a call or go on to another walk over the arms.
<1>3. ASSUME NEW place \in Places, NEW wake,
             \A u \in wake : u \in Threads /\ pc[u] \in Sleeping,
             Move(t, place, wake),
             NEW a \in Args, arg' = [arg EXCEPT ![t] = a],
             NEW m \in Nat, k' = [k EXCEPT ![t] = m],
             start' \in [Threads -> Nat], turn' \in [Threads -> 0 .. TurnWrap - 1],
             UNCHANGED aborted,
             \/ place \in OneChannel /\ m = 0 /\ \E c \in Channels : a = <<c>>
             \/ /\ place \in InSelect /\ a \in Selects
                /\ m = 0 \/ (place \in {"try", "look"} /\ m < Len(a))
      PROVE  CallOK' /\ OthersKeep(t)
  <2>1. /\ pc' \in [Threads -> Places] /\ pc'[t] = place
        /\ \A u \in Threads \ {t} :
              pc'[u] = pc[u] \/ (pc[u] \in Sleeping /\ pc'[u] = Woken(pc[u]))
    BY <1>3, MoveKeeps
  <2>2. /\ arg' \in [Threads -> Args] /\ arg'[t] = a
        /\ k' \in [Threads -> Nat] /\ k'[t] = m /\ aborted' \in BOOLEAN
        /\ \A u \in Threads \ {t} : arg'[u] = arg[u] /\ k'[u] = k[u]
    BY <1>3 DEF CallOK
  <2>3. OthersKeep(t)
    BY <2>1, <2>2 DEF OthersKeep
  <2>4. InCall(t)'
    <3>1. CASE place \in OneChannel /\ m = 0 /\ \E c \in Channels : a = <<c>>
      BY <2>1, <2>2, <3>1 DEF InCall, OneChannel, InSelect
    <3>2. CASE /\ place \in InSelect /\ a \in Selects
               /\ m = 0 \/ (place \in {"try", "look"} /\ m < Len(a))
      <4>1. a \in Seq(Channels) /\ a # <<>>
        BY <3>2
      <4>2. Len(a) > 0
        BY <4>1
      <4> QED
        BY <2>1, <2>2, <3>2, <4>2 DEF InCall, OneChannel, InSelect, Arms
    <3> QED
      BY <1>3, <3>1, <3>2
  <2> QED
    BY <1>3, <2>1, <2>2, <2>3, <2>4, CallKept
\* The steps that move no thread.
<1>4. ASSUME UNCHANGED <<pc, call>>, aborted' \in BOOLEAN
      PROVE  CallOK' /\ OthersKeep(t)
  BY <1>4 DEF CallOK, InCall, OthersKeep, call, Arms
<1>5. arg \in [Threads -> Args] /\ k \in [Threads -> Nat] /\ InCall(t)
      /\ start \in [Threads -> Nat] /\ turn \in [Threads -> 0 .. TurnWrap - 1]
  BY DEF CallOK
<1> HIDE DEF Args
<1>6. \A c \in Channels : <<c>> \in Args
  BY DEF Args
<1>7. Selects \subseteq Args
  BY DEF Args
\* A call changes k as little as the arms of no call do.
<1>8. ASSUME UNCHANGED k, pc[t] = "idle" PROVE k' = [k EXCEPT ![t] = 0]
  BY <1>5, <1>8 DEF InCall
<1> DEFINE NoWake == {}
<1>w. \A u \in NoWake : u \in Threads /\ pc[u] \in Sleeping
  OBVIOUS
<1> HIDE DEF NoWake
<1>9. ASSUME NEW c \in Channels, CallSend(t, c) \/ CallRecv(t, c)
      PROVE  CallOK' /\ OthersKeep(t)
  <2>1. PICK place \in {"send", "recv"} : Move(t, place, NoWake)
    BY <1>9 DEF NoWake, CallSend, CallRecv, Call
  <2>2. /\ pc[t] = "idle" /\ arg' = [arg EXCEPT ![t] = <<c>>]
        /\ UNCHANGED <<turn, start, k, aborted>>
    BY <1>9 DEF CallSend, CallRecv, Call
  <2>3. place \in Places /\ place \in OneChannel
    BY DEF Places, OneChannel
  <2>4. <<c>> \in Args /\ k' = [k EXCEPT ![t] = 0]
    BY <1>6, <1>8, <2>2
  <2> QED
    BY <1>3, <1>5, <1>w, <2>1, <2>2, <2>3, <2>4
<1>10. ASSUME NEW c \in Channels, Close(t, c) PROVE CallOK' /\ OthersKeep(t)
  <2> DEFINE wake == Waiters("recvWait", c) \cup Waiters("sendWait", c)
  <2>1. \A u \in wake : u \in Threads /\ pc[u] \in Sleeping
    BY DEF Waiters, Sleeping
  <2>2. /\ pc[t] = "idle" /\ arg' = [arg EXCEPT ![t] = <<c>>]
        /\ Move(t, "load", wake) /\ UNCHANGED <<turn, start, k, aborted>>
    BY <1>10 DEF Close
  <2> HIDE DEF wake
  <2> QED
    BY <1>3, <1>5, <1>6, <1>8, <2>1, <2>2 DEF Places, OneChannel
<1>11. ASSUME NEW c \in Channels, TakeHeld(t, c) \/ Delete(t, c)
       PROVE  CallOK' /\ OthersKeep(t)
  <2>1. UNCHANGED <<pc, call>> /\ aborted' \in BOOLEAN
    BY <1>11 DEF TakeHeld, Delete, CallOK
  <2> QED
    BY <1>4, <2>1
<1>12. ASSUME NEW chans \in Selects, CallSelect(t, chans)
       PROVE  CallOK' /\ OthersKeep(t)
  <2>1. /\ pc[t] = "idle" /\ arg' = [arg EXCEPT ![t] = chans]
        /\ Move(t, "try", NoWake) /\ UNCHANGED <<k, aborted>>
        /\ start' = [start EXCEPT ![t] = turn[t] % Len(chans)]
        /\ turn' = [turn EXCEPT ![t] = (@ + 1) % TurnWrap]
    BY <1>12 DEF CallSelect, Call, NoWake
  <2>2. chans \in Seq(Channels) /\ chans # <<>>
    OBVIOUS
  <2>3. Len(chans) \in Nat \ {0}
    BY <2>2
  <2>4. turn[t] \in Nat
    BY <1>5
  <2>5. turn[t] % Len(chans) \in Nat /\ (turn[t] + 1) % TurnWrap \in 0 .. TurnWrap - 1
    <3>1. turn[t] % Len(chans) \in 0 .. Len(chans) - 1
      BY <2>3, <2>4, ModRange
    <3>2. turn[t] + 1 \in Nat /\ TurnWrap \in Nat \ {0}
      BY <2>4
    <3>3. (turn[t] + 1) % TurnWrap \in 0 .. TurnWrap - 1
      BY <3>2, ModRange
    <3> QED
      BY <2>3, <3>1, <3>3
  <2>6. start' \in [Threads -> Nat] /\ turn' \in [Threads -> 0 .. TurnWrap - 1]
    BY <1>5, <2>1, <2>5
  <2>7. "try" \in Places /\ "try" \in InSelect
    BY DEF Places, InSelect
  <2>8. chans \in Args /\ k' = [k EXCEPT ![t] = 0]
    BY <1>7, <1>8, <2>1
  <2> QED
    BY <1>3, <1>w, <2>1, <2>6, <2>7, <2>8
<1>13. CASE SendWait(t) \/ SelectWaits(t) \/ RecvWait(t)
  <2>1. PICK place \in {"sendWait", "broadcast", "recvWait"} : Move(t, place, NoWake)
    BY <1>13 DEF SendWait, SelectWaits, RecvWait, NoWake
  <2>2. UNCHANGED <<call, aborted>> /\ pc[t] \in OneChannel
    BY <1>13 DEF SendWait, SelectWaits, RecvWait, OneChannel
  <2>3. place \in Places /\ place \in OneChannel
    BY DEF Places, OneChannel
  <2> QED
    BY <1>1, <1>w, <2>1, <2>2, <2>3
<1>14. CASE SendFatal(t)
  <2>1. UNCHANGED <<pc, call>> /\ aborted' \in BOOLEAN
    BY <1>14 DEF SendFatal
  <2> QED
    BY <1>4, <2>1
<1>15. CASE SendPut(t)
  <2>1. PICK wake \in WakeOne("recvWait", Chan(t)) : Move(t, "load", wake)
    BY <1>15 DEF SendPut
  <2>2. \A u \in wake : u \in Threads /\ pc[u] \in Sleeping
    BY WakeOneSleeps DEF Sleeping
  <2>3. UNCHANGED <<call, aborted>> /\ pc[t] \in OneChannel
    BY <1>15 DEF SendPut, OneChannel
  <2>4. "load" \in Places /\ "load" \in OneChannel
    BY DEF Places, OneChannel
  <2> QED
    BY <1>1, <2>1, <2>2, <2>3, <2>4
<1>16. CASE NoSelectWaits(t) \/ RecvNone(t) \/ TryNone(t)
  <2>1. Return(t, NoWake) /\ UNCHANGED aborted
    BY <1>16 DEF NoSelectWaits, RecvNone, TryNone, NoWake
  <2> QED
    BY <1>2, <1>w, <2>1
<1>17. CASE Broadcast(t)
  <2> DEFINE wake == {u \in Threads : pc[u] = "selectWait"}
  <2>1. Return(t, wake) /\ UNCHANGED aborted
    BY <1>17 DEF Broadcast
  <2>2. \A u \in wake : u \in Threads /\ pc[u] \in Sleeping
    BY DEF Sleeping
  <2> HIDE DEF wake
  <2> QED
    BY <1>2, <2>1, <2>2
<1>18. CASE RecvTake(t) \/ TryTake(t)
  <2>1. PICK c : \E wake \in WakeOne("sendWait", c) : Return(t, wake)
    BY <1>18 DEF RecvTake, TryTake
  <2>2. PICK wake \in WakeOne("sendWait", c) : Return(t, wake)
    BY <2>1
  <2>3. UNCHANGED aborted
    BY <1>18 DEF RecvTake, TryTake
  <2>4. \A u \in wake : u \in Threads /\ pc[u] \in Sleeping
    BY WakeOneSleeps DEF Sleeping
  <2> QED
    BY <1>2, <2>2, <2>3, <2>4
<1>19. CASE Add(t) \/ Hold(t) \/ Doze(t) \/ Rehold(t)
  <2>1. PICK place \in {"hold", "look", "selectWait", "sub"} : Move(t, place, NoWake)
    BY <1>19 DEF Add, Hold, Doze, Rehold, NoWake
  <2>2. UNCHANGED <<call, aborted>> /\ pc[t] \in {"add", "hold", "doze", "rehold"}
    BY <1>19 DEF Add, Hold, Doze, Rehold
  <2>3. place \in Places /\ place \in InSelect /\ place # "try"
        /\ pc[t] \in InSelect /\ pc[t] \notin {"try", "look"}
    BY <2>2 DEF Places, InSelect
  <2> QED
    BY <1>1, <1>w, <2>1, <2>2, <2>3
\* The walks over the arms.
<1>20. ASSUME pc[t] \in {"try", "look"}, UNCHANGED <<arg, turn, start, aborted>>,
              NEW place \in {"try", "look", "add", "doze", "sub"},
              pc' = [pc EXCEPT ![t] = place],
              NEW m \in Nat, k' = [k EXCEPT ![t] = m],
              m = 0 \/ (place \in {"try", "look"} /\ m < Arms(t))
       PROVE  CallOK' /\ OthersKeep(t)
  <2>1. Move(t, place, NoWake)
    BY <1>20 DEF Move, NoWake, CallOK
  <2>2. arg' = [arg EXCEPT ![t] = arg[t]] /\ arg[t] \in Selects
    BY <1>5, <1>20 DEF InCall, InSelect
  <2>3. place \in Places /\ place \in InSelect /\ arg[t] \in Args
    BY <1>7, <2>2 DEF Places, InSelect
  <2> QED
    BY <1>3, <1>5, <1>20, <1>w, <2>1, <2>2, <2>3 DEF Arms
<1>21. CASE TryNext(t) \/ LookReady(t) \/ LookNext(t)
  <2>1. pc[t] \in {"try", "look"} /\ UNCHANGED <<arg, turn, start, aborted>>
    BY <1>21 DEF TryNext, LookReady, LookNext
  <2>2. CASE /\ k[t] + 1 < Arms(t)
             /\ k' = [k EXCEPT ![t] = @ + 1] /\ UNCHANGED pc
    <3>1. k[t] + 1 \in Nat /\ k' = [k EXCEPT ![t] = k[t] + 1]
          /\ pc' = [pc EXCEPT ![t] = pc[t]]
      BY <1>5, <2>2 DEF CallOK
    <3> QED
      BY <1>20, <2>1, <2>2, <3>1
  <2>3. ASSUME NEW place \in {"add", "doze", "sub"}, Move(t, place, {}),
               k' = [k EXCEPT ![t] = 0]
        PROVE  CallOK' /\ OthersKeep(t)
    <3>1. pc' = [pc EXCEPT ![t] = place]
      BY <2>3 DEF Move, CallOK
    <3> QED
      BY <1>20, <2>1, <2>3, <3>1
  <2> QED
    BY <1>21, <2>2, <2>3 DEF TryNext, LookReady, LookNext
<1>22. CASE Sub(t)
  <2>1. /\ pc[t] = "sub" /\ Move(t, "try", NoWake) /\ UNCHANGED <<arg, k, aborted>>
        /\ start' = [start EXCEPT ![t] = turn[t] % Arms(t)]
        /\ turn' = [turn EXCEPT ![t] = (@ + 1) % TurnWrap]
    BY <1>22 DEF Sub, NoWake
  <2>2. /\ arg' = [arg EXCEPT ![t] = arg[t]] /\ k' = [k EXCEPT ![t] = 0]
        /\ arg[t] \in Selects
    BY <1>5, <2>1 DEF InCall, InSelect
  <2>3. Arms(t) \in Nat \ {0} /\ turn[t] \in Nat
    BY <1>5, <2>1, ArmsOf DEF InSelect
  <2>4. turn[t] % Arms(t) \in Nat /\ (turn[t] + 1) % TurnWrap \in 0 .. TurnWrap - 1
    <3>1. turn[t] % Arms(t) \in 0 .. Arms(t) - 1
      BY <2>3, ModRange
    <3>2. turn[t] + 1 \in Nat /\ TurnWrap \in Nat \ {0}
      BY <2>3
    <3>3. (turn[t] + 1) % TurnWrap \in 0 .. TurnWrap - 1
      BY <3>2, ModRange
    <3> QED
      BY <2>3, <3>1, <3>3
  <2>5. start' \in [Threads -> Nat] /\ turn' \in [Threads -> 0 .. TurnWrap - 1]
    BY <1>5, <2>1, <2>4
  <2>6. "try" \in Places /\ "try" \in InSelect /\ arg[t] \in Args
    BY <1>7, <2>2 DEF Places, InSelect
  <2> QED
    BY <1>3, <1>w, <2>1, <2>2, <2>5, <2>6
<1>23. CASE Spurious(t)
  <2>1. /\ pc[t] \in Sleeping /\ Move(t, Woken(pc[t]), NoWake)
        /\ UNCHANGED <<call, aborted>>
    BY <1>23 DEF Spurious, Sleeping, NoWake
  <2>2. /\ Woken(pc[t]) \in Places
        /\ \/ pc[t] \in OneChannel /\ Woken(pc[t]) \in OneChannel
           \/ pc[t] \in InSelect /\ Woken(pc[t]) \in InSelect
              /\ Woken(pc[t]) # "try" /\ pc[t] \notin {"try", "look"}
    BY <2>1 DEF Sleeping, Woken, Places, OneChannel, InSelect
  <2> QED
    BY <1>1, <1>w, <2>1, <2>2
<1>24. CASE Begin(t)
  BY <1>9, <1>10, <1>11, <1>12, <1>24 DEF Begin
<1>25. CASE Step(t)
  BY <1>13, <1>14, <1>15, <1>16, <1>17, <1>18, <1>19, <1>21, <1>22, <1>25 DEF Step
<1> QED
  BY <1>23, <1>24, <1>25

-----------------------------------------------------------------------------
(* The counts. *)

LEMMA FiniteThreads ==
  ASSUME NEW S, S \subseteq Threads
  PROVE  IsFiniteSet(S) /\ Cardinality(S) \in Nat
         /\ Cardinality(S) <= Cardinality(Threads) /\ Cardinality(Threads) \in Nat
  BY FS_Subset, FS_CardinalityType

LEMMA MoreThreads ==
  ASSUME NEW S, NEW T, S \subseteq T, T \subseteq Threads
  PROVE  Cardinality(S) <= Cardinality(T)
<1>1. IsFiniteSet(T)
  BY FiniteThreads
<1> QED
  BY <1>1, FS_Subset

LEMMA OneMore ==
  ASSUME NEW S, S \subseteq Threads, NEW t \in Threads \ S
  PROVE  Cardinality(S \cup {t}) = Cardinality(S) + 1
<1>1. IsFiniteSet(S)
  BY FiniteThreads
<1> QED
  BY <1>1, FS_AddElement

LEMMA OneLess ==
  ASSUME NEW S, S \subseteq Threads, NEW t \in S
  PROVE  Cardinality(S \ {t}) = Cardinality(S) - 1
<1>1. IsFiniteSet(S)
  BY FiniteThreads
<1> QED
  BY <1>1, FS_RemoveElement

\* Where a step leads its own thread.
LEMMA MoveLands ==
  ASSUME CallOK, NEW t \in Threads, NEW place, NEW wake, Move(t, place, wake)
  PROVE  pc'[t] = place
  BY DEF Move

LEMMA WaitingStep ==
  ASSUME CallOK, WaitingExact, NEW t \in Threads, OthersKeep(t),
         Begin(t) \/ Step(t) \/ Spurious(t)
  PROVE  WaitingExact'
<1>0. ASSUME NEW u \in Threads \ {t}
      PROVE  pc'[u] \in Counted <=> pc[u] \in Counted
  BY DEF OthersKeep, Sleeping, Woken, Counted
<1> DEFINE Same == waiting' = waiting /\ (pc'[t] \in Counted <=> pc[t] \in Counted)
<1>1. ASSUME Same PROVE WaitingExact'
  <2>1. Selecting' = Selecting
    BY <1>0, <1>1 DEF Selecting
  <2> QED
    BY <1>1, <2>1 DEF WaitingExact
<1>2. CASE Begin(t)
  BY <1>1, <1>2, MoveLands DEF Begin, CallSend, CallRecv, Close, TakeHeld, Delete,
     CallSelect, Call, Counted
<1>3. CASE SendWait(t) \/ SendFatal(t) \/ SendPut(t) \/ SelectWaits(t) \/ RecvWait(t)
  BY <1>1, <1>3, MoveLands DEF SendWait, SendFatal, SendPut, SelectWaits, RecvWait,
     Counted
<1>4. CASE NoSelectWaits(t) \/ Broadcast(t) \/ RecvTake(t) \/ RecvNone(t)
           \/ TryTake(t) \/ TryNone(t)
  BY <1>1, <1>4, MoveLands DEF NoSelectWaits, Broadcast, RecvTake, RecvNone, TryTake,
     TryNone, Return, Counted
<1>5. CASE TryNext(t) \/ Hold(t) \/ LookReady(t) \/ LookNext(t) \/ Doze(t) \/ Rehold(t)
  BY <1>1, <1>5, MoveLands DEF TryNext, Hold, LookReady, LookNext, Doze, Rehold, Counted
<1>6. CASE Spurious(t)
  BY <1>1, <1>6, MoveLands DEF Spurious, Woken, Counted
<1>7. CASE Add(t)
  <2>1. Selecting' = Selecting \cup {t} /\ t \notin Selecting
    BY <1>0, <1>7, MoveLands DEF Add, Selecting, Counted
  <2>2. Cardinality(Selecting') = Cardinality(Selecting) + 1
    BY <2>1, OneMore DEF Selecting
  <2> QED
    BY <1>7, <2>2 DEF Add, WaitingExact
<1>8. CASE Sub(t)
  <2>1. Selecting' = Selecting \ {t} /\ t \in Selecting
    BY <1>0, <1>8, MoveLands DEF Sub, Selecting, Counted
  <2>2. Cardinality(Selecting') = Cardinality(Selecting) - 1
    BY <2>1, OneLess DEF Selecting
  <2> QED
    BY <1>8, <2>2 DEF Sub, WaitingExact
<1> QED
  BY <1>2, <1>3, <1>4, <1>5, <1>6, <1>7, <1>8 DEF Step

-----------------------------------------------------------------------------
(* Those who sleep on a channel. *)

Pairs == {<<"recvWait", "recv">>, <<"sendWait", "send">>}

\* Who sleeps stays served over a step of t.  n and m are what the channel has
\* for the sleepers before and after it.
LEMMA ServedKept ==
  ASSUME CallOK, NEW t \in Threads, OthersKeep(t),
         NEW asleep, NEW awake, <<asleep, awake>> \in Pairs, NEW c \in Channels,
         NEW n \in Int, NEW m \in Int,
         Waiters(asleep, c) # {} =>
            ~closed[c] /\ n <= Cardinality(Waiters(awake, c)),
         closed'[c] = closed[c],
         \/ m <= 0 /\ ~closed[c]
         \/ Waiters(asleep, c) = {} /\ t \notin Waiters(asleep, c)'
         \/ /\ t \in Waiters(asleep, c)' => t \in Waiters(asleep, c)
            /\ \/ m <= n /\ (t \in Waiters(awake, c) => t \in Waiters(awake, c)')
               \/ m <= n - 1
         \/ /\ t \notin Waiters(asleep, c)' /\ t \notin Waiters(awake, c)
            /\ m <= n + 1
            /\ \E w \in Waiters(asleep, c) \ {t} : pc'[w] = awake
  PROVE  Waiters(asleep, c)' # {} =>
            ~closed'[c] /\ m <= Cardinality(Waiters(awake, c)')
<1> DEFINE W == Waiters(asleep, c)
           R == Waiters(awake, c)
           Wn == Waiters(asleep, c)'
           Rn == Waiters(awake, c)'
<1>1. W \subseteq Threads /\ R \subseteq Threads /\ Wn \subseteq Threads
      /\ Rn \subseteq Threads
  BY DEF Waiters
<1>2. \A u \in Threads \ {t} : Chan(u)' = Chan(u)
  BY DEF OthersKeep, Chan
<1>3. R \ {t} \subseteq Rn /\ Wn \ {t} \subseteq W
  BY <1>2 DEF OthersKeep, Waiters, Pairs, Sleeping, Woken
<1>4. W \cap R = {}
  BY DEF Waiters, Pairs
<1>5. \A w \in W \ {t} : pc'[w] = awake => w \in Rn
  BY <1>2 DEF Waiters
<1> HIDE DEF W, R, Wn, Rn
<1>6. Cardinality(R) \in Nat /\ Cardinality(Rn) \in Nat
  BY <1>1, FiniteThreads
<1> SUFFICES ASSUME Wn # {} PROVE ~closed[c] /\ m <= Cardinality(Rn)
  BY DEF Wn, Rn
<1>7. W # {} => ~closed[c] /\ n <= Cardinality(R)
  BY DEF W, R
<1>8. CASE m <= 0 /\ ~closed[c]
  BY <1>6, <1>8
<1>9. CASE W = {} /\ t \notin Wn
  BY <1>3, <1>9
<1>10. CASE t \in Wn => t \in W
  <2>1. W # {}
    BY <1>3, <1>10
  <2>2. CASE m <= n /\ (t \in R => t \in Rn)
    <3>1. Cardinality(R) <= Cardinality(Rn)
      BY <1>1, <1>3, <2>2, MoreThreads
    <3> QED
      BY <1>6, <1>7, <2>1, <2>2, <3>1
  <2>3. CASE m <= n - 1
    <3>1. Cardinality(R \ {t}) <= Cardinality(Rn)
      BY <1>1, <1>3, MoreThreads
    <3>2. Cardinality(R \ {t}) >= Cardinality(R) - 1
      <4>1. CASE t \in R
        BY <1>1, <1>6, <4>1, OneLess
      <4>2. CASE t \notin R
        <5>1. R \ {t} = R
          BY <4>2
        <5>2. Cardinality(R \ {t}) = Cardinality(R)
          BY <5>1, Zenon
        <5> QED
          BY <1>6, <5>2
      <4> QED
        BY <4>1, <4>2
    <3>3. Cardinality(R \ {t}) \in Nat
      BY <1>1, FiniteThreads
    <3> QED
      BY <1>6, <1>7, <2>1, <2>3, <3>1, <3>2, <3>3
  <2>4. CASE /\ t \notin Wn /\ t \notin R /\ m <= n + 1
             /\ \E w \in W \ {t} : pc'[w] = awake
    <3>1. PICK w \in W \ {t} : pc'[w] = awake
      BY <2>4
    <3>2. R \cup {w} \subseteq Rn /\ w \in Threads \ R
      BY <1>1, <1>3, <1>4, <1>5, <2>4, <3>1
    <3>3. Cardinality(R \cup {w}) = Cardinality(R) + 1
      BY <1>1, <3>2, OneMore
    <3>4. Cardinality(R \cup {w}) <= Cardinality(Rn)
      BY <1>1, <3>2, MoreThreads
    <3> QED
      BY <1>6, <1>7, <2>1, <2>4, <3>3, <3>4
  <2> QED
    BY <1>8, <1>9, <2>2, <2>3, <2>4 DEF W, R, Wn, Rn
<1> QED
  BY <1>8, <1>9, <1>10 DEF W, R, Wn, Rn

\* A wake_one finds a sleeper, or nobody sleeps.
LEMMA WakeOneWakes ==
  ASSUME CallOK, NEW t \in Threads, NEW place, NEW asleep, NEW awake,
         <<asleep, awake>> \in Pairs, NEW c, NEW wake \in WakeOne(asleep, c),
         Move(t, place, wake), pc[t] # asleep
  PROVE  \/ Waiters(asleep, c) = {}
         \/ \E w \in Waiters(asleep, c) \ {t} : pc'[w] = awake
<1>1. CASE Waiters(asleep, c) # {}
  <2>1. PICK w \in Waiters(asleep, c) : wake = {w}
    BY <1>1 DEF WakeOne
  <2>2. w \in Threads /\ w # t /\ pc[w] = asleep
    BY DEF Waiters
  <2>3. pc'[w] = Woken(asleep)
    BY <2>1, <2>2 DEF Move
  <2>4. Woken(asleep) = awake
    BY DEF Pairs, Woken
  <2> QED
    BY <2>2, <2>3, <2>4
<1> QED
  BY <1>1

LEMMA StrandedStep ==
  ASSUME CallOK, CallOK', RingOK, RingOK', NoStrandedReceiver, NoStrandedSender,
         NEW t \in Threads, OthersKeep(t), Begin(t) \/ Step(t) \/ Spurious(t)
  PROVE  NoStrandedReceiver' /\ NoStrandedSender'
<1> SUFFICES ASSUME NEW c \in Channels
             PROVE  /\ Waiters("recvWait", c)' # {} =>
                          /\ ~closed'[c]
                          /\ count'[c] <= Cardinality(Waiters("recv", c)')
                    /\ Waiters("sendWait", c)' # {} =>
                          /\ ~closed'[c]
                          /\ Capacity[c] - count'[c] <= Cardinality(Waiters("send", c)')
  BY DEF NoStrandedReceiver, NoStrandedSender
<1> DEFINE RecvGoal == Waiters("recvWait", c)' # {} =>
                          /\ ~closed'[c]
                          /\ count'[c] <= Cardinality(Waiters("recv", c)')
           SendGoal == Waiters("sendWait", c)' # {} =>
                          /\ ~closed'[c]
                          /\ Capacity[c] - count'[c] <= Cardinality(Waiters("send", c)')
           At(place) == t \in Waiters(place, c)
           AtNext(place) == t \in Waiters(place, c)'
<1>1. /\ count[c] \in Int /\ count'[c] \in Int /\ Capacity[c] \in Int
      /\ Waiters("recvWait", c) # {} =>
            ~closed[c] /\ count[c] <= Cardinality(Waiters("recv", c))
      /\ Waiters("sendWait", c) # {} =>
            ~closed[c] /\ Capacity[c] - count[c] <= Cardinality(Waiters("send", c))
  BY DEF RingOK, NoStrandedReceiver, NoStrandedSender
\* What is enough for the receivers, and for the senders.
<1>2. ASSUME closed'[c] = closed[c],
             \/ count'[c] <= 0 /\ ~closed[c]
             \/ Waiters("recvWait", c) = {} /\ ~AtNext("recvWait")
             \/ /\ AtNext("recvWait") => At("recvWait")
                /\ \/ count'[c] <= count[c] /\ (At("recv") => AtNext("recv"))
                   \/ count'[c] <= count[c] - 1
             \/ /\ ~AtNext("recvWait") /\ ~At("recv") /\ count'[c] <= count[c] + 1
                /\ \E w \in Waiters("recvWait", c) \ {t} : pc'[w] = "recv"
      PROVE  RecvGoal
  <2>1. <<"recvWait", "recv">> \in Pairs
    BY DEF Pairs
  <2> QED
    BY <1>1, <1>2, <2>1, ServedKept
<1>3. ASSUME closed'[c] = closed[c],
             \/ Capacity[c] - count'[c] <= 0 /\ ~closed[c]
             \/ Waiters("sendWait", c) = {} /\ ~AtNext("sendWait")
             \/ /\ AtNext("sendWait") => At("sendWait")
                /\ \/ Capacity[c] - count'[c] <= Capacity[c] - count[c]
                      /\ (At("send") => AtNext("send"))
                   \/ Capacity[c] - count'[c] <= Capacity[c] - count[c] - 1
             \/ /\ ~AtNext("sendWait") /\ ~At("send")
                /\ Capacity[c] - count'[c] <= Capacity[c] - count[c] + 1
                /\ \E w \in Waiters("sendWait", c) \ {t} : pc'[w] = "send"
      PROVE  SendGoal
  <2>1. <<"sendWait", "send">> \in Pairs
    BY DEF Pairs
  <2>2. Capacity[c] - count[c] \in Int /\ Capacity[c] - count'[c] \in Int
    BY <1>1
  <2> QED
    BY <1>1, <1>3, <2>1, <2>2, ServedKept
<1> HIDE DEF RecvGoal, SendGoal, At, AtNext
<1> SUFFICES RecvGoal /\ SendGoal
  BY DEF RecvGoal, SendGoal
\* The channel keeps what it has, and t leaves no sleeper behind.
<1>4. ASSUME closed'[c] = closed[c], count'[c] = count[c],
             AtNext("recvWait") => At("recvWait"), At("recv") => AtNext("recv"),
             AtNext("sendWait") => At("sendWait"), At("send") => AtNext("send")
      PROVE  RecvGoal /\ SendGoal
  BY <1>1, <1>2, <1>3, <1>4
<1> USE DEF At, AtNext
\* The steps of a thread that is and will be at none of the four places.
<1>5. ASSUME UNCHANGED ring,
             pc[t] \notin {"recv", "recvWait", "send", "sendWait"},
             pc'[t] \notin {"recvWait", "sendWait"}
      PROVE  RecvGoal /\ SendGoal
  BY <1>4, <1>5 DEF Waiters, ring
<1>6. CASE \E d \in Channels : CallSend(t, d) \/ CallRecv(t, d)
  BY <1>5, <1>6, MoveLands DEF CallSend, CallRecv, Call
<1>7. CASE \E chans \in Selects : CallSelect(t, chans)
  BY <1>5, <1>7, MoveLands DEF CallSelect, Call
<1>8. CASE NoSelectWaits(t) \/ SelectWaits(t) \/ Broadcast(t) \/ TryNone(t)
  BY <1>5, <1>8, MoveLands DEF NoSelectWaits, SelectWaits, Broadcast, TryNone, Return
<1>9. CASE TryNext(t) \/ Add(t) \/ Hold(t) \/ LookReady(t) \/ LookNext(t)
           \/ Doze(t) \/ Rehold(t) \/ Sub(t)
  BY <1>5, <1>9, MoveLands DEF TryNext, Add, Hold, LookReady, LookNext, Doze, Rehold,
     Sub
<1>10. CASE SendFatal(t)
  BY <1>4, <1>10 DEF SendFatal, Waiters, ring, call, Chan
<1>11. CASE Spurious(t)
  <2>1. /\ UNCHANGED ring /\ Chan(t)' = Chan(t)
        /\ pc[t] \in Sleeping /\ pc'[t] = Woken(pc[t])
    BY <1>11, MoveLands DEF Spurious, Sleeping, call, Chan
  <2> QED
    BY <1>4, <2>1 DEF Waiters, ring, Sleeping, Woken
<1>12. CASE SendWait(t)
  <2>1. /\ UNCHANGED ring /\ Chan(t)' = Chan(t) /\ pc[t] = "send" /\ pc'[t] = "sendWait"
        /\ Full(Chan(t)) /\ ~closed[Chan(t)]
    BY <1>12, MoveLands DEF SendWait, call, Chan
  <2>2. CASE Chan(t) = c
    <3>1. closed'[c] = closed[c] /\ count'[c] = count[c] /\ Capacity[c] - count'[c] <= 0
      BY <1>1, <2>1, <2>2 DEF Full, ring
    <3>2. ~AtNext("recvWait") /\ ~At("recv")
      BY <2>1 DEF Waiters
    <3> QED
      BY <1>1, <1>2, <1>3, <2>1, <2>2, <3>1, <3>2
  <2>3. CASE Chan(t) # c
    BY <1>4, <2>1, <2>3 DEF Waiters, ring
  <2> QED
    BY <2>2, <2>3
<1>13. CASE RecvWait(t)
  <2>1. /\ UNCHANGED ring /\ Chan(t)' = Chan(t) /\ pc[t] = "recv" /\ pc'[t] = "recvWait"
        /\ ~Ready(Chan(t))
    BY <1>13, MoveLands DEF RecvWait, call, Chan
  <2>2. CASE Chan(t) = c
    <3>1. closed'[c] = closed[c] /\ count'[c] = count[c] /\ count'[c] <= 0 /\ ~closed[c]
      BY <1>1, <2>1, <2>2 DEF Ready, ring
    <3>2. ~AtNext("sendWait") /\ ~At("send")
      BY <2>1 DEF Waiters
    <3> QED
      BY <1>1, <1>2, <1>3, <2>1, <2>2, <3>1, <3>2
  <2>3. CASE Chan(t) # c
    BY <1>4, <2>1, <2>3 DEF Waiters, ring
  <2> QED
    BY <2>2, <2>3
<1>14. CASE SendPut(t)
  <2>1. /\ pc[t] = "send" /\ Chan(t)' = Chan(t) /\ closed' = closed
        /\ count' = [count EXCEPT ![Chan(t)] = @ + 1]
    BY <1>14 DEF SendPut, Put, call, Chan
  <2>2. PICK wake \in WakeOne("recvWait", Chan(t)) : Move(t, "load", wake)
    BY <1>14 DEF SendPut
  <2>3. pc'[t] = "load"
    BY <2>2, MoveLands
  <2>4. CASE Chan(t) = c
    <3>1. count'[c] = count[c] + 1 /\ closed'[c] = closed[c]
      BY <2>1, <2>4 DEF RingOK
    <3>2. /\ ~AtNext("recvWait") /\ ~At("recv") /\ ~At("recvWait")
          /\ ~AtNext("sendWait")
      BY <2>1, <2>3 DEF Waiters
    <3>3. \/ Waiters("recvWait", c) = {}
          \/ \E w \in Waiters("recvWait", c) \ {t} : pc'[w] = "recv"
      <4>1. <<"recvWait", "recv">> \in Pairs /\ pc[t] # "recvWait"
        BY <2>1 DEF Pairs
      <4> QED
        BY <2>2, <2>4, <4>1, WakeOneWakes
    <3>4. RecvGoal
      BY <1>1, <1>2, <3>1, <3>2, <3>3
    <3>5. Capacity[c] - count'[c] <= Capacity[c] - count[c] - 1
      BY <1>1, <3>1
    <3>6. SendGoal
      BY <1>3, <3>1, <3>2, <3>5
    <3> QED
      BY <3>4, <3>6
  <2>5. CASE Chan(t) # c
    BY <1>4, <2>1, <2>3, <2>5 DEF Waiters, RingOK
  <2> QED
    BY <2>4, <2>5
\* A value that is taken from channel d, by a receiver or a select.
<1>15. ASSUME NEW d \in Channels, Take(d), pc[t] \in {"recv", "try"},
              pc[t] = "recv" => Chan(t) = d,
              \E wake \in WakeOne("sendWait", d) : Return(t, wake)
       PROVE  RecvGoal /\ SendGoal
  <2>1. closed' = closed /\ count' = [count EXCEPT ![d] = @ - 1]
    BY <1>15 DEF Take
  <2>2. PICK wake \in WakeOne("sendWait", d) : Move(t, "idle", wake)
    BY <1>15 DEF Return
  <2>3. pc'[t] = "idle"
    BY <2>2, MoveLands
  <2>4. CASE d = c
    <3>1. count'[c] = count[c] - 1 /\ closed'[c] = closed[c]
      BY <2>1, <2>4 DEF RingOK
    <3>2. /\ ~AtNext("recvWait") /\ ~AtNext("sendWait") /\ ~At("send")
      BY <1>15, <2>3 DEF Waiters
    <3>3. \/ Waiters("sendWait", c) = {}
          \/ \E w \in Waiters("sendWait", c) \ {t} : pc'[w] = "send"
      <4>1. <<"sendWait", "send">> \in Pairs /\ pc[t] # "sendWait"
        BY <1>15 DEF Pairs
      <4> QED
        BY <2>2, <2>4, <4>1, WakeOneWakes
    <3>4. RecvGoal
      BY <1>1, <1>2, <3>1, <3>2
    <3>5. Capacity[c] - count'[c] <= Capacity[c] - count[c] + 1
      BY <1>1, <3>1
    <3>6. SendGoal
      BY <1>3, <3>1, <3>2, <3>3, <3>5
    <3> QED
      BY <3>4, <3>6
  <2>5. CASE d # c
    <3>1. closed'[c] = closed[c] /\ count'[c] = count[c]
      BY <2>1, <2>5 DEF RingOK
    <3>2. /\ ~At("recv") /\ ~At("send") /\ ~AtNext("recvWait") /\ ~AtNext("sendWait")
      BY <1>15, <2>3, <2>5 DEF Waiters
    <3> QED
      BY <1>4, <3>1, <3>2
  <2> QED
    BY <2>4, <2>5
<1>16. CASE RecvTake(t)
  <2>1. Chan(t) \in Channels
    BY <1>16, ChanOf DEF RecvTake, OneChannel
  <2> QED
    BY <1>15, <1>16, <2>1 DEF RecvTake
<1>17. CASE TryTake(t)
  <2>1. TriedArm(t) \in Channels
    BY <1>17, TriedArmOf DEF TryTake
  <2> QED
    BY <1>15, <1>17, <2>1 DEF TryTake
<1>18. CASE RecvNone(t)
  <2>1. /\ UNCHANGED ring /\ pc[t] = "recv" /\ closed[Chan(t)] /\ pc'[t] = "idle"
    BY <1>18, MoveLands DEF RecvNone, Return
  <2>2. /\ closed'[c] = closed[c] /\ count'[c] = count[c]
        /\ ~AtNext("recvWait") /\ ~AtNext("sendWait") /\ ~At("send")
    BY <2>1 DEF ring, Waiters
  <2>3. At("recv") => Waiters("recvWait", c) = {}
    BY <1>1, <2>1 DEF Waiters
  <2> QED
    BY <1>1, <1>2, <1>3, <2>2, <2>3
<1>19. ASSUME NEW d \in Channels, Close(t, d) PROVE RecvGoal /\ SendGoal
  <2>1. /\ pc[t] = "idle" /\ pc'[t] = "load" /\ count' = count
        /\ closed' = [closed EXCEPT ![d] = TRUE]
    BY <1>19, MoveLands DEF Close
  <2>2. CASE d = c
    <3>1. \A u \in Threads \ {t} : Chan(u)' = Chan(u)
      BY DEF OthersKeep, Chan
    <3>2. ASSUME NEW u \in Threads, Chan(u)' = c,
                 pc'[u] \in {"recvWait", "sendWait"}
          PROVE  FALSE
      <4>1. u # t /\ Chan(u) = c
        BY <2>1, <3>1, <3>2
      <4>2. pc[u] \in {"recvWait", "sendWait"} => pc'[u] = Woken(pc[u])
        BY <1>19, <2>2, <4>1 DEF Close, Move, Waiters
      <4>3. pc[u] \in {"recvWait", "sendWait"}
        BY <3>2, <4>1 DEF OthersKeep, Sleeping, Woken
      <4> QED
        BY <3>2, <4>2, <4>3 DEF Woken
    <3> QED
      BY <3>2 DEF RecvGoal, SendGoal, Waiters
  <2>3. CASE d # c
    BY <1>4, <2>1, <2>3 DEF Waiters, RingOK
  <2> QED
    BY <2>2, <2>3
<1>20. ASSUME NEW d \in Channels, TakeHeld(t, d) PROVE RecvGoal /\ SendGoal
  <2>1. /\ pc' = pc /\ Chan(t)' = Chan(t) /\ closed' = closed
        /\ count' = [count EXCEPT ![d] = @ - 1] /\ Users(d) = {}
    BY <1>20 DEF TakeHeld, Take, call, Chan
  <2>2. CASE d = c
    <3>1. ASSUME NEW u \in Threads, pc[u] \in OneChannel PROVE Chan(u) # d
      <4>1. arg[u] = <<Chan(u)>>
        BY <3>1, ChanOf
      <4>2. 1 \in DOMAIN arg[u] /\ arg[u][1] = Chan(u)
        BY <4>1
      <4> QED
        BY <2>1, <4>2 DEF Users
    <3>2. Waiters("recvWait", c) = {} /\ Waiters("sendWait", c) = {}
      BY <2>2, <3>1 DEF Waiters, OneChannel
    <3>3. closed'[c] = closed[c] /\ ~AtNext("recvWait") /\ ~AtNext("sendWait")
      BY <2>1, <3>2 DEF Waiters
    <3> QED
      BY <1>2, <1>3, <3>2, <3>3
  <2>3. CASE d # c
    BY <1>4, <2>1, <2>3 DEF Waiters, RingOK
  <2> QED
    BY <2>2, <2>3
<1>21. ASSUME NEW d \in Channels, Delete(t, d) PROVE RecvGoal /\ SendGoal
  <2>1. pc' = pc /\ Chan(t)' = Chan(t) /\ closed' = closed /\ count' = count
    BY <1>21 DEF Delete, call, Chan
  <2> QED
    BY <1>4, <2>1 DEF Waiters
<1>22. CASE Begin(t)
  BY <1>6, <1>7, <1>19, <1>20, <1>21, <1>22 DEF Begin
<1>23. CASE Step(t)
  BY <1>8, <1>9, <1>10, <1>12, <1>13, <1>14, <1>16, <1>17, <1>18, <1>23 DEF Step
<1> QED
  BY <1>11, <1>22, <1>23

-----------------------------------------------------------------------------
(* The ring and the sends. *)

\* Nothing but Put, Take, Close and Delete changes a ring, and each of them one
\* that is not deleted by a user of it.
LEMMA RingChanges ==
  ASSUME CallOK, NEW t \in Threads, Begin(t) \/ Step(t) \/ Spurious(t)
  PROVE  \/ UNCHANGED ring
         \/ \E c \in Channels :
               \/ SendPut(t) /\ c = Chan(t) /\ pc[t] = "send" /\ ~Full(c) /\ ~closed[c]
                  /\ Put(c)
               \/ Take(c) /\ count[c] > 0
               \/ /\ closed' = [closed EXCEPT ![c] = TRUE]
                  /\ UNCHANGED <<values, head, count, deleted, sent, got>>
               \/ /\ deleted' = [deleted EXCEPT ![c] = TRUE]
                  /\ UNCHANGED <<values, head, count, closed, sent, got>>
<1>1. CASE SendPut(t)
  <2>1. Chan(t) \in Channels
    BY <1>1, ChanOf DEF SendPut, OneChannel
  <2> QED
    BY <1>1, <2>1 DEF SendPut
<1>2. CASE RecvTake(t)
  <2>1. Chan(t) \in Channels
    BY <1>2, ChanOf DEF RecvTake, OneChannel
  <2> QED
    BY <1>2, <2>1 DEF RecvTake
<1>3. CASE TryTake(t)
  <2>1. TriedArm(t) \in Channels
    BY <1>3, TriedArmOf DEF TryTake
  <2> QED
    BY <1>3, <2>1 DEF TryTake
<1>4. CASE Begin(t)
  BY <1>4 DEF Begin, CallSend, CallRecv, Close, TakeHeld, Delete, CallSelect
<1>5. CASE SendWait(t) \/ SendFatal(t) \/ NoSelectWaits(t) \/ SelectWaits(t)
           \/ Broadcast(t) \/ RecvWait(t) \/ RecvNone(t)
  BY <1>5 DEF SendWait, SendFatal, NoSelectWaits, SelectWaits, Broadcast, RecvWait,
              RecvNone
<1>6. CASE TryNone(t) \/ TryNext(t) \/ Add(t) \/ Hold(t) \/ LookReady(t)
           \/ LookNext(t) \/ Doze(t) \/ Rehold(t) \/ Sub(t) \/ Spurious(t)
  BY <1>6 DEF TryNone, TryNext, Add, Hold, LookReady, LookNext, Doze, Rehold, Sub,
              Spurious
<1> QED
  BY <1>1, <1>2, <1>3, <1>4, <1>5, <1>6 DEF Step

\* A send that is about to put its value is within the bound.
LEMMA SendFits ==
  ASSUME CallOK, RingOK, SendsFit, NEW t \in Threads, pc[t] = "send"
  PROVE  sent[Chan(t)] + 1 <= MaxSends
<1>1. Chan(t) \in Channels
  BY ChanOf DEF OneChannel
<1>2. Senders(Chan(t)) \subseteq Threads /\ t \in Senders(Chan(t))
  BY DEF Senders
<1>3. Cardinality(Senders(Chan(t))) \in Nat /\ Cardinality(Senders(Chan(t))) # 0
  BY <1>2, FiniteThreads, FS_EmptySet
<1> QED
  BY <1>1, <1>3 DEF SendsFit, RingOK

LEMMA RingStep ==
  ASSUME CallOK, RingOK, SendsFit, NEW t \in Threads,
         Begin(t) \/ Step(t) \/ Spurious(t)
  PROVE  RingOK'
<1>1. CASE UNCHANGED ring
  BY <1>1 DEF RingOK, ring
<1>2. ASSUME NEW c \in Channels, c = Chan(t), pc[t] = "send", ~Full(c), Put(c)
      PROVE  RingOK'
  <2>1. sent[c] + 1 \in 0 .. MaxSends
    BY <1>2, SendFits DEF RingOK
  <2>2. Capacity[c] \in Nat \ {0} /\ head[c] + count[c] \in Nat
        /\ count[c] + 1 <= Capacity[c]
    BY <1>2 DEF RingOK, Full
  <2>3. (head[c] + count[c]) % Capacity[c] \in Slots(c)
    BY <2>2, ModRange DEF Slots
  <2> DEFINE slot == (head[c] + count[c]) % Capacity[c]
             row == [values[c] EXCEPT ![slot] = sent[c] + 1]
  <2>4. values' = [values EXCEPT ![c] = row]
    BY <1>2 DEF Put
  <2>5. row \in [Slots(c) -> 0 .. MaxSends]
    BY <2>1, <2>3 DEF RingOK
  <2> HIDE DEF row, slot
  <2>6. values' = [d \in Channels |-> values'[d]]
        /\ \A d \in Channels : values'[d] = IF d = c THEN row ELSE values[d]
    BY <2>4 DEF RingOK
  <2>7. \A d \in Channels : values'[d] \in [Slots(d) -> 0 .. MaxSends]
    BY <2>5, <2>6 DEF RingOK
  <2>8. /\ count' \in [Channels -> Nat] /\ \A d \in Channels : count'[d] <= Capacity[d]
        /\ sent' \in [Channels -> 0 .. MaxSends]
    BY <1>2, <2>1, <2>2 DEF Put, RingOK
  <2> QED
    BY <1>2, <2>6, <2>7, <2>8 DEF Put, RingOK
<1>3. ASSUME NEW c \in Channels, Take(c), count[c] > 0 PROVE RingOK'
  <2>1. Capacity[c] \in Nat \ {0} /\ head[c] + 1 \in Nat
    BY DEF RingOK, Slots
  <2>a. (head[c] + 1) % Capacity[c] \in Slots(c)
    BY <2>1, ModRange DEF Slots
  <2>2. (head[c] + 1) % Capacity[c] \in Slots(c) /\ (head[c] + 1) % Capacity[c] \in Nat
    BY <2>1, <2>a DEF Slots
  <2>3. head' \in [Channels -> Nat] /\ \A d \in Channels : head'[d] \in Slots(d)
    BY <1>3, <2>2 DEF Take, RingOK
  <2>4. values[c][head[c]] \in 0 .. MaxSends
    BY DEF RingOK
  <2>5. got' \in [Channels -> 0 .. MaxSends]
    BY <1>3, <2>4 DEF Take, RingOK
  <2>6. count' \in [Channels -> Nat] /\ \A d \in Channels : count'[d] <= Capacity[d]
    BY <1>3 DEF Take, RingOK
  <2> QED
    BY <1>3, <2>3, <2>5, <2>6 DEF Take, RingOK
<1>4. ASSUME NEW c \in Channels,
             \/ /\ closed' = [closed EXCEPT ![c] = TRUE]
                /\ UNCHANGED <<values, head, count, deleted, sent, got>>
             \/ /\ deleted' = [deleted EXCEPT ![c] = TRUE]
                /\ UNCHANGED <<values, head, count, closed, sent, got>>
      PROVE  RingOK'
  BY <1>4 DEF RingOK
<1> QED
  BY <1>1, <1>2, <1>3, <1>4, RingChanges

LEMMA SendsStep ==
  ASSUME CallOK, RingOK, SendsFit, NEW t \in Threads, OthersKeep(t),
         Begin(t) \/ Step(t) \/ Spurious(t)
  PROVE  SendsFit'
<1> SUFFICES ASSUME NEW c \in Channels
             PROVE  sent'[c] + Cardinality(Senders(c)') <= MaxSends
  BY DEF SendsFit
<1>1. /\ Senders(c) \subseteq Threads /\ Senders(c)' \subseteq Threads
      /\ sent[c] \in Nat /\ sent[c] + Cardinality(Senders(c)) <= MaxSends
  BY DEF Senders, RingOK, SendsFit
<1>2. Cardinality(Senders(c)) \in Nat /\ Cardinality(Senders(c)') \in Nat
  BY <1>1, FiniteThreads
<1>3. Senders(c)' \ {t} \subseteq Senders(c)
  BY DEF OthersKeep, Senders, Chan, Sleeping, Woken
<1>4. ASSUME sent' = sent, t \in Senders(c)' => t \in Senders(c)
      PROVE  sent'[c] + Cardinality(Senders(c)') <= MaxSends
  <2>1. Cardinality(Senders(c)') <= Cardinality(Senders(c))
    BY <1>1, <1>3, <1>4, MoreThreads
  <2> QED
    BY <1>1, <1>2, <1>4, <2>1
<1>5. ASSUME NEW d \in Channels, CallSend(t, d)
      PROVE  sent'[c] + Cardinality(Senders(c)') <= MaxSends
  <2>1. sent' = sent /\ pc[t] = "idle" /\ arg' = [arg EXCEPT ![t] = <<d>>]
        /\ SendsLeft(d)
    BY <1>5 DEF CallSend, Call, ring
  <2>2. Chan(t)' = d
    BY <2>1 DEF Chan, CallOK
  <2>3. CASE c = d
    <3>1. Senders(c)' \subseteq Senders(c) \cup {t} /\ t \notin Senders(c)
      BY <1>3, <2>1 DEF Senders
    <3>2. Cardinality(Senders(c) \cup {t}) = Cardinality(Senders(c)) + 1
      BY <1>1, <3>1, OneMore
    <3>3. Senders(c) \cup {t} \subseteq Threads
      BY <1>1
    <3>4. Cardinality(Senders(c)') <= Cardinality(Senders(c) \cup {t})
      BY <3>1, <3>3, MoreThreads
    <3>5. sent[c] + Cardinality(Senders(c)) < MaxSends
      BY <2>1, <2>3 DEF SendsLeft, Senders
    <3> QED
      BY <1>1, <1>2, <2>1, <3>2, <3>4, <3>5
  <2>4. CASE c # d
    BY <1>4, <2>1, <2>2, <2>4 DEF Senders
  <2> QED
    BY <2>3, <2>4
<1>6. CASE SendPut(t)
  <2>1. /\ pc[t] = "send" /\ pc'[t] = "load" /\ Chan(t) \in Channels
        /\ sent' = [sent EXCEPT ![Chan(t)] = @ + 1]
    BY <1>6, MoveLands, ChanOf DEF SendPut, Put, OneChannel
  <2>2. CASE c = Chan(t)
    <3>1. Senders(c)' \subseteq Senders(c) \ {t} /\ t \in Senders(c)
      BY <1>3, <2>1, <2>2 DEF Senders
    <3>2. Cardinality(Senders(c) \ {t}) = Cardinality(Senders(c)) - 1
      BY <1>1, <3>1, OneLess
    <3>3. Senders(c) \ {t} \subseteq Threads
      BY <1>1
    <3>4. Cardinality(Senders(c)') <= Cardinality(Senders(c) \ {t})
      BY <3>1, <3>3, MoreThreads
    <3>5. sent'[c] = sent[c] + 1
      BY <2>1, <2>2 DEF RingOK
    <3> QED
      BY <1>1, <1>2, <3>2, <3>4, <3>5
  <2>3. CASE c # Chan(t)
    <3>1. sent'[c] = sent[c] /\ Senders(c)' \subseteq Senders(c)
      BY <1>3, <2>1, <2>3 DEF Senders, RingOK
    <3>2. Cardinality(Senders(c)') <= Cardinality(Senders(c))
      BY <1>1, <3>1, MoreThreads
    <3> QED
      BY <1>1, <1>2, <3>1, <3>2
  <2> QED
    BY <2>2, <2>3
<1>7. ASSUME NEW d \in Channels,
             CallRecv(t, d) \/ Close(t, d) \/ TakeHeld(t, d) \/ Delete(t, d)
      PROVE  sent'[c] + Cardinality(Senders(c)') <= MaxSends
  <2>1. sent' = sent
    BY <1>7 DEF CallRecv, Close, TakeHeld, Delete, Take, ring
  <2>2. t \notin Senders(c)'
    BY <1>7, MoveLands DEF CallRecv, Call, Close, TakeHeld, Delete, Senders
  <2> QED
    BY <1>4, <2>1, <2>2
<1>8. CASE \E chans \in Selects : CallSelect(t, chans)
  BY <1>4, <1>8, MoveLands DEF CallSelect, Call, ring, Senders
<1>9. CASE SendWait(t) \/ SendFatal(t) \/ Spurious(t)
  BY <1>4, <1>9, MoveLands DEF SendWait, SendFatal, Spurious, ring, call, Senders, Chan,
     Woken
<1>10. CASE NoSelectWaits(t) \/ SelectWaits(t) \/ Broadcast(t) \/ RecvNone(t)
            \/ RecvWait(t) \/ RecvTake(t) \/ TryTake(t) \/ TryNone(t)
  BY <1>4, <1>10, MoveLands DEF NoSelectWaits, SelectWaits, Broadcast, RecvNone,
     RecvWait, RecvTake, TryTake, TryNone, Take, Return, ring, Senders
<1>11. CASE TryNext(t) \/ Add(t) \/ Hold(t) \/ LookReady(t) \/ LookNext(t) \/ Doze(t)
            \/ Rehold(t) \/ Sub(t)
  BY <1>4, <1>11, MoveLands DEF TryNext, Add, Hold, LookReady, LookNext, Doze, Rehold,
     Sub, ring, Senders
<1> QED
  BY <1>5, <1>6, <1>7, <1>8, <1>9, <1>10, <1>11 DEF Begin, Step

-----------------------------------------------------------------------------
(* What a select has seen. *)

LEMMA SeenStep ==
  ASSUME CallOK, CallOK', RingOK, RingOK', WaitingExact, SelectSeen,
         NEW t \in Threads, OthersKeep(t), Begin(t) \/ Step(t) \/ Spurious(t)
  PROVE  SelectSeen'
\* A select on its way to sleep is counted.
<1>1. ASSUME NEW u \in Threads, Overlooked(u) PROVE waiting # 0
  <2>1. u \in Selecting /\ Selecting \subseteq Threads
    BY <1>1 DEF Overlooked, Selecting, Counted
  <2> QED
    BY <2>1, FiniteThreads, FS_EmptySet DEF WaitingExact
\* A send or a close is yet to tell.
<1>2. ASSUME pc'[t] \in {"load", "broadcast"} PROVE SelectSeen'
  BY <1>2 DEF SelectSeen, Untold
<1>3. ASSUME Untold, pc[t] \notin {"load", "broadcast"} PROVE Untold'
  BY <1>3 DEF Untold, OthersKeep, Sleeping
\* No channel becomes ready, and t overlooks nothing that it did not before.
<1>4. ASSUME pc[t] \notin {"load", "broadcast"},
             \A c \in Channels : Ready(c)' => Ready(c),
             Overlooked(t)' => Overlooked(t)
      PROVE  SelectSeen'
  <2>1. ASSUME NEW u \in Threads \ {t}, Overlooked(u)' PROVE Overlooked(u)
    <3>1. /\ arg'[u] = arg[u] /\ k'[u] = k[u] /\ pc'[u] = pc[u]
      BY <2>1 DEF OthersKeep, Overlooked, Sleeping, Woken
    <3>2. \A i \in DOMAIN arg[u] : arg[u][i] \in Channels
      BY <2>1, <3>1, ArmsOf DEF Overlooked, InSelect
    <3>3. ASSUME pc[u] = "look" PROVE \A i \in 1 .. k[u] : i \in DOMAIN arg[u]
      <4>1. DOMAIN arg[u] = 1 .. Arms(u) /\ Arms(u) \in Nat
        BY <3>3, ArmsOf DEF InSelect
      <4>2. k[u] \in Nat /\ k[u] < Arms(u)
        BY <3>3 DEF CallOK, InCall
      <4> QED
        BY <4>1, <4>2
    <3> QED
      BY <1>4, <2>1, <3>1, <3>2, <3>3 DEF Overlooked
  <2> QED
    BY <1>3, <1>4, <2>1 DEF SelectSeen
\* The same where t is at no place that looks or sleeps.
<1>5. ASSUME pc[t] \notin {"load", "broadcast"},
             \A c \in Channels : Ready(c)' => Ready(c),
             pc'[t] \notin {"look", "doze", "selectWait"}
      PROVE  SelectSeen'
  BY <1>4, <1>5 DEF Overlooked
<1>6. ASSUME UNCHANGED ring PROVE \A c \in Channels : Ready(c)' => Ready(c)
  BY <1>6 DEF ring, Ready
<1>7. ASSUME NEW d, Take(d) PROVE \A c \in Channels : Ready(c)' => Ready(c)
  BY <1>7 DEF Take, Ready, RingOK
<1>8. ASSUME NEW d \in Channels,
             CallSend(t, d) \/ CallRecv(t, d) \/ TakeHeld(t, d) \/ Delete(t, d)
      PROVE  SelectSeen'
  <2>1. pc[t] = "idle" /\ pc'[t] \in {"idle", "send", "recv"}
    BY <1>8, MoveLands DEF CallSend, CallRecv, Call, TakeHeld, Delete
  <2>2. \A c \in Channels : Ready(c)' => Ready(c)
    BY <1>6, <1>7, <1>8 DEF CallSend, CallRecv, TakeHeld, Delete, Ready
  <2> QED
    BY <1>5, <2>1, <2>2
<1>9. ASSUME NEW d \in Channels, Close(t, d) PROVE SelectSeen'
  BY <1>2, <1>9, MoveLands DEF Close
<1>10. CASE \E chans \in Selects : CallSelect(t, chans)
  BY <1>5, <1>6, <1>10, MoveLands DEF CallSelect, Call
<1>11. CASE SendPut(t) \/ SelectWaits(t)
  BY <1>2, <1>11, MoveLands DEF SendPut, SelectWaits
<1>12. CASE SendWait(t) \/ SendFatal(t) \/ RecvWait(t) \/ RecvNone(t) \/ TryNone(t)
            \/ Spurious(t)
  BY <1>5, <1>6, <1>12, MoveLands DEF SendWait, SendFatal, RecvWait, RecvNone, TryNone,
     Return, Spurious, Woken
<1>13. CASE RecvTake(t) \/ TryTake(t)
  BY <1>5, <1>7, <1>13, MoveLands DEF RecvTake, TryTake, Return
<1>14. CASE TryNext(t) \/ Add(t) \/ LookReady(t) \/ Rehold(t) \/ Sub(t)
  BY <1>5, <1>6, <1>14, MoveLands DEF TryNext, Add, LookReady, Rehold, Sub
\* The call ends without a lock: no select is counted.
<1>15. CASE NoSelectWaits(t)
  <2>1. waiting = 0 /\ UNCHANGED ring /\ pc'[t] = "idle"
    BY <1>15, MoveLands DEF NoSelectWaits, Return
  <2>2. ASSUME NEW u \in Threads, Overlooked(u)' PROVE FALSE
    <3>1. u # t /\ pc'[u] = pc[u]
      BY <2>1, <2>2 DEF OthersKeep, Overlooked, Sleeping, Woken
    <3>2. u \in Selecting
      BY <2>2, <3>1 DEF Overlooked, Selecting, Counted
    <3> QED
      BY <2>1, <3>2, FiniteThreads, FS_EmptySet DEF WaitingExact, Selecting
  <2> QED
    BY <2>2 DEF SelectSeen
\* Under SELECT, all that sleep wake up, and nobody is between look and sleep.
<1>16. CASE Broadcast(t)
  <2>1. ASSUME NEW u \in Threads PROVE pc'[u] \notin {"look", "doze", "selectWait"}
    <3>1. CASE u = t
      BY <1>16, <3>1, MoveLands DEF Broadcast, Return
    <3>2. CASE u # t
      <4>1. pc[u] \notin {"look", "doze"}
        BY <1>16 DEF Broadcast, SelectFree
      <4>2. pc[u] = "selectWait" => pc'[u] = Woken("selectWait")
        BY <1>16, <3>2 DEF Broadcast, Return, Move
      <4> QED
        BY <3>2, <4>1, <4>2 DEF OthersKeep, Sleeping, Woken
    <3> QED
      BY <3>1, <3>2
  <2> QED
    BY <2>1 DEF SelectSeen, Overlooked
<1>17. CASE Hold(t)
  <2>1. /\ pc[t] = "hold" /\ pc'[t] = "look" /\ k'[t] = 0 /\ UNCHANGED ring
    BY <1>17, MoveLands DEF Hold, call, CallOK, InCall
  <2>2. ~Overlooked(t)'
    BY <2>1 DEF Overlooked
  <2> QED
    BY <1>4, <1>6, <2>1, <2>2
<1>18. CASE LookNext(t)
  <2>1. /\ pc[t] = "look" /\ ~Ready(arg[t][k[t] + 1]) /\ arg' = arg /\ UNCHANGED ring
        /\ \/ pc'[t] = "look" /\ k'[t] = k[t] + 1
           \/ pc'[t] = "doze" /\ k[t] + 1 >= Arms(t)
    BY <1>18, MoveLands DEF LookNext, CallOK, Arms
  <2>2. /\ DOMAIN arg[t] = 1 .. Arms(t) /\ k[t] \in Nat /\ k[t] < Arms(t)
        /\ Arms(t) \in Nat
    BY <2>1, ArmsOf DEF CallOK, InCall, InSelect
  <2>3. \A c : Ready(c)' = Ready(c)
    BY <2>1 DEF ring, Ready
  <2>4. ASSUME Overlooked(t)' PROVE Overlooked(t)
    <3>1. PICK i \in 1 .. k[t] + 1 : Ready(arg[t][i])
      BY <2>1, <2>2, <2>3, <2>4 DEF Overlooked
    <3>2. i \in 1 .. k[t]
      BY <2>1, <2>2, <3>1
    <3> QED
      BY <2>1, <3>1, <3>2 DEF Overlooked
  <2> QED
    BY <1>4, <1>6, <2>1, <2>4
<1>19. CASE Doze(t)
  <2>1. pc[t] = "doze" /\ pc'[t] = "selectWait" /\ arg' = arg /\ UNCHANGED ring
    BY <1>19, MoveLands DEF Doze, call
  <2>2. Overlooked(t)' => Overlooked(t)
    BY <2>1 DEF Overlooked, Ready, ring
  <2> QED
    BY <1>4, <1>6, <2>1, <2>2
<1> QED
  BY <1>8, <1>9, <1>10, <1>11, <1>12, <1>13, <1>14, <1>15, <1>16, <1>17, <1>18,
     <1>19 DEF Begin, Step

-----------------------------------------------------------------------------

LEMMA ChanInvStep == ChanInv /\ [Next]_vars => ChanInv'
<1> SUFFICES ASSUME ChanInv, [Next]_vars PROVE ChanInv'
  OBVIOUS
<1>1. ASSUME NEW t \in Threads, Begin(t) \/ Step(t) \/ Spurious(t) PROVE ChanInv'
  <2>1. CallOK' /\ OthersKeep(t)
    BY <1>1, CallStep DEF ChanInv
  <2>2. RingOK'
    BY <1>1, RingStep DEF ChanInv
  <2>3. WaitingExact'
    BY <1>1, <2>1, WaitingStep DEF ChanInv
  <2>4. SendsFit'
    BY <1>1, <2>1, SendsStep DEF ChanInv
  <2>5. SelectSeen'
    BY <1>1, <2>1, <2>2, SeenStep DEF ChanInv
  <2>6. NoStrandedReceiver' /\ NoStrandedSender'
    BY <1>1, <2>1, <2>2, StrandedStep DEF ChanInv
  <2> QED
    BY <2>1, <2>2, <2>3, <2>4, <2>5, <2>6 DEF ChanInv
<1>2. CASE UNCHANGED vars
  <2>1. UNCHANGED ring /\ UNCHANGED call /\ UNCHANGED <<pc, waiting, aborted>>
    BY <1>2 DEF vars
  <2>2. RingOK' /\ CallOK'
    BY <2>1 DEF ChanInv, ring, call, RingOK, CallOK, InCall, Arms
  <2>3. WaitingExact' /\ SendsFit' /\ NoStrandedReceiver' /\ NoStrandedSender'
    BY <2>1 DEF ChanInv, ring, call, WaitingExact, Selecting, SendsFit, Senders, Chan,
                NoStrandedReceiver, NoStrandedSender, Waiters
  <2>4. SelectSeen'
    BY <2>1 DEF ChanInv, ring, call, SelectSeen, Overlooked, Untold, Ready
  <2> QED
    BY <2>2, <2>3, <2>4 DEF ChanInv
<1> QED
  BY <1>1, <1>2 DEF Next

LEMMA ChanInvHolds == Spec => []ChanInv
  BY ChanInvInit, ChanInvStep, PTL DEF Spec

\* For any threads, channels and capacities, nobody sleeps on a channel that has
\* what it waits for: a wake_one of anti_rt_chan_send and anti_rt_chan_recv which
\* another thread overtakes strands no sleeper.
THEOREM NobodyIsStranded == Spec => []NobodyStranded
<1>1. ChanInv => TypeOK
  <2> SUFFICES ASSUME ChanInv PROVE TypeOK
    OBVIOUS
  <2>1. waiting \in 0 .. Cardinality(Threads)
    <3>1. Selecting \subseteq Threads
      BY DEF Selecting
    <3>2. Cardinality(Selecting) \in Nat /\ Cardinality(Threads) \in Nat
          /\ Cardinality(Selecting) <= Cardinality(Threads)
      BY <3>1, FiniteThreads
    <3> QED
      BY <3>2 DEF ChanInv, WaitingExact
  <2>2. ASSUME NEW c \in Channels
        PROVE  /\ values[c] \in [0 .. Capacity[c] - 1 -> 0 .. MaxSends]
               /\ head[c] \in 0 .. Capacity[c] - 1
               /\ count[c] \in 0 .. Capacity[c]
               /\ sent[c] \in 0 .. MaxSends
               /\ got[c] \in 0 .. MaxSends
    BY DEF ChanInv, RingOK, Slots
  <2>3. closed \in [Channels -> BOOLEAN] /\ deleted \in [Channels -> BOOLEAN]
    BY DEF ChanInv, RingOK
  <2>4. \A t \in Threads : start[t] \in Nat /\ k[t] \in Nat
    BY DEF ChanInv, CallOK
  <2> QED
    BY <2>1, <2>2, <2>3, <2>4 DEF ChanInv, CallOK, TypeOK
<1>2. ChanInv => NobodyStranded
  BY <1>1 DEF ChanInv, NobodyStranded
<1> QED
  BY <1>2, ChanInvHolds, PTL

\* The claim of the comment on `waiting` in sync.c, for any threads and selects:
\* a send or a close that finds no select waiting strands none.
THEOREM SelectNotStranded == Spec => []NoStrandedSelect
<1>1. ChanInv => NoStrandedSelect
  BY DEF ChanInv, SelectSeen, Overlooked, Untold, NoStrandedSelect
<1> QED
  BY <1>1, ChanInvHolds, PTL

-----------------------------------------------------------------------------
(* The ring is a queue. *)

\* The m values from slot h of a ring v of n slots, oldest first.
Row(v, h, m, n) == [i \in 1 .. m |-> v[(h + i - 1) % n]]

LEMMA ModWrap ==
  ASSUME NEW n \in Nat \ {0}, NEW x \in Nat, x < 2 * n
  PROVE  x % n = IF x < n THEN x ELSE x - n
  OBVIOUS

\* The slot of the i-th value from the head, without the division.
LEMMA SlotOf ==
  ASSUME NEW n \in Nat \ {0}, NEW h \in 0 .. n - 1, NEW i \in 1 .. n
  PROVE  /\ (h + i - 1) % n = IF h + i - 1 < n THEN h + i - 1 ELSE h + i - 1 - n
         /\ (h + i - 1) % n \in 0 .. n - 1
<1> DEFINE x == h + i - 1
<1>1. x \in Nat /\ x < 2 * n
  OBVIOUS
<1> HIDE DEF x
<1>2. x % n = (IF x < n THEN x ELSE x - n) /\ x % n \in 0 .. n - 1
  BY <1>1, ModWrap, ModRange
<1> QED
  BY <1>2 DEF x

\* A row is a sequence of m values of S.
IsRow(S, v, h, m, n) ==
    /\ Row(v, h, m, n) \in Seq(S) /\ Len(Row(v, h, m, n)) = m
    /\ \A i \in 1 .. m : Row(v, h, m, n)[i] = v[(h + i - 1) % n]

LEMMA RowOf ==
  ASSUME NEW S, NEW n \in Nat \ {0}, NEW h \in 0 .. n - 1, NEW m \in 0 .. n,
         NEW v \in [0 .. n - 1 -> S]
  PROVE  IsRow(S, v, h, m, n)
<1>1. ASSUME NEW i \in 1 .. m PROVE v[(h + i - 1) % n] \in S
  <2>1. i \in 1 .. n
    OBVIOUS
  <2> QED
    BY <2>1, SlotOf
<1> DEFINE q == Row(v, h, m, n)
<1>2. q \in [1 .. m -> S] /\ \A i \in 1 .. m : q[i] = v[(h + i - 1) % n]
  BY <1>1 DEF Row
<1> HIDE DEF q
<1>3. q \in Seq(S) /\ Len(q) = m
  BY <1>2
<1> QED
  BY <1>2, <1>3 DEF q, IsRow

\* w is v with e in the slot behind the m values from slot h.
Written(w, v, e, h, m, n) ==
    /\ n \in Nat \ {0} /\ h \in 0 .. n - 1 /\ m \in 0 .. n - 1
    /\ v \in [0 .. n - 1 -> Nat] /\ w \in [0 .. n - 1 -> Nat] /\ e \in Nat
    /\ w[(h + m) % n] = e
    /\ \A j \in 0 .. n - 1 : j # (h + m) % n => w[j] = v[j]

\* The slot behind the newest value is the last of the row.
LEMMA RowPut ==
  ASSUME NEW w, NEW v, NEW e, NEW h, NEW m, NEW n, Written(w, v, e, h, m, n)
  PROVE  Row(w, h, m + 1, n) = Append(Row(v, h, m, n), e)
<1> USE DEF Written
<1> DEFINE q == Row(v, h, m, n)
           r == Row(w, h, m + 1, n)
<1>1. m + 1 \in 1 .. n /\ h + m = h + (m + 1) - 1 /\ m \in 0 .. n /\ m + 1 \in 0 .. n
  OBVIOUS
<1>2. /\ (h + m) % n \in 0 .. n - 1
      /\ (h + m) % n = IF h + m < n THEN h + m ELSE h + m - n
  <2> DEFINE x == h + m
  <2>1. x \in Nat /\ x < 2 * n
    OBVIOUS
  <2> HIDE DEF x
  <2>2. x % n = (IF x < n THEN x ELSE x - n) /\ x % n \in 0 .. n - 1
    BY <2>1, ModWrap, ModRange
  <2> QED
    BY <2>2 DEF x
<1>3. w \in [0 .. n - 1 -> Nat] /\ w[(h + m) % n] = e
      /\ \A j \in 0 .. n - 1 : j # (h + m) % n => w[j] = v[j]
  OBVIOUS
<1>4. q \in Seq(Nat) /\ Len(q) = m /\ \A i \in 1 .. m : q[i] = v[(h + i - 1) % n]
  <2>1. IsRow(Nat, v, h, m, n)
    BY <1>1, RowOf
  <2> QED
    BY <2>1 DEF IsRow
<1>5. r \in Seq(Nat) /\ Len(r) = m + 1
      /\ \A i \in 1 .. m + 1 : r[i] = w[(h + i - 1) % n]
  <2>1. IsRow(Nat, w, h, m + 1, n)
    BY <1>1, <1>3, RowOf
  <2> QED
    BY <2>1 DEF IsRow
<1> HIDE DEF q, r
<1>6. ASSUME NEW i \in 1 .. m PROVE r[i] = q[i]
  <2>1. i \in 1 .. n /\ i \in 1 .. m + 1
    OBVIOUS
  <2>2. /\ (h + i - 1) % n = IF h + i - 1 < n THEN h + i - 1 ELSE h + i - 1 - n
        /\ (h + i - 1) % n \in 0 .. n - 1
    BY <2>1, SlotOf
  <2>3. (h + i - 1) % n # (h + m) % n
    <3> DEFINE y == (h + i - 1) % n
               z == (h + m) % n
    <3>1. y = IF h + i - 1 < n THEN h + i - 1 ELSE h + i - 1 - n
      BY <2>2
    <3>2. z = IF h + m < n THEN h + m ELSE h + m - n
      BY <1>2
    <3> HIDE DEF y, z
    <3>3. y # z
      BY <3>1, <3>2
    <3> QED
      BY <3>3 DEF y, z
  <2> QED
    BY <1>3, <1>4, <1>5, <2>1, <2>2, <2>3
<1>7. r[m + 1] = e
  <2>1. r[m + 1] = w[(h + (m + 1) - 1) % n]
    BY <1>1, <1>5
  <2>2. h + (m + 1) - 1 = h + m
    OBVIOUS
  <2> QED
    BY <1>3, <2>1, <2>2
<1>8. /\ Append(q, e) \in Seq(Nat) /\ Len(Append(q, e)) = m + 1
      /\ \A i \in 1 .. m : Append(q, e)[i] = q[i]
      /\ Append(q, e)[m + 1] = e
  BY <1>4, AppendProperties
<1>9. ASSUME NEW i \in 1 .. Len(r) PROVE r[i] = Append(q, e)[i]
  <2>1. i \in 1 .. m \/ i = m + 1
    BY <1>5
  <2> QED
    BY <1>6, <1>7, <1>8, <2>1
<1>10. r = Append(q, e)
  BY <1>5, <1>8, <1>9, SeqEqual
<1> QED
  BY <1>10 DEF q, r

\* What is left from the next slot on is the tail of the row.
LEMMA RowTake ==
  ASSUME NEW n \in Nat \ {0}, NEW h \in 0 .. n - 1, NEW m \in 1 .. n,
         NEW v \in [0 .. n - 1 -> Nat]
  PROVE  /\ Row(v, h, m, n) # <<>>
         /\ Head(Row(v, h, m, n)) = v[h]
         /\ Row(v, (h + 1) % n, m - 1, n) = Tail(Row(v, h, m, n))
<1> DEFINE g == (h + 1) % n
           q == Row(v, h, m, n)
           r == Row(v, g, m - 1, n)
<1>1. g \in 0 .. n - 1 /\ g = IF h + 1 < n THEN h + 1 ELSE 0
  <2> DEFINE x == h + 1
  <2>1. x \in Nat /\ x < 2 * n /\ x <= n
    OBVIOUS
  <2> HIDE DEF x
  <2>2. x % n = (IF x < n THEN x ELSE x - n) /\ x % n \in 0 .. n - 1
    BY <2>1, ModWrap, ModRange
  <2>3. x % n = IF x < n THEN x ELSE 0
    BY <2>1, <2>2
  <2> QED
    BY <2>2, <2>3 DEF x
<1>2. m \in 0 .. n /\ m - 1 \in 0 .. n
  OBVIOUS
<1>3. q \in Seq(Nat) /\ Len(q) = m /\ \A i \in 1 .. m : q[i] = v[(h + i - 1) % n]
  <2>1. IsRow(Nat, v, h, m, n)
    BY <1>2, RowOf
  <2> QED
    BY <2>1 DEF IsRow
<1> HIDE DEF g
<1>4. r \in Seq(Nat) /\ Len(r) = m - 1
      /\ \A i \in 1 .. m - 1 : r[i] = v[(g + i - 1) % n]
  <2>1. IsRow(Nat, v, g, m - 1, n)
    BY <1>1, <1>2, RowOf
  <2> QED
    BY <2>1 DEF IsRow
<1> HIDE DEF q, r
<1>5. q # <<>> /\ Head(q) = q[1] /\ Tail(q) \in Seq(Nat) /\ Len(Tail(q)) = m - 1
      /\ \A i \in 1 .. m - 1 : Tail(q)[i] = q[i + 1]
  BY <1>3, HeadTailProperties
<1>6. q[1] = v[h]
  <2>1. 1 \in 1 .. n /\ h + 1 - 1 = h /\ h < n
    OBVIOUS
  <2>2. (h + 1 - 1) % n = h
    BY <2>1, SlotOf
  <2> QED
    BY <1>3, <2>2
<1>7. ASSUME NEW i \in 1 .. m - 1 PROVE r[i] = Tail(q)[i]
  <2>1. i \in 1 .. n /\ i + 1 \in 1 .. n /\ i + 1 \in 1 .. m
    OBVIOUS
  <2>2. (g + i - 1) % n = IF g + i - 1 < n THEN g + i - 1 ELSE g + i - 1 - n
    BY <1>1, <2>1, SlotOf
  <2>3. (h + (i + 1) - 1) % n =
           IF h + (i + 1) - 1 < n THEN h + (i + 1) - 1 ELSE h + (i + 1) - 1 - n
    BY <2>1, SlotOf
  <2>4. (g + i - 1) % n = (h + (i + 1) - 1) % n
    BY <1>1, <2>1, <2>2, <2>3
  <2>5. q[i + 1] = v[(h + (i + 1) - 1) % n]
    BY <1>3, <2>1
  <2> QED
    BY <1>4, <1>5, <2>4, <2>5
<1>8. r = Tail(q)
  BY <1>4, <1>5, <1>7, SeqEqual
<1> QED
  BY <1>5, <1>6, <1>8 DEF q, r, g

\* A put by one channel appends to its queue and leaves the others.
LEMMA FifoPut ==
  ASSUME RingOK, NEW c \in Channels, Put(c), ~Full(c), ~closed[c]
  PROVE  Fifo!Put(c)
<1> DEFINE n == Capacity[c]
           h == head[c]
           m == count[c]
           v == values[c]
           e == sent[c] + 1
           w == [v EXCEPT ![(h + m) % n] = e]
<1>1. /\ n \in Nat \ {0} /\ h \in 0 .. n - 1 /\ m \in 0 .. n - 1
      /\ v \in [0 .. n - 1 -> Nat] /\ e \in Nat
  BY ChannelsAssumption DEF RingOK, Full, Slots
<1>2. /\ values' = [values EXCEPT ![c] = w] /\ count' = [count EXCEPT ![c] = m + 1]
      /\ head' = head
  BY DEF Put
<1>3. /\ values'[c] = w /\ count'[c] = m + 1 /\ head'[c] = h
      /\ \A d \in Channels : d # c => values'[d] = values[d] /\ count'[d] = count[d]
                                      /\ head'[d] = head[d]
  <2>1. values = [d \in Channels |-> values[d]] /\ count \in [Channels -> Nat]
    BY DEF RingOK
  <2> HIDE DEF w, m
  <2>2. values'[c] = w /\ \A d \in Channels : d # c => values'[d] = values[d]
    BY <1>2, <2>1
  <2>3. count'[c] = m + 1 /\ \A d \in Channels : d # c => count'[d] = count[d]
    BY <1>2, <2>1
  <2> QED
    BY <1>2, <2>2, <2>3
<1>4. Contents[c] = Row(v, h, m, n) /\ Contents'[c] = Row(w, h, m + 1, n)
  <2>1. Contents[c] = Row(v, h, m, n)
    BY DEF Contents, Row
  <2> HIDE DEF w
  <2>2. Contents'[c] = [i \in 1 .. count'[c] |-> values'[c][(head'[c] + i - 1) % n]]
    BY DEF Contents
  <2>3. Contents'[c] = Row(w, h, m + 1, n)
    BY <1>3, <2>2 DEF Row
  <2> QED
    BY <2>1, <2>3
<1> HIDE DEF n, h, m, v, e
<1>5. Row(w, h, m + 1, n) = Append(Row(v, h, m, n), e)
  <2>1. h + m \in Nat /\ h + m < 2 * n
    BY <1>1
  <2>2. (h + m) % n \in 0 .. n - 1
    BY <1>1, <2>1, ModRange
  <2>3. /\ w \in [0 .. n - 1 -> Nat] /\ w[(h + m) % n] = e
        /\ \A j \in 0 .. n - 1 : j # (h + m) % n => w[j] = v[j]
    BY <1>1, <2>2
  <2> HIDE DEF w
  <2>4. Written(w, v, e, h, m, n)
    BY <1>1, <2>3 DEF Written
  <2> QED
    BY <2>4, RowPut
<1>6. Len(Contents[c]) < n
  <2>1. m \in 0 .. n
    BY <1>1
  <2>2. IsRow(Nat, v, h, m, n)
    BY <1>1, <2>1, RowOf
  <2>3. Len(Row(v, h, m, n)) = m
    BY <2>2 DEF IsRow
  <2> QED
    BY <1>1, <1>4, <2>3
<1>7. \A d \in Channels : d # c => Contents'[d] = Contents[d]
  BY <1>3 DEF Contents
<1>8. Contents' = [Contents EXCEPT ![c] = Append(@, e)]
  <2>1. Contents'[c] = Append(Contents[c], e)
    BY <1>4, <1>5
  <2>2. DOMAIN Contents = Channels /\ DOMAIN Contents' = Channels
        /\ Contents = [d \in Channels |-> Contents[d]]
        /\ Contents' = [d \in Channels |-> Contents'[d]]
    BY DEF Contents
  <2> QED
    BY <1>7, <2>1, <2>2
<1> QED
  BY <1>6, <1>8 DEF Fifo!Put, Put, n, e

\* A take hands out the head of the queue of one channel.
LEMMA FifoGet ==
  ASSUME RingOK, NEW c \in Channels, Take(c), count[c] > 0
  PROVE  Fifo!Get(c)
<1> DEFINE n == Capacity[c]
           h == head[c]
           m == count[c]
           v == values[c]
<1>1. /\ n \in Nat \ {0} /\ h \in 0 .. n - 1 /\ m \in 1 .. n
      /\ v \in [0 .. n - 1 -> Nat]
  BY ChannelsAssumption DEF RingOK, Slots
<1>2. /\ values' = values /\ count' = [count EXCEPT ![c] = m - 1]
      /\ head' = [head EXCEPT ![c] = (h + 1) % n]
  BY DEF Take
<1>3. /\ values'[c] = v /\ count'[c] = m - 1 /\ head'[c] = (h + 1) % n
      /\ \A d \in Channels : d # c => values'[d] = values[d] /\ count'[d] = count[d]
                                      /\ head'[d] = head[d]
  <2>1. head \in [Channels -> Nat] /\ count \in [Channels -> Nat]
    BY DEF RingOK
  <2> HIDE DEF m, h, n
  <2> QED
    BY <1>2, <2>1
<1>4. Contents[c] = Row(v, h, m, n) /\ Contents'[c] = Row(v, (h + 1) % n, m - 1, n)
  <2>1. Contents[c] = Row(v, h, m, n)
    BY DEF Contents, Row
  <2>2. Contents'[c] = [i \in 1 .. count'[c] |-> values'[c][(head'[c] + i - 1) % n]]
    BY DEF Contents
  <2> HIDE DEF m, h, n, v
  <2>3. Contents'[c] = Row(v, (h + 1) % n, m - 1, n)
    BY <1>3, <2>2 DEF Row
  <2> QED
    BY <2>1, <2>3
<1> HIDE DEF n, h, m, v
<1>5. /\ Row(v, h, m, n) # <<>> /\ Head(Row(v, h, m, n)) = v[h]
      /\ Row(v, (h + 1) % n, m - 1, n) = Tail(Row(v, h, m, n))
  BY <1>1, RowTake
<1>7. \A d \in Channels : d # c => Contents'[d] = Contents[d]
  BY <1>3 DEF Contents
<1>8. Contents' = [Contents EXCEPT ![c] = Tail(@)]
  <2>1. Contents'[c] = Tail(Contents[c])
    BY <1>4, <1>5
  <2>2. DOMAIN Contents = Channels /\ DOMAIN Contents' = Channels
        /\ Contents = [d \in Channels |-> Contents[d]]
        /\ Contents' = [d \in Channels |-> Contents'[d]]
    BY DEF Contents
  <2> QED
    BY <1>7, <2>1, <2>2
<1>9. Contents[c] # <<>> /\ Head(Contents[c]) = values[c][head[c]]
  BY <1>4, <1>5 DEF v, h
<1> QED
  BY <1>8, <1>9 DEF Fifo!Get, Take

LEMMA FifoStep ==
  ASSUME ChanInv, [Next]_vars
  PROVE  [Fifo!Next]_Fifo!vars
<1>1. RingOK /\ CallOK
  BY DEF ChanInv
<1>2. CASE UNCHANGED ring
  BY <1>2 DEF ring, Fifo!vars, Contents
<1>3. CASE \E t \in Threads : Begin(t) \/ Step(t) \/ Spurious(t)
  <2> PICK t \in Threads : Begin(t) \/ Step(t) \/ Spurious(t)
    BY <1>3
  <2>1. ASSUME NEW c \in Channels, Put(c), ~Full(c), ~closed[c]
        PROVE  Fifo!Next
    BY <1>1, <2>1, FifoPut DEF Fifo!Next
  <2>2. ASSUME NEW c \in Channels, Take(c), count[c] > 0
        PROVE  Fifo!Next
    BY <1>1, <2>2, FifoGet DEF Fifo!Next
  <2>3. ASSUME NEW c \in Channels, closed' = [closed EXCEPT ![c] = TRUE],
               UNCHANGED <<values, head, count, deleted, sent, got>>
        PROVE  Fifo!Next
    BY <2>3 DEF Fifo!Next, Fifo!Close, Contents
  <2>4. ASSUME NEW c \in Channels,
               UNCHANGED <<values, head, count, closed, sent, got>>
        PROVE  UNCHANGED Fifo!vars
    BY <2>4 DEF Fifo!vars, Contents
  <2> QED
    BY <1>1, <1>2, <2>1, <2>2, <2>3, <2>4, RingChanges
<1> QED
  BY <1>2, <1>3 DEF Next, vars, ring

\* For any threads, channels and capacities, a channel is a queue: the ring of
\* anti_rt_chan_send and take hands the values out once each, in the order they
\* went in, through recv, select and the drain of delete, and takes none in after
\* close or beyond its capacity.
THEOREM KeepsFifo == Spec => ImplementsFifo
<1>1. Init => Fifo!Init
  <2> SUFFICES ASSUME Init PROVE Fifo!Init
    OBVIOUS
  <2>1. \A c \in Channels : count[c] = 0
    BY DEF Init
  <2>2. ASSUME NEW c \in Channels PROVE Contents[c] = <<>>
    BY <2>1 DEF Contents
  <2>3. Contents = [c \in Channels |-> <<>>]
    BY <2>2 DEF Contents
  <2> QED
    BY <2>3 DEF Init, Fifo!Init
<1> QED
  BY <1>1, FifoStep, ChanInvHolds, PTL
     DEF Spec, ImplementsFifo, Fifo!Spec
==============================================================================
