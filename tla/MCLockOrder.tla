------------------------------ MODULE MCLockOrder ------------------------------
EXTENDS LockOrder, TLC

Sync(l, b) == [k |-> "sync", locks |-> <<l>>, body |-> b]
Sync2(l, m, b) == [k |-> "sync", locks |-> <<l, m>>, body |-> b]
CallFn(f) == [k |-> "call", fn |-> f]
Table(l) == [k |-> "table", lock |-> l]
Wait == [k |-> "wait"]
Fn(own, b) == [own |-> own, body |-> b]

\* Two libraries and a program of three functions.
MCHome == <<1, 2, 3, 3, 3>>

First == {Fn(NoLock, <<>>), Fn(1, <<Wait>>), Fn(NoLock, <<Wait, Sync(1, <<>>)>>),
          Fn(NoLock, <<Sync(1, <<Sync(2, <<>>)>>)>>), Fn(3, <<Table(1)>>)}
Second(r) ==
    {Fn(NoLock, <<Sync(2, <<Sync(l, <<>>)>>)>>) : l \in {1, 3}} \cup
    IF r = {} THEN {}
    ELSE {Fn(NoLock, <<CallFn(1)>>), Fn(2, <<CallFn(1)>>),
          Fn(NoLock, <<Sync(NoLock, <<CallFn(1)>>), Wait>>)}

Third ==
    LET inner == {<<Sync(l, <<>>)>> : l \in {1, 3}} \cup {<<CallFn(g)>> : g \in {1, 2, 4}}
                 \cup {<<Table(2)>>, <<Wait>>}
    IN {Fn(NoLock, <<Sync(l, b)>>) : l \in {2, 3, NoLock}, b \in inner}
       \cup {Fn(3, b) : b \in inner}
       \cup {Fn(NoLock, <<CallFn(4), Wait>>), Fn(NoLock, <<CallFn(3), CallFn(4)>>),
             Fn(NoLock, <<Sync2(1, 3, <<Table(2)>>)>>)}
Fourth == {Fn(NoLock, <<CallFn(5)>>), Fn(NoLock, <<CallFn(3), Wait>>), Fn(1, <<CallFn(5)>>),
           Fn(NoLock, <<Sync(NoLock, <<CallFn(5)>>)>>), Fn(NoLock, <<Sync(3, <<CallFn(2)>>)>>)}
Fifth == {Fn(NoLock, <<Sync(1, <<>>), CallFn(3)>>), Fn(2, <<Wait>>), Fn(NoLock, <<Table(3)>>)}

OrderInit ==
    \E r \in {{}, {1}}, a \in First, c \in Third, d \in Fourth, e \in Fifth :
        \E b \in Second(r) : OrderBegins(<<a, b, c, d, e>>, <<{}, r, {1, 2}>>)

Symmetry == Permutations(Threads)

OrderSpec == OrderInit /\ [][OrderNext]_orderVars
==============================================================================
