------------------------------- MODULE MCProcess -------------------------------
(* A process: its start over files that chain, fan out and loop, and, once main *)
(* runs without a file, its signals or the word of one lock.  A word has a      *)
(* holder, a thread on the fast path and two sleepers, so a wake can go to      *)
(* either of two and a third can barge in.                                      *)
EXTENDS WordLock, Startup, Signals

VARIABLE subject    \* what the behaviour is of

MCGraphs ==
    {<<g1, g2, g3, <<>>>> : g1 \in {<<2>>, <<2, 3>>, <<3, 2>>, <<2, 2>>},
                            g2 \in {<<>>, <<3>>, <<1>>, <<3, 4>>},
                            g3 \in {<<>>, <<4>>, <<3>>}}

MCContents ==
    {<<c1, c2, c3, {}>> : c1 \in SUBSET Names, c3 \in {{}, Names},
                          c2 \in SUBSET (Names \ {Interface})}

ProcessInit ==
    /\ subject \in {"start", "signals", "word"}
    /\ Init /\ StartInit /\ SigInit
    /\ subject # "start" => /\ graph = <<<<2>>, <<>>, <<>>, <<>>>>
                            /\ sets = <<{}, {}, {}, {}>>
                            /\ command = {} /\ ~atStart

ProcessNext ==
    /\ \/ /\ subject = "start" \/ stage # "main"
          /\ StartNext /\ UNCHANGED <<vars, sigVars>>
       \/ /\ subject = "signals" /\ stage = "main"
          /\ SigNext /\ UNCHANGED <<vars, startVars>>
       \/ /\ subject = "word" /\ stage = "main"
          /\ Next /\ UNCHANGED <<startVars, sigVars>>
    /\ UNCHANGED subject

ProcessSpec ==
    /\ ProcessInit /\ [][ProcessNext]_<<subject, vars, startVars, sigVars>>
    /\ Fairness /\ SigFairness
==============================================================================
