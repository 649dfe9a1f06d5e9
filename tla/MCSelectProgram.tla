---------------------------- MODULE MCSelectProgram ----------------------------
(* Loops of selects: two threads on one select of two channels beside a feeder, *)
(* and one thread that alternates between two selects of two.                   *)
EXTENDS SelectProgram, TLC

CONSTANTS a, b, c1, c2

OneEach == [c \in Channels |-> 1]

PairProgram == <<<<a, b>>>>
TwoProgram == <<<<a, b>>, <<c1, c2>>>>

\* The selects of the program and no others.
SelectsOf(program) == {program[i] : i \in DOMAIN program}
PairSelects == SelectsOf(PairProgram)
TwoSelects == SelectsOf(TwoProgram)
==============================================================================
