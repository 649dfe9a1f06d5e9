--------------------------- MODULE WorkerPoolProofs ---------------------------
(* What the worker pool of src/src/rt/threads.c promises, for any workers,     *)
(* callers, jobs and objects and any bounds.  The invariant PoolInv relates    *)
(* the stacks of the threads to the state of the pool: what may stand where on *)
(* a stack (StacksOK), what the counters of the call that uses the pool count  *)
(* and which of its elements were handed out (ParallelOK), where each job in   *)
(* flight is (RunnersOK), who will free it (OwnersOK), who may sleep (WaitOK), *)
(* and what the queue and the records of the jobs hold (QueueOK, RecordsOK).   *)
EXTENDS WorkerPool, FiniteSetTheorems, TLAPS

-----------------------------------------------------------------------------
(* Frames, by kind. *)

Codes == [kind : {"main", "body"}, jobs : SUBSET Jobs, calls : Nat]
Loops == [kind : {"loop"}]
ChunkFrames == [kind : {"chunk"}, call : PoolThreads \X Nat, index : Nat]
JobFrames == [kind : {"job"}, job : Jobs]
JoinFrames == [kind : {"join"}, job : Jobs]

One(b) == IF b THEN 1 ELSE 0

\* Of the slice of a call, the elements of the chunks in X were handed out once
\* and the other elements not yet.
Handed(f, X) ==
    \A c \in 0 .. f.chunks - 1 : \A e \in 0 .. f.count - 1 :
        e \in SliceOf(f.count, f.chunks, c) => f.ran[e] = One(c \in X)

\* A call that does not use the pool takes its chunks one after the other.
InlineOK(f) == f.index < f.chunks /\ Handed(f, 0 .. f.index - 1)

ParallelRecords(c) ==
    [kind : {"parallel"}, count : {c}, chunks : 1 .. c, inline : BOOLEAN,
     index : 0 .. c - 1, ran : [0 .. c - 1 -> Nat]]
ParallelsOf(c) == {f \in ParallelRecords(c) : f.inline => InlineOK(f)}
ParallelFrames == UNION {ParallelsOf(c) : c \in 1 .. MaxCount}

Frames == Codes \cup Loops \cup ChunkFrames \cup JobFrames \cup JoinFrames
            \cup ParallelFrames

Odd(i) == i % 2 = 1

\* A parallel that uses the pool.
Pooled(f) == f.kind = "parallel" /\ ~f.inline

\* What stands at place i of the stack of t.
PlaceOK(t, i, f) ==
    /\ i = 1 => f.kind = IF t \in Callers THEN "main" ELSE "loop"
    /\ i > 1 /\ Odd(i) => f.kind = "body"
    /\ ~Odd(i) => IF t \in Workers /\ i = 2 THEN f.kind \in {"chunk", "job"}
                                            ELSE f.kind \in {"parallel", "join"}

\* Code of the program and calls take turns on a stack, and a call on top of it
\* is one that waits.
ThreadOK(t, s) ==
    /\ s \in Seq(Frames)
    /\ Len(s) <= 2 * MaxLevel + 1
    /\ t \in Callers => Len(s) >= 1
    /\ \A i \in 1 .. Len(s) : PlaceOK(t, i, s[i])
    /\ Len(s) >= 1 /\ ~Odd(Len(s)) => s[Len(s)].kind = "join" \/ Pooled(s[Len(s)])

StacksOK(S) ==
    /\ DOMAIN S = PoolThreads
    /\ \A t \in PoolThreads : ThreadOK(t, S[t])

\* The call <<t, i>> uses the pool.
PooledAt(S, t, i) == i \in 1 .. Len(S[t]) /\ Pooled(S[t][i])

ChunkOn(S, w) == Len(S[w]) >= 2 /\ S[w][2].kind = "chunk"

ChunkWorkers(S) == {w \in Workers : ChunkOn(S, w)}

\* The call that uses the pool: every chunk taken of it is finished, or runs on
\* a worker, or on the caller.
CallOK(S, call, tk, fin) ==
    /\ call \in PoolThreads \X Nat
    /\ PooledAt(S, call[1], call[2])
    /\ 1 <= tk /\ tk <= S[call[1]][call[2]].chunks
    /\ fin + Cardinality(ChunkWorkers(S)) + One(Len(S[call[1]]) > call[2]) = tk
    /\ call[1] \notin ChunkWorkers(S)

\* A chunk of the call <<t, i>> runs: on its caller or on a worker.
ChunkRuns(S, t, i, c) ==
    \/ Len(S[t]) > i /\ S[t][i].index = c
    \/ \E w \in Workers : ChunkOn(S, w) /\ S[w][2].index = c

\* The chunks that were taken and run no more.
ChunksRun(S, t, i, tk) == {c \in 0 .. tk - 1 : ~ChunkRuns(S, t, i, c)}

\* The chunks that run were taken, no two of them are the same, and those that
\* have run were handed out.
ChunksOK(S, t, i, tk) ==
    /\ \A w \in Workers : ChunkOn(S, w) => S[w][2].index \in 0 .. tk - 1
    /\ \A w, v \in Workers :
          ChunkOn(S, w) /\ ChunkOn(S, v) /\ S[w][2].index = S[v][2].index => w = v
    /\ Len(S[t]) > i => /\ S[t][i].index \in 0 .. tk - 1
                        /\ \A w \in Workers : ChunkOn(S, w) => S[w][2].index # S[t][i].index
    /\ Handed(S[t][i], ChunksRun(S, t, i, tk))

ParallelOK(S, act, tk, fin) ==
    /\ tk \in 0 .. MaxCount /\ fin \in 0 .. tk
    /\ act # None => CallOK(S, act, tk, fin) /\ ChunksOK(S, act[1], act[2], tk)
    /\ \A t \in PoolThreads : \A i \in Nat : PooledAt(S, t, i) => act = <<t, i>>
    /\ \A w \in Workers : ChunkOn(S, w) => act # None /\ S[w][2].call = act

\* The code at a place, or its join, is the one that will free j.
Owns(S, t, i, j) ==
    /\ i \in 1 .. Len(S[t])
    /\ \/ S[t][i].kind \in {"main", "body"} /\ j \in S[t][i].jobs
       \/ S[t][i].kind = "join" /\ S[t][i].job = j

\* The worker of j runs at a place.
Runs(S, t, i, j) ==
    /\ i \in 1 .. Len(S[t]) - 1
    /\ S[t][i].kind \in {"job", "join"} /\ S[t][i].job = j

InQueue(Q, j) == \E i \in 1 .. Len(Q) : Q[i] = j

QueueOK(Q, lst) ==
    /\ Q \in Seq(Jobs)
    /\ \A i, k \in 1 .. Len(Q) : Q[i] = Q[k] => i = k
    /\ lst = IF Q = <<>> THEN None ELSE Q[Len(Q)]

RecordsOK(fl, jb) ==
    /\ jb \in [Jobs -> JobRecords \cup {None}]
    /\ fl = {j \in Jobs : jb[j] # None /\ ~jb[j].done}
    /\ \A i, j \in fl : jb[i].object = jb[j].object => i = j

\* Each job in flight is in the queue or runs at one place, and what is freed
\* has no owner left.
RunnersOK(S, Q, fl) ==
    /\ \A j \in Jobs : InQueue(Q, j) => j \in fl
    /\ \A j \in Jobs, t \in PoolThreads : \A i \in Nat : 
          Runs(S, t, i, j) => j \in fl /\ ~InQueue(Q, j)
    /\ \A j \in fl : InQueue(Q, j) \/ \E t \in PoolThreads : \E i \in Nat : Runs(S, t, i, j)
    /\ \A j \in Jobs, t, u \in PoolThreads : \A i, k \in Nat :
          Runs(S, t, i, j) /\ Runs(S, u, k, j) => t = u /\ i = k

OwnersOK(S, jb) ==
    /\ \A j \in Jobs, t \in PoolThreads : \A i \in Nat : Owns(S, t, i, j) => jb[j] # None
    /\ \A j \in Jobs, t, u \in PoolThreads : \A i, k \in Nat :
          Owns(S, t, i, j) /\ Owns(S, u, k, j) => t = u /\ i = k

WaitOK(S, Q, act, tk, fin, jb, ready, done) ==
    /\ ready \subseteq Workers /\ done \subseteq PoolThreads
    /\ \A w \in ready : Len(S[w]) = 1
    /\ ready # {} => Q = <<>> /\ (act = None \/ tk = S[act[1]][act[2]].chunks)
    /\ \A t \in done :
          /\ Len(S[t]) > 0
          /\ LET f == S[t][Len(S[t])] IN
             \/ f.kind = "parallel" /\ fin < f.chunks
             \/ f.kind = "join" /\ ~jb[f.job].done

StartOK(S, started) == started \in BOOLEAN /\ (~started => \A w \in Workers : S[w] = <<>>)

\* What the stacks and the state of the pool owe to each other.
Core(S, act, tk, fin, Q, fl, jb, ready, done) ==
    /\ StacksOK(S)
    /\ ParallelOK(S, act, tk, fin)
    /\ RunnersOK(S, Q, fl)
    /\ OwnersOK(S, jb)
    /\ WaitOK(S, Q, act, tk, fin, jb, ready, done)

PoolInv ==
    /\ Core(poolStack, active, taken, finished, queue, inFlight, job, onReady, onDone)
    /\ StartOK(poolStack, poolStarted)
    /\ QueueOK(queue, last)
    /\ RecordsOK(inFlight, job)

-----------------------------------------------------------------------------
(* Numbers and stacks. *)

\* Places of code are odd, places of calls even.
LEMMA OddFacts ==
    /\ Odd(1) /\ ~Odd(0) /\ ~Odd(2)
    /\ \A n \in Nat : Odd(n + 1) <=> ~Odd(n)
    /\ \A n \in Nat : Odd(n + 2) <=> Odd(n)
    /\ \A n \in Nat : n >= 1 => (Odd(n - 1) <=> ~Odd(n))
    /\ \A n, m \in Nat : Odd(n) /\ n \div 2 < m => n + 2 <= 2 * m + 1
BY DEF Odd

\* A prefix, place by place.
LEMMA SubSeqIs ==
    ASSUME NEW X, NEW s \in Seq(X), NEW n \in Nat, n <= Len(s)
    PROVE  SubSeq(s, 1, n) = [i \in 1 .. n |-> s[i]]
OBVIOUS

\* A function on 1 .. n is a sequence of length n.
LEMMA SeqDef ==
    ASSUME NEW X, NEW n \in Nat, NEW s \in [1 .. n -> X]
    PROVE  s \in Seq(X) /\ Len(s) = n
OBVIOUS

\* Pop takes the innermost frame.
LEMMA PopIs ==
    ASSUME NEW s \in Seq(Frames), NEW n \in Nat, Len(s) = n, n >= 1, NEW r, r = Pop(s)
    PROVE  /\ r \in Seq(Frames) /\ Len(r) = n - 1
           /\ \A i \in 1 .. n - 1 : r[i] = s[i]
<1>1. s \in [1 .. n -> Frames]
  OBVIOUS
<1>2. r = [i \in 1 .. n - 1 |-> s[i]]
  BY <1>1, SubSeqIs DEF Pop
<1>3. r \in [1 .. n - 1 -> Frames] /\ n - 1 \in Nat
  BY <1>1, <1>2
<1>4. r \in Seq(Frames)
  BY <1>3, SeqDef
<1> QED
  BY <1>1, <1>2, <1>3, <1>4

\* Two frames on top.
LEMMA TwoMore ==
    ASSUME NEW s \in Seq(Frames), NEW n \in Nat, Len(s) = n, NEW f \in Frames,
           NEW g \in Frames
    PROVE  /\ s \o <<f, g>> \in Seq(Frames)
           /\ Len(s \o <<f, g>>) = n + 2
           /\ (s \o <<f, g>>)[n + 1] = f
           /\ (s \o <<f, g>>)[n + 2] = g
           /\ \A i \in 1 .. n : (s \o <<f, g>>)[i] = s[i]
OBVIOUS

-----------------------------------------------------------------------------
(* Slices. *)

\* The quotient and the rest.
LEMMA DivMod ==
    ASSUME NEW x \in Nat, NEW d \in Nat, d > 0
    PROVE  /\ x \div d \in Nat /\ (x % d) \in Nat /\ (x % d) < d
           /\ x = ((x \div d) * d) + (x % d)
OBVIOUS

\* Products grow with a factor.
LEMMA Grows ==
    ASSUME NEW a \in Nat, NEW b \in Nat, a <= b, NEW k \in Nat
    PROVE  a * k <= b * k
OBVIOUS

\* Where a chunk starts and how long it is, with base elements in each chunk and
\* one more in the first extra ones.
First(base, extra, c) == c * base + (IF c < extra THEN c ELSE extra)
Long(base, extra, c) == base + (IF c < extra THEN 1 ELSE 0)

\* A chunk starts where the one before it ends.
LEMMA FirstNext ==
    ASSUME NEW base \in Nat, NEW extra \in Nat, NEW c \in Nat
    PROVE  First(base, extra, c) + Long(base, extra, c) = First(base, extra, c + 1)
<1>1. (c + 1) * base = c * base + base
  OBVIOUS
<1> QED
  BY <1>1 DEF First, Long

\* A later chunk does not start earlier.
LEMMA FirstGrows ==
    ASSUME NEW base \in Nat, NEW extra \in Nat, NEW c \in Nat, NEW d \in Nat, c <= d
    PROVE  First(base, extra, c) <= First(base, extra, d)
<1>1. c * base <= d * base
  BY Grows
<1>2. c * base \in Nat /\ d * base \in Nat
  OBVIOUS
<1> QED
  BY <1>1, <1>2 DEF First

\* Every element lies in a chunk.
LEMMA FirstCovers ==
    ASSUME NEW base \in Nat, NEW extra \in Nat, NEW chunks \in Nat, chunks > 0,
           extra < chunks,
           NEW e \in Nat, e < chunks * base + extra
    PROVE  \E c \in 0 .. chunks - 1 : First(base, extra, c) <= e /\ e < First(base, extra, c + 1)
<1> DEFINE big == base + 1
           edge == extra * big
<1>1. big \in Nat /\ big > 0 /\ edge \in Nat /\ edge = extra * base + extra
  OBVIOUS
<1>2. CASE e < edge
  <2> DEFINE c == e \div big
             r == e % big
  <2>1. c \in Nat /\ r \in Nat /\ r < big /\ e = (c * big) + r
    BY <1>1, DivMod
  <2> HIDE DEF c, r, big
  <2>2. c < extra
    <3>1. CASE extra <= c
      <4>1. extra * big <= c * big
        BY <1>1, <2>1, <3>1, Grows
      <4> DEFINE p == c * big
      <4>2. p \in Nat /\ e = p + r /\ edge <= p
        BY <1>1, <2>1, <4>1
      <4> HIDE DEF p, edge
      <4> QED
        BY <1>1, <1>2, <2>1, <4>2
    <3> QED
      BY <2>1, <3>1
  <2>3. c * big = c * base + c /\ (c + 1) * base = c * base + base
    BY <2>1 DEF big
  <2>4. c \in 0 .. chunks - 1
    BY <2>1, <2>2
  <2>5. First(base, extra, c) = c * big
    BY <2>2, <2>3 DEF First
  <2>6. First(base, extra, c + 1) = c * big + big
    <3> DEFINE p == c * base
    <3>1. p \in Nat /\ (c + 1) * base = p + base /\ c * big = p + c
      BY <2>1, <2>3
    <3> HIDE DEF p
    <3>2. (IF c + 1 < extra THEN c + 1 ELSE extra) = c + 1
      BY <2>1, <2>2
    <3> QED
      BY <2>1, <3>1, <3>2 DEF First, big
  <2> DEFINE q == c * big
  <2>7. q \in Nat /\ e = q + r /\ big \in Nat
    BY <1>1, <2>1
  <2>8. First(base, extra, c) = q /\ First(base, extra, c + 1) = q + big
    BY <2>5, <2>6
  <2> HIDE DEF q
  <2>9. q <= e /\ e < q + big
    BY <2>1, <2>7
  <2> QED
    BY <2>4, <2>8, <2>9
<1>3. CASE ~(e < edge)
  <2> DEFINE x == e - edge
             c == x \div base
             r == x % base
             d == extra + c
  <2>1. x \in Nat /\ x + edge = e
    BY <1>1, <1>3
  <2>2. base > 0
    <3>1. CASE base = 0
      <4>1. edge = extra /\ chunks * base = 0
        BY <3>1
      <4> HIDE DEF edge
      <4> QED
        BY <1>1, <1>3, <4>1
    <3> QED
      BY <3>1
  <2> HIDE DEF x
  <2>3. c \in Nat /\ r \in Nat /\ r < base /\ x = (c * base) + r
    BY <2>1, <2>2, DivMod
  <2> HIDE DEF c, r
  <2>4. /\ d * base = extra * base + c * base /\ (d + 1) * base = extra * base + c * base + base
        /\ d \in Nat
    BY <2>3
  <2> DEFINE p == extra * base
             q == c * base
             z == chunks * base
  <2>5. p \in Nat /\ q \in Nat /\ z \in Nat
    BY <2>3
  <2>6. /\ edge = p + extra /\ e < z + extra /\ x = q + r
        /\ d * base = p + q /\ (d + 1) * base = p + q + base
    BY <1>1, <2>3, <2>4
  <2>7. d < chunks
    <3>1. CASE chunks <= d
      <4>1. chunks * base <= d * base
        BY <2>4, <3>1, Grows
      <4>2. z <= p + q
        BY <2>6, <4>1
      <4> HIDE DEF p, q, z, d, edge
      <4> QED
        BY <1>1, <2>1, <2>3, <2>5, <2>6, <4>2
    <3> QED
      BY <2>4, <3>1
  <2>8. First(base, extra, d) = p + q + extra /\ First(base, extra, d + 1) = p + q + base + extra
    <3>1. ~(d < extra) /\ ~(d + 1 < extra)
      BY <2>3
    <3> HIDE DEF d, p, q
    <3> QED
      BY <2>6, <3>1 DEF First
  <2> HIDE DEF p, q, z, edge, d
  <2>9. p + q + extra <= e /\ e < p + q + base + extra
    BY <2>1, <2>3, <2>5, <2>6
  <2>10. d \in 0 .. chunks - 1
    BY <2>4, <2>7
  <2> QED
    BY <2>8, <2>9, <2>10
<1> QED
  BY <1>2, <1>3

\* The elements that slice_of gives to chunk c.
LEMMA SliceIs ==
    ASSUME NEW count \in Nat, NEW chunks \in Nat, chunks > 0, NEW c \in Nat, NEW e
    PROVE  LET base == count \div chunks
               extra == count % chunks
           IN  /\ base \in Nat /\ extra \in Nat /\ extra < chunks
               /\ count = (base * chunks) + extra
               /\ e \in SliceOf(count, chunks, c)
                    <=> /\ e \in Int /\ First(base, extra, c) <= e
                        /\ e < First(base, extra, c + 1)
<1> DEFINE base == count \div chunks
           extra == count % chunks
           first == First(base, extra, c)
           long == Long(base, extra, c)
<1>1. base \in Nat /\ extra \in Nat /\ extra < chunks /\ count = (base * chunks) + extra
  BY DivMod
<1>2. SliceOf(count, chunks, c) = first .. first + long - 1
  BY DEF SliceOf, First, Long
<1> HIDE DEF base, extra
<1>3. first + long = First(base, extra, c + 1)
  BY <1>1, FirstNext
<1>4. first \in Int /\ long \in Int
  <2>1. c * base \in Int
    BY <1>1
  <2> QED
    BY <1>1, <2>1 DEF First, Long
<1> HIDE DEF first, long
<1>5. e \in first .. first + long - 1 <=> e \in Int /\ first <= e /\ e < first + long
  BY <1>4
<1> QED
  BY <1>1, <1>2, <1>3, <1>5 DEF base, extra, first

\* slice_of gives an element to one chunk at most.
LEMMA SlicesApart ==
    ASSUME NEW count \in Nat, NEW chunks \in Nat, chunks > 0, NEW c \in Nat, NEW d \in Nat,
           NEW e, e \in SliceOf(count, chunks, c), e \in SliceOf(count, chunks, d)
    PROVE  c = d
<1> DEFINE base == count \div chunks
           extra == count % chunks
<1>1. /\ base \in Nat /\ extra \in Nat /\ e \in Int
      /\ First(base, extra, c) <= e /\ e < First(base, extra, c + 1)
      /\ First(base, extra, d) <= e /\ e < First(base, extra, d + 1)
  BY SliceIs
<1> HIDE DEF base, extra
<1>2. \A n \in Nat : First(base, extra, n) \in Int
  <2>1. \A n \in Nat : n * base \in Int
    BY <1>1
  <2> QED
    BY <1>1, <2>1 DEF First
<1>3. CASE c < d
  <2>1. First(base, extra, c + 1) <= First(base, extra, d)
    <3>1. c + 1 \in Nat /\ c + 1 <= d
      BY <1>3
    <3> QED
      BY <1>1, <3>1, FirstGrows
  <2>2. First(base, extra, c + 1) \in Int /\ First(base, extra, d) \in Int
    BY <1>2
  <2> QED
    BY <1>1, <2>1, <2>2
<1>4. CASE d < c
  <2>1. First(base, extra, d + 1) <= First(base, extra, c)
    <3>1. d + 1 \in Nat /\ d + 1 <= c
      BY <1>4
    <3> QED
      BY <1>1, <3>1, FirstGrows
  <2>2. First(base, extra, d + 1) \in Int /\ First(base, extra, c) \in Int
    BY <1>2
  <2> QED
    BY <1>1, <2>1, <2>2
<1> QED
  BY <1>3, <1>4

\* slice_of gives every element of the slice to a chunk.
LEMMA SlicesCover ==
    ASSUME NEW count \in Nat, NEW chunks \in Nat, chunks > 0, NEW e \in 0 .. count - 1
    PROVE  \E c \in 0 .. chunks - 1 : e \in SliceOf(count, chunks, c)
<1> DEFINE base == count \div chunks
           extra == count % chunks
<1>1. /\ base \in Nat /\ extra \in Nat /\ extra < chunks /\ count = (base * chunks) + extra
  BY DivMod
<1> HIDE DEF base, extra
<1>2. base * chunks = chunks * base
  BY <1>1
<1>3. e \in Nat /\ e < chunks * base + extra
  BY <1>1, <1>2
<1>4. PICK c \in 0 .. chunks - 1 :
         First(base, extra, c) <= e /\ e < First(base, extra, c + 1)
  BY <1>1, <1>3, FirstCovers
<1>5. c \in Nat /\ e \in Int
  BY <1>3
<1>6. e \in SliceOf(count, chunks, c)
  BY <1>4, <1>5, SliceIs DEF base, extra
<1> QED
  BY <1>6

-----------------------------------------------------------------------------
(* Frames. *)

\* The kind of a frame says which fields it has.
LEMMA FrameKinds ==
    ASSUME NEW f \in Frames
    PROVE  /\ f.kind \in {"main", "body"} => f \in Codes
           /\ f.kind = "chunk" => f \in ChunkFrames
           /\ f.kind = "job" => f \in JobFrames
           /\ f.kind = "join" => f \in JoinFrames
           /\ f.kind = "parallel" => f \in ParallelFrames
           /\ f.kind \in Kinds
<1>1. CASE f \in Codes
  BY <1>1 DEF Codes, Kinds
<1>2. CASE f \in Loops
  BY <1>2 DEF Loops, Kinds
<1>3. CASE f \in ChunkFrames
  BY <1>3 DEF ChunkFrames, Kinds
<1>4. CASE f \in JobFrames
  BY <1>4 DEF JobFrames, Kinds
<1>5. CASE f \in JoinFrames
  BY <1>5 DEF JoinFrames, Kinds
<1>6. CASE f \in ParallelFrames
  <2>1. f.kind = "parallel"
    BY <1>6 DEF ParallelFrames, ParallelsOf, ParallelRecords
  <2> QED
    BY <1>6, <2>1 DEF Kinds
<1> QED
  BY <1>1, <1>2, <1>3, <1>4, <1>5, <1>6 DEF Frames

\* What a frame of `parallel` holds.
LEMMA ParallelIs ==
    ASSUME NEW f \in ParallelFrames
    PROVE  /\ f \in Frames /\ f.kind = "parallel"
           /\ f.count \in 1 .. MaxCount /\ f.chunks \in 1 .. f.count
           /\ f.inline \in BOOLEAN /\ f.index \in 0 .. f.count - 1
           /\ f.ran \in [0 .. f.count - 1 -> Nat]
           /\ f.inline => InlineOK(f)
BY DEF Frames, ParallelFrames, ParallelsOf, ParallelRecords

\* A record of a call is a frame if it does not run inline, or keeps count.
LEMMA ParallelOf ==
    ASSUME NEW c \in 1 .. MaxCount, NEW f \in ParallelRecords(c), f.inline => InlineOK(f)
    PROVE  f \in ParallelFrames
BY DEF ParallelFrames, ParallelsOf

\* A body that has just been entered.
LEMMA NewBodyIs ==
    /\ NewBody \in Codes /\ NewBody \in Frames
    /\ NewBody.kind = "body" /\ NewBody.jobs = {}
<1>1. MaxCalls \in Nat
  BY PoolAssumption
<1> QED
  BY <1>1 DEF NewBody, Body, Codes, Frames

\* The frame of a call that has just been made.
LEMMA ParallelFrameIs ==
    ASSUME NEW count \in 1 .. MaxCount, NEW chunks \in 1 .. count, NEW inline \in BOOLEAN
    PROVE  /\ ParallelFrame(count, chunks, inline) \in ParallelFrames
           /\ ParallelFrame(count, chunks, inline).kind = "parallel"
           /\ ParallelFrame(count, chunks, inline).inline = inline
           /\ ParallelFrame(count, chunks, inline).chunks = chunks
           /\ ParallelFrame(count, chunks, inline).count = count
           /\ ParallelFrame(count, chunks, inline).index = 0
           /\ ParallelFrame(count, chunks, inline).ran = [e \in 0 .. count - 1 |-> 0]
<1>1. MaxCount \in Nat
  BY PoolAssumption
<1> DEFINE f == ParallelFrame(count, chunks, inline)
<1>2. f \in ParallelRecords(count)
  BY <1>1 DEF ParallelFrame, ParallelRecords
<1>3. /\ f.kind = "parallel" /\ f.inline = inline /\ f.chunks = chunks /\ f.count = count
      /\ f.index = 0 /\ f.ran = [e \in 0 .. count - 1 |-> 0]
  BY DEF ParallelFrame
<1> HIDE DEF f
<1>4. InlineOK(f)
  <2>1. \A c \in 0 .. chunks - 1 : One(c \in 0 .. 0 - 1) = 0
    BY DEF One
  <2> QED
    BY <1>3, <2>1 DEF InlineOK, Handed
<1>5. f \in ParallelFrames
  BY <1>2, <1>4, ParallelOf
<1> QED
  BY <1>3, <1>5 DEF f

\* A frame after a chunk of it ran, with the chunk its caller takes next.
LEMMA RanIs ==
    ASSUME NEW f \in ParallelFrames, NEW index
    PROVE  /\ ~f.inline => Ran(f, index) \in ParallelFrames
           /\ Ran(f, index) \in ParallelRecords(f.count)
           /\ Ran(f, index).kind = "parallel"
           /\ Ran(f, index).count = f.count /\ Ran(f, index).chunks = f.chunks
           /\ Ran(f, index).inline = f.inline /\ Ran(f, index).index = f.index
           /\ Ran(f, index).ran
                = [e \in 0 .. f.count - 1 |->
                     IF e \in SliceOf(f.count, f.chunks, index)
                     THEN f.ran[e] + 1 ELSE f.ran[e]]
<1>1. PICK c \in 1 .. MaxCount : f \in ParallelRecords(c)
  BY DEF ParallelFrames, ParallelsOf
<1>2. f.ran \in [0 .. c - 1 -> Nat] /\ f.count = c /\ DOMAIN f.ran = 0 .. c - 1
  BY <1>1 DEF ParallelRecords
<1> DEFINE more == [e \in 0 .. c - 1 |->
                     IF e \in SliceOf(f.count, f.chunks, index)
                     THEN f.ran[e] + 1 ELSE f.ran[e]]
<1>3. more \in [0 .. c - 1 -> Nat]
  BY <1>2
<1>4. Ran(f, index) = [f EXCEPT !.ran = more]
  BY <1>1, <1>2 DEF Ran, ParallelRecords
<1> HIDE DEF more
<1>5. /\ Ran(f, index) \in ParallelRecords(c)
      /\ Ran(f, index).kind = "parallel"
      /\ Ran(f, index).count = f.count /\ Ran(f, index).chunks = f.chunks
      /\ Ran(f, index).inline = f.inline /\ Ran(f, index).index = f.index
      /\ Ran(f, index).ran = more
  BY <1>1, <1>3, <1>4 DEF ParallelRecords
<1>6. ~f.inline => Ran(f, index) \in ParallelFrames
  BY <1>5, ParallelOf
<1> QED
  BY <1>2, <1>5, <1>6 DEF more

\* The frame of a call with another chunk as its own.
LEMMA IndexIs ==
    ASSUME NEW k \in 1 .. MaxCount, NEW f \in ParallelRecords(k), NEW n \in 0 .. f.chunks - 1
    PROVE  /\ ~f.inline => [f EXCEPT !.index = n] \in ParallelFrames
           /\ [f EXCEPT !.index = n] \in ParallelRecords(k)
           /\ [f EXCEPT !.index = n].kind = "parallel"
           /\ [f EXCEPT !.index = n].count = f.count
           /\ [f EXCEPT !.index = n].chunks = f.chunks
           /\ [f EXCEPT !.index = n].inline = f.inline
           /\ [f EXCEPT !.index = n].index = n
           /\ [f EXCEPT !.index = n].ran = f.ran
<1>1. f.chunks \in 1 .. k /\ k \in Nat
  BY PoolAssumption DEF ParallelRecords
<1>2. n \in 0 .. k - 1
  BY <1>1
<1>3. /\ [f EXCEPT !.index = n] \in ParallelRecords(k)
      /\ [f EXCEPT !.index = n].inline = f.inline
  BY <1>2 DEF ParallelRecords
<1>4. ~f.inline => [f EXCEPT !.index = n] \in ParallelFrames
  BY <1>3, ParallelOf
<1> QED
  BY <1>3, <1>4 DEF ParallelRecords

\* A chunk more was handed out.
LEMMA HandedRan ==
    ASSUME NEW f \in ParallelFrames, NEW X, Handed(f, X), NEW c \in Nat, c \notin X, NEW g,
           g.count = f.count, g.chunks = f.chunks, g.ran = Ran(f, c).ran
    PROVE  Handed(g, X \cup {c})
<1>1. /\ f.count \in Nat /\ f.chunks \in Nat /\ f.chunks > 0
      /\ f.ran \in [0 .. f.count - 1 -> Nat]
      /\ g.ran = [e \in 0 .. f.count - 1 |->
                   IF e \in SliceOf(f.count, f.chunks, c) THEN f.ran[e] + 1 ELSE f.ran[e]]
  <2>1. f.count \in 1 .. MaxCount /\ f.chunks \in 1 .. f.count
    BY ParallelIs
  <2> QED
    BY <2>1, ParallelIs, RanIs, PoolAssumption
<1>2. ASSUME NEW d \in 0 .. f.chunks - 1, NEW e \in 0 .. f.count - 1,
             e \in SliceOf(f.count, f.chunks, d)
      PROVE  g.ran[e] = One(d \in X \cup {c})
  <2>1. f.ran[e] = One(d \in X) /\ d \in Nat
    BY <1>1, <1>2 DEF Handed
  <2>2. CASE d = c
    <3>1. f.ran[e] = 0 /\ One(d \in X \cup {c}) = 1
      BY <2>1, <2>2 DEF One
    <3>2. g.ran[e] = f.ran[e] + 1
      BY <1>1, <1>2, <2>2
    <3> QED
      BY <3>1, <3>2
  <2>3. CASE d # c
    <3>1. e \notin SliceOf(f.count, f.chunks, c)
      BY <1>1, <1>2, <2>1, <2>3, SlicesApart
    <3>2. g.ran[e] = f.ran[e]
      BY <1>1, <3>1
    <3>3. One(d \in X \cup {c}) = One(d \in X)
      BY <2>3 DEF One
    <3> QED
      BY <2>1, <3>2, <3>3
  <2> QED
    BY <2>2, <2>3
<1> QED
  BY <1>2 DEF Handed

\* No element was handed out twice, and each one once when all chunks were.
LEMMA HandedOnce ==
    ASSUME NEW f \in ParallelFrames, NEW X, Handed(f, X), NEW e \in 0 .. f.count - 1
    PROVE  /\ f.ran[e] <= 1
           /\ 0 .. f.chunks - 1 \subseteq X => f.ran[e] = 1
<1>1. f.count \in Nat /\ f.chunks \in Nat /\ f.chunks > 0
  <2>1. f.count \in 1 .. MaxCount /\ f.chunks \in 1 .. f.count
    BY ParallelIs
  <2> QED
    BY <2>1, PoolAssumption
<1>2. PICK c \in 0 .. f.chunks - 1 : e \in SliceOf(f.count, f.chunks, c)
  BY <1>1, SlicesCover
<1>3. f.ran[e] = One(c \in X)
  BY <1>2 DEF Handed
<1> QED
  BY <1>2, <1>3 DEF One

\* An inline call after a chunk, with the next one taken.
LEMMA InlineTurn ==
    ASSUME NEW f \in ParallelFrames, f.inline, f.index + 1 < f.chunks, NEW g,
           g = [Ran(f, f.index) EXCEPT !.index = f.index + 1]
    PROVE  g \in ParallelFrames /\ g.kind = "parallel" /\ g.inline
<1> DEFINE r == Ran(f, f.index)
           n == f.index + 1
<1>1. /\ r \in ParallelRecords(f.count) /\ r.count = f.count /\ r.chunks = f.chunks
      /\ r.inline = f.inline /\ f.count \in 1 .. MaxCount
  BY RanIs, ParallelIs
<1>2. /\ f.chunks \in Nat /\ f.index \in Nat /\ MaxCount \in Nat
      /\ InlineOK(f)
  <2>1. f.count \in 1 .. MaxCount /\ f.chunks \in 1 .. f.count /\ f.index \in 0 .. f.count - 1
    BY ParallelIs
  <2> QED
    BY <2>1, ParallelIs, PoolAssumption
<1>3. n \in 0 .. r.chunks - 1
  BY <1>1, <1>2
<1> HIDE DEF r, n
<1>4. /\ g \in ParallelRecords(f.count) /\ g.kind = "parallel" /\ g.count = f.count
      /\ g.chunks = f.chunks /\ g.inline = f.inline /\ g.index = n /\ g.ran = r.ran
  <2>1. g = [r EXCEPT !.index = n]
    BY DEF r, n
  <2> DEFINE k == f.count
  <2>2. k \in 1 .. MaxCount /\ r \in ParallelRecords(k)
    BY <1>1
  <2> HIDE DEF k
  <2>3. /\ [r EXCEPT !.index = n] \in ParallelRecords(k)
        /\ [r EXCEPT !.index = n].kind = "parallel"
        /\ [r EXCEPT !.index = n].count = r.count
        /\ [r EXCEPT !.index = n].chunks = r.chunks
        /\ [r EXCEPT !.index = n].inline = r.inline
        /\ [r EXCEPT !.index = n].index = n
        /\ [r EXCEPT !.index = n].ran = r.ran
    BY <1>3, <2>2, IndexIs
  <2>4. /\ g \in ParallelRecords(k) /\ g.kind = "parallel" /\ g.count = r.count
        /\ g.chunks = r.chunks /\ g.inline = r.inline /\ g.index = n /\ g.ran = r.ran
    BY <2>1, <2>3
  <2> QED
    BY <1>1, <2>4 DEF k
<1>5. Handed(g, (0 .. f.index - 1) \cup {f.index})
  <2>1. Handed(f, 0 .. f.index - 1) /\ f.index \notin 0 .. f.index - 1
    BY <1>2 DEF InlineOK
  <2>2. g.ran = Ran(f, f.index).ran
    BY <1>4 DEF r
  <2> QED
    BY <1>2, <1>4, <2>1, <2>2, HandedRan
<1>6. (0 .. f.index - 1) \cup {f.index} = 0 .. g.index - 1
  BY <1>2, <1>4 DEF n
<1>7. InlineOK(g)
  BY <1>4, <1>5, <1>6 DEF InlineOK, n
<1> QED
  BY <1>1, <1>4, <1>7, ParallelOf

\* A frame of the program's code after a call, and with other jobs.
LEMMA CallsIs ==
    ASSUME NEW f \in Codes, NEW c \in Nat
    PROVE  /\ [f EXCEPT !.calls = c] \in Codes
           /\ [f EXCEPT !.calls = c].kind = f.kind
           /\ [f EXCEPT !.calls = c].jobs = f.jobs
BY DEF Codes

\* A frame of the code with other jobs.
LEMMA JobsIs ==
    ASSUME NEW f \in Codes, NEW J \in SUBSET Jobs
    PROVE  /\ [f EXCEPT !.jobs = J] \in Codes
           /\ [f EXCEPT !.jobs = J].kind = f.kind
           /\ [f EXCEPT !.jobs = J].jobs = J
BY DEF Codes

-----------------------------------------------------------------------------
(* What a step does to one stack, and what that changes for the pool.            *)

\* Only the stack of t changes.
Others(S, R, t) ==
    /\ DOMAIN R = PoolThreads
    /\ \A u \in PoolThreads : u # t => R[u] = S[u]

\* The calls and the chunks of the pool stand where they stood.
SameParallel(S, R) ==
    /\ \A u \in PoolThreads : \A i \in Nat :
          /\ PooledAt(R, u, i) <=> PooledAt(S, u, i)
          /\ PooledAt(S, u, i) => /\ R[u][i] = S[u][i]
                                  /\ Len(R[u]) > i <=> Len(S[u]) > i
    /\ \A w \in Workers :
          /\ ChunkOn(R, w) <=> ChunkOn(S, w)
          /\ ChunkOn(S, w) => R[w][2] = S[w][2]

SameRuns(S, R) ==
    \A u \in PoolThreads : \A i \in Nat : \A j \in Jobs :
        Runs(R, u, i, j) <=> Runs(S, u, i, j)

FewerOwners(S, R) ==
    \A u \in PoolThreads : \A i \in Nat : \A j \in Jobs :
        Owns(R, u, i, j) => Owns(S, u, i, j)

\* The frames of t up to place n are what they were.
Prefix(S, R, t, n) == \A i \in 1 .. n : R[t][i] = S[t][i]

\* The shapes that the actions give to the stack of t.
TwoOn(s, f) == s \o <<f, NewBody>>
SwapOn(s, f) == SetTop(Pop(s), f)
TurnOn(s, f) == SetTop(Pop(s), f) \o <<NewBody>>

\* r is s with f and a new body on it, with f on it, without its last frame, ...
Two(S, R, t, n, f) ==
    /\ R[t] \in Seq(Frames) /\ Len(R[t]) = n + 2 /\ Prefix(S, R, t, n)
    /\ R[t][n + 1] = f /\ R[t][n + 2] = NewBody
More(S, R, t, n, f) ==
    /\ R[t] \in Seq(Frames) /\ Len(R[t]) = n + 1 /\ Prefix(S, R, t, n)
    /\ R[t][n + 1] = f
Less(S, R, t, n, m) ==
    R[t] \in Seq(Frames) /\ Len(R[t]) = n - m /\ Prefix(S, R, t, n - m)
Swapped(S, R, t, n, f) ==
    /\ R[t] \in Seq(Frames) /\ Len(R[t]) = n - 1 /\ Prefix(S, R, t, n - 2)
    /\ R[t][n - 1] = f
Turned(S, R, t, n, f) ==
    /\ R[t] \in Seq(Frames) /\ Len(R[t]) = n /\ Prefix(S, R, t, n - 2)
    /\ R[t][n - 1] = f /\ R[t][n] = NewBody

\* A call and the body it runs go on a stack.
LEMMA PushTwo ==
    ASSUME NEW S, NEW R, NEW t, S[t] \in Seq(Frames), NEW n \in Nat, Len(S[t]) = n,
           NEW f \in Frames, R[t] = TwoOn(S[t], f)
    PROVE  Two(S, R, t, n, f)
<1> DEFINE s == S[t]
           b == NewBody
<1> HIDE DEF s, b
<1>1. b \in Frames /\ s \in Seq(Frames) /\ Len(s) = n
  BY NewBodyIs DEF s, b
<1>2. /\ s \o <<f, b>> \in Seq(Frames)
      /\ Len(s \o <<f, b>>) = n + 2
      /\ (s \o <<f, b>>)[n + 1] = f
      /\ (s \o <<f, b>>)[n + 2] = b
      /\ \A i \in 1 .. n : (s \o <<f, b>>)[i] = s[i]
  BY <1>1, TwoMore
<1>3. R[t] = s \o <<f, b>>
  BY DEF s, b, TwoOn
<1> QED
  BY <1>2, <1>3 DEF s, b, Prefix, Two

\* A frame goes on a stack.
LEMMA PushOne ==
    ASSUME NEW S, NEW R, NEW t, S[t] \in Seq(Frames), NEW n \in Nat, Len(S[t]) = n,
           NEW f \in Frames, R[t] = Append(S[t], f)
    PROVE  More(S, R, t, n, f)
BY DEF Prefix, More

\* The innermost frame leaves a stack.
LEMMA PopOne ==
    ASSUME NEW S, NEW R, NEW t, S[t] \in Seq(Frames), NEW n \in Nat, Len(S[t]) = n,
           n >= 1, R[t] = Pop(S[t])
    PROVE  Less(S, R, t, n, 1)
BY PopIs DEF Prefix, Less

\* A body and the call it ran for leave a stack.
LEMMA PopTwo ==
    ASSUME NEW S, NEW R, NEW t, S[t] \in Seq(Frames), NEW n \in Nat, Len(S[t]) = n,
           n >= 2, R[t] = Pop(Pop(S[t]))
    PROVE  Less(S, R, t, n, 2)
<1> DEFINE p == Pop(S[t])
<1>1. /\ p \in Seq(Frames) /\ Len(p) = n - 1
      /\ \A i \in 1 .. n - 1 : p[i] = S[t][i]
  BY PopIs
<1>2. R[t] = Pop(p)
  OBVIOUS
<1> HIDE DEF p
<1>3. n - 1 \in Nat /\ n - 1 >= 1 /\ (n - 1) - 1 = n - 2
  OBVIOUS
<1>4. /\ R[t] \in Seq(Frames) /\ Len(R[t]) = n - 2
      /\ \A i \in 1 .. n - 2 : R[t][i] = p[i]
  BY <1>1, <1>2, <1>3, PopIs
<1> QED
  BY <1>1, <1>4 DEF Prefix, Less

\* A body ends, and its call stays with another frame.
LEMMA SwapBelow ==
    ASSUME NEW S, NEW R, NEW t, S[t] \in Seq(Frames), NEW n \in Nat, Len(S[t]) = n,
           n >= 2, NEW f \in Frames, R[t] = SwapOn(S[t], f)
    PROVE  Swapped(S, R, t, n, f)
<1> DEFINE p == Pop(S[t])
           m == n - 1
<1>1. /\ p \in Seq(Frames) /\ Len(p) = n - 1
      /\ \A i \in 1 .. n - 1 : p[i] = S[t][i]
  BY PopIs
<1>2. R[t] = SetTop(p, f)
  BY DEF SwapOn
<1>3. m \in Nat /\ m >= 1 /\ m - 1 = n - 2 /\ Len(p) = m
  BY <1>1
<1> HIDE DEF p, m
<1>4. /\ R[t] \in Seq(Frames) /\ Len(R[t]) = m /\ R[t][m] = f
      /\ \A i \in 1 .. m - 1 : R[t][i] = p[i]
  BY <1>1, <1>2, <1>3 DEF SetTop
<1>5. Prefix(S, R, t, n - 2)
  <2>1. \A i \in 1 .. m - 1 : R[t][i] = S[t][i]
    BY <1>1, <1>3, <1>4 DEF m
  <2> QED
    BY <1>3, <2>1 DEF Prefix
<1> QED
  BY <1>3, <1>4, <1>5 DEF m, Swapped

\* A body ends, and its call runs the next one.
LEMMA SwapAndPush ==
    ASSUME NEW S, NEW R, NEW t, S[t] \in Seq(Frames), NEW n \in Nat, Len(S[t]) = n,
           n >= 2, NEW f \in Frames, R[t] = TurnOn(S[t], f)
    PROVE  Turned(S, R, t, n, f)
<1> DEFINE p == Pop(S[t])
           m == n - 1
           q == SetTop(p, f)
           b == NewBody
<1>1. /\ p \in Seq(Frames) /\ Len(p) = n - 1
      /\ \A i \in 1 .. n - 1 : p[i] = S[t][i]
  BY PopIs
<1>2. R[t] = q \o <<b>>
  BY DEF TurnOn
<1>3. m \in Nat /\ m >= 1 /\ m - 1 = n - 2 /\ Len(p) = m /\ m + 1 = n
  BY <1>1
<1> HIDE DEF p, m, b
<1>4. /\ q \in Seq(Frames) /\ Len(q) = m /\ q[m] = f
      /\ \A i \in 1 .. m - 1 : q[i] = p[i]
  BY <1>1, <1>3 DEF SetTop
<1> HIDE DEF q
<1>5. b \in Frames
  BY NewBodyIs DEF b
<1>6. /\ R[t] \in Seq(Frames) /\ Len(R[t]) = m + 1 /\ R[t][m + 1] = b
      /\ \A i \in 1 .. m : R[t][i] = q[i]
  BY <1>2, <1>3, <1>4, <1>5
<1> QED
  BY <1>1, <1>3, <1>4, <1>6 DEF Prefix, m, b, Turned

\* What StacksOK says of one stack.
LEMMA StackLen ==
    ASSUME NEW S, NEW t \in PoolThreads, StacksOK(S)
    PROVE  /\ ThreadOK(t, S[t]) /\ S[t] \in Seq(Frames) /\ Len(S[t]) \in Nat
           /\ \A i \in 1 .. Len(S[t]) : S[t][i] \in Frames /\ PlaceOK(t, i, S[t][i])
BY DEF StacksOK, ThreadOK

\* A `parallel` on top of a stack uses the pool.
LEMMA TopParallel ==
    ASSUME NEW S, NEW u \in PoolThreads, StacksOK(S), Len(S[u]) > 0,
           S[u][Len(S[u])].kind = "parallel"
    PROVE  PooledAt(S, u, Len(S[u])) /\ Len(S[u]) \in Nat
<1> DEFINE k == Len(S[u])
<1>1. /\ k \in Nat /\ k >= 1 /\ ThreadOK(u, S[u]) /\ Len(S[u]) = k
      /\ PlaceOK(u, k, S[u][k]) /\ S[u][k].kind = "parallel"
  BY StackLen
<1> HIDE DEF k
<1>2. k # 1
  BY <1>1 DEF PlaceOK
<1>3. k > 1
  BY <1>1, <1>2
<1>4. ~Odd(k)
  BY <1>1, <1>3 DEF PlaceOK
<1> QED
  BY <1>1, <1>4 DEF ThreadOK, PooledAt, Pooled

\* The stacks are right if the one that changes is.
LEMMA OthersOK ==
    ASSUME NEW S, NEW R, NEW t \in PoolThreads, StacksOK(S), Others(S, R, t),
           ThreadOK(t, R[t])
    PROVE  StacksOK(R)
BY DEF StacksOK, Others

ReplaceView(S, R, t, n) ==
    /\ StacksOK(R) /\ SameParallel(S, R) /\ SameRuns(S, R)
    /\ \A u \in PoolThreads : \A i \in Nat : \A j \in Jobs :
         Owns(R, u, i, j) <=> IF u = t /\ i = n THEN j \in R[t][n].jobs
                              ELSE Owns(S, u, i, j)

\* The innermost code of t changes its jobs or calls.
LEMMA Replaces ==
    ASSUME NEW S, NEW R, NEW t \in PoolThreads, StacksOK(S), Others(S, R, t),
           NEW n \in Nat, Len(S[t]) = n, n >= 1, S[t][n].kind \in {"main", "body"},
           R[t] \in Seq(Frames), Len(R[t]) = n, Prefix(S, R, t, n - 1),
           R[t][n].kind = S[t][n].kind
    PROVE  ReplaceView(S, R, t, n)
<1>1. /\ ThreadOK(t, S[t]) /\ S[t] \in Seq(Frames) /\ n \in Nat
      /\ \A i \in 1 .. n : PlaceOK(t, i, S[t][i])
  BY StackLen
<1>2. \A i \in 1 .. n - 1 : R[t][i] = S[t][i]
  BY DEF Prefix
<1>3. \A i \in 1 .. n : PlaceOK(t, i, R[t][i])
  <2>1. PlaceOK(t, n, R[t][n])
    BY <1>1 DEF PlaceOK
  <2> QED
    BY <1>1, <1>2, <2>1
<1>4. Odd(n)
  <2>1. PlaceOK(t, n, S[t][n])
    BY <1>1
  <2> QED
    BY <2>1 DEF PlaceOK
<1>5. ThreadOK(t, R[t])
  BY <1>1, <1>3, <1>4 DEF ThreadOK
<1>6. StacksOK(R)
  BY <1>5, OthersOK
<1>7. \A u \in PoolThreads : u # t => R[u] = S[u]
  BY DEF Others
<1>8. SameParallel(S, R)
  <2>1. ASSUME NEW u \in PoolThreads, NEW i \in Nat
        PROVE  /\ PooledAt(R, u, i) <=> PooledAt(S, u, i)
               /\ PooledAt(S, u, i) => /\ R[u][i] = S[u][i]
                                       /\ Len(R[u]) > i <=> Len(S[u]) > i
    BY <1>1, <1>2, <1>7 DEF PooledAt, Pooled
  <2>2. ASSUME NEW w \in Workers
        PROVE  /\ ChunkOn(R, w) <=> ChunkOn(S, w)
               /\ ChunkOn(S, w) => R[w][2] = S[w][2]
    <3>1. w \in PoolThreads
      BY DEF PoolThreads
    <3> QED
      BY <1>1, <1>2, <1>7, <3>1 DEF ChunkOn
  <2> QED
    BY <2>1, <2>2 DEF SameParallel
<1>9. SameRuns(S, R)
  BY <1>1, <1>2, <1>7 DEF SameRuns, Runs
<1>10. ASSUME NEW u \in PoolThreads, NEW i \in Nat, NEW j \in Jobs
       PROVE  Owns(R, u, i, j) <=> IF u = t /\ i = n THEN j \in R[t][n].jobs
                                   ELSE Owns(S, u, i, j)
  <2>1. CASE u # t
    BY <1>7, <2>1 DEF Owns
  <2>2. CASE u = t /\ i = n
    BY <1>1, <2>2 DEF Owns
  <2>3. CASE u = t /\ i # n
    BY <1>1, <1>2, <2>3 DEF Owns
  <2> QED
    BY <2>1, <2>2, <2>3
<1> QED
  BY <1>6, <1>8, <1>9, <1>10 DEF ReplaceView

EnterView(S, R, t, n) ==
    /\ StacksOK(R)
    /\ \A u \in PoolThreads : \A i \in Nat : \A j \in Jobs :
         Runs(R, u, i, j) <=>
             \/ Runs(S, u, i, j)
             \/ u = t /\ i = n + 1 /\ R[t][n + 1].kind = "job" /\ R[t][n + 1].job = j
    /\ FewerOwners(S, R)
    /\ \A u \in PoolThreads : \A i \in Nat :
         /\ PooledAt(R, u, i) <=> \/ PooledAt(S, u, i)
                                  \/ u = t /\ i = n + 1 /\ Pooled(R[t][n + 1])
         /\ PooledAt(S, u, i) => /\ R[u][i] = S[u][i]
                                 /\ Len(R[u]) > i <=> Len(S[u]) > i
    /\ \A w \in Workers :
         /\ ChunkOn(R, w) <=> \/ ChunkOn(S, w)
                              \/ w = t /\ n = 1 /\ R[t][2].kind = "chunk"
         /\ ChunkOn(S, w) => R[w][2] = S[w][2]

\* Code of t, or its loop, makes a call and a body runs on top of it.
LEMMA Enters ==
    ASSUME NEW S, NEW R, NEW t \in PoolThreads, StacksOK(S), Others(S, R, t),
           NEW n \in Nat, Len(S[t]) = n, n >= 1, Odd(n), n + 2 <= 2 * MaxLevel + 1,
           R[t] \in Seq(Frames), Len(R[t]) = n + 2, Prefix(S, R, t, n),
           PlaceOK(t, n + 1, R[t][n + 1]), R[t][n + 1].kind # "join",
           R[t][n + 2] = NewBody
    PROVE  EnterView(S, R, t, n)
<1>1. /\ ThreadOK(t, S[t]) /\ S[t] \in Seq(Frames) /\ n \in Nat
      /\ \A i \in 1 .. n : PlaceOK(t, i, S[t][i])
  BY StackLen
<1>2. \A i \in 1 .. n : R[t][i] = S[t][i]
  BY DEF Prefix
<1>3. ~Odd(n + 1) /\ Odd(n + 2)
  BY <1>1, OddFacts
<1>4. PlaceOK(t, n + 2, R[t][n + 2])
  BY <1>1, <1>3, NewBodyIs DEF PlaceOK
<1>5. ASSUME NEW i \in 1 .. n + 2
      PROVE  PlaceOK(t, i, R[t][i])
  <2>1. CASE i <= n
    <3>1. i \in 1 .. n
      BY <1>1, <2>1
    <3> QED
      BY <1>1, <1>2, <3>1
  <2>2. CASE i = n + 1
    BY <2>2
  <2>3. CASE i = n + 2
    BY <1>4, <2>3
  <2> QED
    BY <1>1, <2>1, <2>2, <2>3
<1>6. ThreadOK(t, R[t])
  BY <1>1, <1>3, <1>5 DEF ThreadOK
<1>7. StacksOK(R)
  BY <1>6, OthersOK
<1>8. \A u \in PoolThreads : u # t => R[u] = S[u]
  BY DEF Others
<1>9. R[t][n + 2].kind = "body" /\ R[t][n + 2].jobs = {}
  BY NewBodyIs
<1>10. S[t][n].kind \in {"main", "body", "loop"}
  BY <1>1 DEF PlaceOK
<1>11. R[t][n + 1].kind \in {"parallel", "join", "chunk", "job"}
  BY <1>1, <1>3 DEF PlaceOK
<1>12. ASSUME NEW u \in PoolThreads, NEW i \in Nat, NEW j \in Jobs
       PROVE  Runs(R, u, i, j) <=>
                \/ Runs(S, u, i, j)
                \/ u = t /\ i = n + 1 /\ R[t][n + 1].kind = "job" /\ R[t][n + 1].job = j
  <2>1. CASE u # t
    BY <1>8, <2>1 DEF Runs
  <2>2. CASE u = t /\ i < n
    <3>1. i # n + 1
      BY <1>1, <2>2
    <3>2. Runs(R, u, i, j) <=> Runs(S, u, i, j)
      BY <1>1, <1>2, <2>2 DEF Runs
    <3> QED
      BY <3>1, <3>2
  <2>3. CASE u = t /\ i = n
    <3>1. i # n + 1
      BY <1>1, <2>3
    <3>2. ~Runs(R, u, i, j) /\ ~Runs(S, u, i, j)
      <4>1. R[u][i].kind \in {"main", "body", "loop"} /\ S[u][i].kind \in {"main", "body", "loop"}
        BY <1>1, <1>2, <1>10, <2>3
      <4> QED
        BY <4>1 DEF Runs
    <3> QED
      BY <3>1, <3>2
  <2>4. CASE u = t /\ i > n
    BY <1>1, <2>4 DEF Runs
  <2> QED
    BY <1>1, <2>1, <2>2, <2>3, <2>4
<1>13. FewerOwners(S, R)
  <2>1. ASSUME NEW u \in PoolThreads, NEW i \in Nat, NEW j \in Jobs, Owns(R, u, i, j)
        PROVE  Owns(S, u, i, j)
    <3>1. CASE u # t
      BY <1>8, <2>1, <3>1 DEF Owns
    <3>2. CASE u = t /\ i <= n
      BY <1>1, <1>2, <2>1, <3>2 DEF Owns
    <3>3. CASE u = t /\ i > n
      BY <1>1, <1>9, <1>11, <2>1, <3>3 DEF Owns
    <3> QED
      BY <1>1, <3>1, <3>2, <3>3
  <2> QED
    BY <2>1 DEF FewerOwners
<1>14. ASSUME NEW u \in PoolThreads, NEW i \in Nat
       PROVE  /\ PooledAt(R, u, i) <=> \/ PooledAt(S, u, i)
                                       \/ u = t /\ i = n + 1 /\ Pooled(R[t][n + 1])
              /\ PooledAt(S, u, i) => /\ R[u][i] = S[u][i]
                                      /\ Len(R[u]) > i <=> Len(S[u]) > i
  <2>1. CASE u # t
    BY <1>8, <2>1 DEF PooledAt
  <2>2. CASE u = t /\ i <= n
    BY <1>1, <1>2, <1>10, <2>2 DEF PooledAt, Pooled
  <2>3. CASE u = t /\ i > n
    BY <1>1, <1>9, <2>3 DEF PooledAt, Pooled
  <2> QED
    BY <1>1, <2>1, <2>2, <2>3
<1>15. ASSUME NEW w \in Workers
       PROVE  /\ ChunkOn(R, w) <=> \/ ChunkOn(S, w)
                                   \/ w = t /\ n = 1 /\ R[t][2].kind = "chunk"
              /\ ChunkOn(S, w) => R[w][2] = S[w][2]
  <2>1. w \in PoolThreads
    BY DEF PoolThreads
  <2> QED
    <3>1. CASE w # t
      BY <1>8, <2>1, <3>1 DEF ChunkOn
    <3>2. CASE w = t /\ n = 1
      BY <1>1, <3>2 DEF ChunkOn
    <3>3. CASE w = t /\ n >= 2
      BY <1>1, <1>2, <3>3 DEF ChunkOn
    <3> QED
      BY <1>1, <3>1, <3>2, <3>3
<1> QED
  BY <1>7, <1>12, <1>13, <1>14, <1>15 DEF EnterView

AskView(S, R, t, n) ==
    /\ StacksOK(R) /\ SameParallel(S, R) /\ SameRuns(S, R)
    /\ \A u \in PoolThreads : \A i \in Nat : \A j \in Jobs :
         Owns(R, u, i, j) <=> \/ Owns(S, u, i, j)
                              \/ u = t /\ i = n + 1 /\ R[t][n + 1].job = j

\* A join stands on top of the code that made it.
LEMMA Asks ==
    ASSUME NEW S, NEW R, NEW t \in PoolThreads, StacksOK(S), Others(S, R, t),
           NEW n \in Nat, Len(S[t]) = n, n >= 1, S[t][n].kind \in {"main", "body"},
           n + 2 <= 2 * MaxLevel + 1,
           R[t] \in Seq(Frames), Len(R[t]) = n + 1, Prefix(S, R, t, n),
           R[t][n + 1].kind = "join"
    PROVE  AskView(S, R, t, n)
<1>1. /\ ThreadOK(t, S[t]) /\ S[t] \in Seq(Frames) /\ n \in Nat
      /\ \A i \in 1 .. n : PlaceOK(t, i, S[t][i])
  BY StackLen
<1>2. \A i \in 1 .. n : R[t][i] = S[t][i]
  BY DEF Prefix
<1>3. Odd(n)
  BY <1>1 DEF PlaceOK
<1>4. ~Odd(n + 1)
  BY <1>1, <1>3, OddFacts
<1>5. n = 1 => t \notin Workers
  BY <1>1, PoolAssumption DEF PlaceOK
<1>6. PlaceOK(t, n + 1, R[t][n + 1])
  <2>1. n + 1 # 1 /\ (n + 1 = 2 => t \notin Workers)
    BY <1>1, <1>5
  <2> QED
    BY <1>4, <2>1 DEF PlaceOK
<1>7. \A i \in 1 .. n + 1 : PlaceOK(t, i, R[t][i])
  BY <1>1, <1>2, <1>6
<1>8. ThreadOK(t, R[t])
  <2>1. MaxLevel \in Nat
    BY PoolAssumption
  <2> QED
    BY <1>1, <1>7, <2>1 DEF ThreadOK
<1>9. StacksOK(R)
  BY <1>8, OthersOK
<1>10. \A u \in PoolThreads : u # t => R[u] = S[u]
  BY DEF Others
<1>11. SameParallel(S, R)
  <2>1. ASSUME NEW u \in PoolThreads, NEW i \in Nat
        PROVE  /\ PooledAt(R, u, i) <=> PooledAt(S, u, i)
               /\ PooledAt(S, u, i) => /\ R[u][i] = S[u][i]
                                       /\ Len(R[u]) > i <=> Len(S[u]) > i
    <3>1. CASE u # t
      BY <1>10, <3>1 DEF PooledAt
    <3>2. CASE u = t /\ i <= n
      BY <1>1, <1>2, <3>2 DEF PooledAt, Pooled
    <3>3. CASE u = t /\ i > n
      BY <1>1, <3>3 DEF PooledAt, Pooled
    <3> QED
      BY <1>1, <3>1, <3>2, <3>3
  <2>2. ASSUME NEW w \in Workers
        PROVE  /\ ChunkOn(R, w) <=> ChunkOn(S, w)
               /\ ChunkOn(S, w) => R[w][2] = S[w][2]
    <3>1. w \in PoolThreads
      BY DEF PoolThreads
    <3> QED
      BY <1>1, <1>2, <1>10, <3>1 DEF ChunkOn
  <2> QED
    BY <2>1, <2>2 DEF SameParallel
<1>12. SameRuns(S, R)
  <2>1. ASSUME NEW u \in PoolThreads, NEW i \in Nat, NEW j \in Jobs
        PROVE  Runs(R, u, i, j) <=> Runs(S, u, i, j)
    <3>1. CASE u # t
      BY <1>10, <3>1 DEF Runs
    <3>2. CASE u = t /\ i < n
      BY <1>1, <1>2, <3>2 DEF Runs
    <3>3. CASE u = t /\ i >= n
      BY <1>1, <1>2, <3>3 DEF Runs
    <3> QED
      BY <1>1, <3>1, <3>2, <3>3
  <2> QED
    BY <2>1 DEF SameRuns
<1>13. ASSUME NEW u \in PoolThreads, NEW i \in Nat, NEW j \in Jobs
       PROVE  Owns(R, u, i, j) <=> \/ Owns(S, u, i, j)
                                   \/ u = t /\ i = n + 1 /\ R[t][n + 1].job = j
  <2>1. CASE u # t
    BY <1>10, <2>1 DEF Owns
  <2>2. CASE u = t /\ i <= n
    BY <1>1, <1>2, <2>2 DEF Owns
  <2>3. CASE u = t /\ i > n
    BY <1>1, <2>3 DEF Owns
  <2> QED
    BY <1>1, <2>1, <2>2, <2>3
<1> QED
  BY <1>9, <1>11, <1>12, <1>13 DEF AskView

ResumeView(S, R, t, n) ==
    /\ StacksOK(R)
    /\ \A u \in PoolThreads : \A i \in Nat : \A j \in Jobs :
         Runs(R, u, i, j) <=>
             \/ Runs(S, u, i, j)
             \/ u = t /\ i = n /\ S[t][n].kind = "join" /\ S[t][n].job = j
    /\ FewerOwners(S, R)
    /\ \A u \in PoolThreads : \A i \in Nat :
         /\ PooledAt(R, u, i) <=> PooledAt(S, u, i)
         /\ PooledAt(S, u, i) => R[u][i] = S[u][i]
    /\ \A w \in Workers :
         /\ ChunkOn(R, w) <=> ChunkOn(S, w)
         /\ ChunkOn(S, w) => R[w][2] = S[w][2]

\* A join that waits runs its job: a body on top of it.
LEMMA Resumes ==
    ASSUME NEW S, NEW R, NEW t \in PoolThreads, StacksOK(S), Others(S, R, t),
           NEW n \in Nat, Len(S[t]) = n, n >= 1, ~Odd(n),
           R[t] \in Seq(Frames), Len(R[t]) = n + 1, Prefix(S, R, t, n),
           R[t][n + 1] = NewBody
    PROVE  ResumeView(S, R, t, n)
<1>1. /\ ThreadOK(t, S[t]) /\ S[t] \in Seq(Frames)
      /\ \A i \in 1 .. n : PlaceOK(t, i, S[t][i])
  BY StackLen
<1>2. \A i \in 1 .. n : R[t][i] = S[t][i]
  BY DEF Prefix
<1>3. Odd(n + 1)
  BY OddFacts
<1>4. PlaceOK(t, n + 1, R[t][n + 1])
  BY <1>3, NewBodyIs DEF PlaceOK
<1>5. ASSUME NEW i \in 1 .. n + 1
      PROVE  PlaceOK(t, i, R[t][i])
  <2>1. CASE i <= n
    <3>1. i \in 1 .. n
      BY <2>1
    <3> QED
      BY <1>1, <1>2, <3>1
  <2>2. CASE i = n + 1
    BY <1>4, <2>2
  <2> QED
    BY <2>1, <2>2
<1>6. S[t][n].kind \in {"join", "parallel"}
  BY <1>1 DEF ThreadOK, Pooled
<1>7. n # 2 * MaxLevel + 1
  <2>1. MaxLevel \in Nat
    BY PoolAssumption
  <2> QED
    BY <2>1 DEF Odd
<1>8. ThreadOK(t, R[t])
  <2>1. MaxLevel \in Nat
    BY PoolAssumption
  <2>2. n + 1 <= 2 * MaxLevel + 1
    BY <1>1, <1>7, <2>1 DEF ThreadOK
  <2> QED
    BY <1>3, <1>5, <2>2 DEF ThreadOK
<1>9. StacksOK(R)
  BY <1>8, OthersOK
<1>10. \A u \in PoolThreads : u # t => R[u] = S[u]
  BY DEF Others
<1>11. R[t][n + 1].kind = "body" /\ R[t][n + 1].jobs = {}
  BY NewBodyIs
<1>12. ASSUME NEW u \in PoolThreads, NEW i \in Nat, NEW j \in Jobs
       PROVE  Runs(R, u, i, j) <=>
                \/ Runs(S, u, i, j)
                \/ u = t /\ i = n /\ S[t][n].kind = "join" /\ S[t][n].job = j
  <2>1. CASE u # t
    BY <1>10, <2>1 DEF Runs
  <2>2. CASE u = t /\ i < n
    <3>1. Runs(R, u, i, j) <=> Runs(S, u, i, j)
      BY <1>2, <2>2 DEF Runs
    <3> QED
      BY <2>2, <3>1
  <2>3. CASE u = t /\ i = n
    BY <1>2, <1>6, <2>3 DEF Runs
  <2>4. CASE u = t /\ i > n
    BY <2>4 DEF Runs
  <2> QED
    BY <2>1, <2>2, <2>3, <2>4
<1>13. FewerOwners(S, R)
  <2>1. ASSUME NEW u \in PoolThreads, NEW i \in Nat, NEW j \in Jobs, Owns(R, u, i, j)
        PROVE  Owns(S, u, i, j)
    <3>1. CASE u # t
      BY <1>10, <2>1, <3>1 DEF Owns
    <3>2. CASE u = t /\ i <= n
      BY <1>2, <2>1, <3>2 DEF Owns
    <3>3. CASE u = t /\ i > n
      BY <1>11, <2>1, <3>3 DEF Owns
    <3> QED
      BY <3>1, <3>2, <3>3
  <2> QED
    BY <2>1 DEF FewerOwners
<1>14. ASSUME NEW u \in PoolThreads, NEW i \in Nat
       PROVE  /\ PooledAt(R, u, i) <=> PooledAt(S, u, i)
              /\ PooledAt(S, u, i) => R[u][i] = S[u][i]
  <2>1. CASE u # t
    BY <1>10, <2>1 DEF PooledAt
  <2>2. CASE u = t /\ i <= n
    BY <1>2, <2>2 DEF PooledAt, Pooled
  <2>3. CASE u = t /\ i > n
    BY <1>11, <2>3 DEF PooledAt, Pooled
  <2> QED
    BY <2>1, <2>2, <2>3
<1>15. ASSUME NEW w \in Workers
       PROVE  /\ ChunkOn(R, w) <=> ChunkOn(S, w)
              /\ ChunkOn(S, w) => R[w][2] = S[w][2]
  <2>1. w \in PoolThreads
    BY DEF PoolThreads
  <2>2. n # 1
    BY OddFacts
  <2>3. CASE w # t
    BY <1>10, <2>1, <2>3 DEF ChunkOn
  <2>4. CASE w = t
    BY <1>2, <2>2, <2>4 DEF ChunkOn
  <2> QED
    BY <2>3, <2>4
<1> QED
  BY <1>9, <1>12, <1>13, <1>14, <1>15 DEF ResumeView

ReturnView(S, R, t, n) ==
    /\ StacksOK(R) /\ SameRuns(S, R)
    /\ \A u \in PoolThreads : \A i \in Nat : \A j \in Jobs :
         Owns(R, u, i, j) <=> Owns(S, u, i, j) /\ ~(u = t /\ i = n)
    /\ \A u \in PoolThreads : \A i \in Nat :
         /\ PooledAt(R, u, i) <=> PooledAt(S, u, i) /\ ~(u = t /\ i = n)
         /\ PooledAt(R, u, i) => /\ R[u][i] = S[u][i]
                                 /\ Len(R[u]) > i <=> Len(S[u]) > i
    /\ \A w \in Workers :
         /\ ChunkOn(R, w) <=> ChunkOn(S, w)
         /\ ChunkOn(S, w) => R[w][2] = S[w][2]

\* A call on top of the stack of t returns.
LEMMA Returns ==
    ASSUME NEW S, NEW R, NEW t \in PoolThreads, StacksOK(S), Others(S, R, t),
           NEW n \in Nat, Len(S[t]) = n, n >= 1, ~Odd(n),
           R[t] \in Seq(Frames), Len(R[t]) = n - 1, Prefix(S, R, t, n - 1)
    PROVE  ReturnView(S, R, t, n)
<1>1. /\ ThreadOK(t, S[t]) /\ S[t] \in Seq(Frames)
      /\ \A i \in 1 .. n : PlaceOK(t, i, S[t][i])
  BY StackLen
<1>2. \A i \in 1 .. n - 1 : R[t][i] = S[t][i]
  BY DEF Prefix
<1>3. Odd(n - 1) /\ n >= 2
  BY OddFacts
<1>4. S[t][n].kind \in {"join", "parallel"}
  BY <1>1 DEF ThreadOK, Pooled
<1>5. S[t][n - 1].kind \in {"main", "body", "loop"}
  <2>1. PlaceOK(t, n - 1, S[t][n - 1])
    BY <1>1, <1>3
  <2> QED
    BY <1>3, <2>1 DEF PlaceOK
<1>6. ThreadOK(t, R[t])
  <2>1. MaxLevel \in Nat
    BY PoolAssumption
  <2>2. n - 1 <= 2 * MaxLevel + 1
    BY <1>1, <2>1 DEF ThreadOK
  <2>3. \A i \in 1 .. n - 1 : PlaceOK(t, i, R[t][i])
    BY <1>1, <1>2
  <2> QED
    BY <1>3, <2>2, <2>3 DEF ThreadOK
<1>7. StacksOK(R)
  BY <1>6, OthersOK
<1>8. \A u \in PoolThreads : u # t => R[u] = S[u]
  BY DEF Others
<1>9. SameRuns(S, R)
  <2>1. ASSUME NEW u \in PoolThreads, NEW i \in Nat, NEW j \in Jobs
        PROVE  Runs(R, u, i, j) <=> Runs(S, u, i, j)
    <3>1. CASE u # t
      BY <1>8, <3>1 DEF Runs
    <3>2. CASE u = t /\ i < n - 1
      BY <1>2, <1>3, <3>2 DEF Runs
    <3>3. CASE u = t /\ i = n - 1
      BY <1>3, <1>5, <3>3 DEF Runs
    <3>4. CASE u = t /\ i >= n
      BY <1>3, <3>4 DEF Runs
    <3> QED
      BY <1>3, <3>1, <3>2, <3>3, <3>4
  <2> QED
    BY <2>1 DEF SameRuns
<1>10. ASSUME NEW u \in PoolThreads, NEW i \in Nat, NEW j \in Jobs
       PROVE  Owns(R, u, i, j) <=> Owns(S, u, i, j) /\ ~(u = t /\ i = n)
  <2>1. CASE u # t
    BY <1>8, <2>1 DEF Owns
  <2>2. CASE u = t /\ i < n
    BY <1>2, <1>3, <2>2 DEF Owns
  <2>3. CASE u = t /\ i >= n
    BY <1>3, <2>3 DEF Owns
  <2> QED
    BY <1>3, <2>1, <2>2, <2>3
<1>11. ASSUME NEW u \in PoolThreads, NEW i \in Nat
       PROVE  /\ PooledAt(R, u, i) <=> PooledAt(S, u, i) /\ ~(u = t /\ i = n)
              /\ PooledAt(R, u, i) => /\ R[u][i] = S[u][i]
                                      /\ Len(R[u]) > i <=> Len(S[u]) > i
  <2>1. CASE u # t
    BY <1>8, <2>1 DEF PooledAt
  <2>2. CASE u = t /\ i < n - 1
    BY <1>2, <1>3, <2>2 DEF PooledAt, Pooled
  <2>3. CASE u = t /\ i = n - 1
    BY <1>2, <1>3, <1>5, <2>3 DEF PooledAt, Pooled
  <2>4. CASE u = t /\ i >= n
    BY <1>3, <2>4 DEF PooledAt, Pooled
  <2> QED
    BY <1>3, <2>1, <2>2, <2>3, <2>4
<1>12. ASSUME NEW w \in Workers
       PROVE  /\ ChunkOn(R, w) <=> ChunkOn(S, w)
              /\ ChunkOn(S, w) => R[w][2] = S[w][2]
  <2>1. w \in PoolThreads
    BY DEF PoolThreads
  <2>2. CASE w # t
    BY <1>8, <2>1, <2>2 DEF ChunkOn
  <2>3. CASE w = t /\ n = 2
    BY <1>3, <1>4, <2>3 DEF ChunkOn
  <2>4. CASE w = t /\ n > 2
    BY <1>2, <1>3, <2>4 DEF ChunkOn
  <2> QED
    BY <1>3, <2>2, <2>3, <2>4
<1> QED
  BY <1>7, <1>9, <1>10, <1>11, <1>12 DEF ReturnView

LeaveView(S, R, t, n) ==
    /\ StacksOK(R) /\ FewerOwners(S, R)
    /\ \A u \in PoolThreads : \A i \in Nat : \A j \in Jobs :
         /\ Runs(R, u, i, j) <=> Runs(S, u, i, j) /\ ~(u = t /\ i = n - 1)
         /\ Owns(R, u, i, j) => ~(u = t /\ i = n - 1)
    /\ \A u \in PoolThreads : \A i \in Nat :
         /\ PooledAt(R, u, i) <=> PooledAt(S, u, i) /\ ~(u = t /\ i = n - 1)
         /\ PooledAt(R, u, i) => /\ R[u][i] = S[u][i]
                                 /\ Len(R[u]) > i <=> Len(S[u]) > i
    /\ \A w \in Workers :
         /\ ChunkOn(R, w) <=> ChunkOn(S, w) /\ ~(w = t /\ n = 3)
         /\ ChunkOn(R, w) => R[w][2] = S[w][2]

\* A body of t ends, and the call or the work below it with it.
LEMMA Leaves ==
    ASSUME NEW S, NEW R, NEW t \in PoolThreads, StacksOK(S), Others(S, R, t),
           NEW n \in Nat, Len(S[t]) = n, n >= 3, Odd(n),
           R[t] \in Seq(Frames), Len(R[t]) = n - 2, Prefix(S, R, t, n - 2)
    PROVE  LeaveView(S, R, t, n)
<1>1. /\ ThreadOK(t, S[t]) /\ S[t] \in Seq(Frames)
      /\ \A i \in 1 .. n : PlaceOK(t, i, S[t][i])
  BY StackLen
<1>2. \A i \in 1 .. n - 2 : R[t][i] = S[t][i]
  BY DEF Prefix
<1>3. Odd(n - 2) /\ ~Odd(n - 1)
  <2>1. n - 2 \in Nat /\ n = (n - 2) + 2
    OBVIOUS
  <2> QED
    BY <2>1, OddFacts
<1>4. S[t][n].kind = "body"
  <2>1. PlaceOK(t, n, S[t][n])
    BY <1>1
  <2> QED
    BY <2>1 DEF PlaceOK
<1>5. S[t][n - 2].kind \in {"main", "body", "loop"}
  <2>1. PlaceOK(t, n - 2, S[t][n - 2])
    BY <1>1
  <2> QED
    BY <1>3, <2>1 DEF PlaceOK
<1>6. ThreadOK(t, R[t])
  <2>1. MaxLevel \in Nat
    BY PoolAssumption
  <2>2. n - 2 <= 2 * MaxLevel + 1
    BY <1>1, <2>1 DEF ThreadOK
  <2>3. \A i \in 1 .. n - 2 : PlaceOK(t, i, R[t][i])
    BY <1>1, <1>2
  <2> QED
    BY <1>3, <2>2, <2>3 DEF ThreadOK
<1>7. StacksOK(R)
  BY <1>6, OthersOK
<1>8. \A u \in PoolThreads : u # t => R[u] = S[u]
  BY DEF Others
<1>9. ASSUME NEW u \in PoolThreads, NEW i \in Nat, NEW j \in Jobs
      PROVE  Runs(R, u, i, j) <=> Runs(S, u, i, j) /\ ~(u = t /\ i = n - 1)
  <2>1. CASE u # t
    BY <1>8, <2>1 DEF Runs
  <2>2. CASE u = t /\ i < n - 2
    BY <1>2, <2>2 DEF Runs
  <2>3. CASE u = t /\ i = n - 2
    BY <1>5, <2>3 DEF Runs
  <2>4. CASE u = t /\ i >= n - 1
    BY <2>4 DEF Runs
  <2> QED
    BY <2>1, <2>2, <2>3, <2>4
<1>10. ASSUME NEW u \in PoolThreads, NEW i \in Nat, NEW j \in Jobs, Owns(R, u, i, j)
       PROVE  Owns(S, u, i, j) /\ ~(u = t /\ i = n - 1)
  <2>1. CASE u # t
    BY <1>8, <1>10, <2>1 DEF Owns
  <2>2. CASE u = t /\ i <= n - 2
    BY <1>2, <1>10, <2>2 DEF Owns
  <2>3. CASE u = t /\ i >= n - 1
    BY <1>10, <2>3 DEF Owns
  <2> QED
    BY <2>1, <2>2, <2>3
<1>11. ASSUME NEW u \in PoolThreads, NEW i \in Nat
       PROVE  /\ PooledAt(R, u, i) <=> PooledAt(S, u, i) /\ ~(u = t /\ i = n - 1)
              /\ PooledAt(R, u, i) => /\ R[u][i] = S[u][i]
                                      /\ Len(R[u]) > i <=> Len(S[u]) > i
  <2>1. CASE u # t
    BY <1>8, <2>1 DEF PooledAt
  <2>2. CASE u = t /\ i < n - 2
    BY <1>2, <2>2 DEF PooledAt, Pooled
  <2>3. CASE u = t /\ i = n - 2
    BY <1>2, <1>5, <2>3 DEF PooledAt, Pooled
  <2>4. CASE u = t /\ i = n - 1
    BY <2>4 DEF PooledAt
  <2>5. CASE u = t /\ i >= n
    BY <1>4, <2>5 DEF PooledAt, Pooled
  <2> QED
    BY <2>1, <2>2, <2>3, <2>4, <2>5
<1>12. ASSUME NEW w \in Workers
       PROVE  /\ ChunkOn(R, w) <=> ChunkOn(S, w) /\ ~(w = t /\ n = 3)
              /\ ChunkOn(R, w) => R[w][2] = S[w][2]
  <2>1. w \in PoolThreads
    BY DEF PoolThreads
  <2>2. CASE w # t
    BY <1>8, <2>1, <2>2 DEF ChunkOn
  <2>3. CASE w = t /\ n = 3
    BY <2>3 DEF ChunkOn
  <2>4. CASE w = t /\ n > 3
    BY <1>2, <2>4 DEF ChunkOn
  <2> QED
    BY <2>2, <2>3, <2>4
<1>13. FewerOwners(S, R)
  BY <1>10 DEF FewerOwners
<1> QED
  BY <1>7, <1>9, <1>10, <1>11, <1>12, <1>13 DEF LeaveView

\* A call that does not use the pool goes on to its next chunk.
LEMMA Turns ==
    ASSUME NEW S, NEW R, NEW t \in PoolThreads, StacksOK(S), Others(S, R, t),
           NEW n \in Nat, Len(S[t]) = n, n >= 3, Odd(n),
           R[t] \in Seq(Frames), Len(R[t]) = n, Prefix(S, R, t, n - 2),
           S[t][n - 1].kind = "parallel", S[t][n - 1].inline,
           R[t][n - 1].kind = "parallel", R[t][n - 1].inline,
           R[t][n] = NewBody
    PROVE  StacksOK(R) /\ SameParallel(S, R) /\ SameRuns(S, R) /\ FewerOwners(S, R)
<1>1. /\ ThreadOK(t, S[t]) /\ S[t] \in Seq(Frames)
      /\ \A i \in 1 .. n : PlaceOK(t, i, S[t][i])
  BY StackLen
<1>2. \A i \in 1 .. n - 2 : R[t][i] = S[t][i]
  BY DEF Prefix
<1>3. R[t][n].kind = "body" /\ R[t][n].jobs = {} /\ S[t][n].kind = "body"
  <2>1. PlaceOK(t, n, S[t][n])
    BY <1>1
  <2> QED
    BY <2>1, NewBodyIs DEF PlaceOK
<1>4. ASSUME NEW i \in 1 .. n
      PROVE  PlaceOK(t, i, R[t][i])
  <2>1. CASE i <= n - 2
    <3>1. i \in 1 .. n - 2
      BY <2>1
    <3> QED
      BY <1>1, <1>2, <3>1
  <2>2. CASE i = n - 1
    <3>1. PlaceOK(t, n - 1, S[t][n - 1])
      BY <1>1
    <3> QED
      BY <2>2, <3>1 DEF PlaceOK
  <2>3. CASE i = n
    BY <1>3, <2>3 DEF PlaceOK
  <2> QED
    BY <2>1, <2>2, <2>3
<1>5. ThreadOK(t, R[t])
  BY <1>1, <1>4 DEF ThreadOK
<1>6. StacksOK(R)
  BY <1>5, OthersOK
<1>7. \A u \in PoolThreads : u # t => R[u] = S[u]
  BY DEF Others
<1>8. ASSUME NEW u \in PoolThreads, NEW i \in Nat
      PROVE  /\ PooledAt(R, u, i) <=> PooledAt(S, u, i)
             /\ PooledAt(S, u, i) => /\ R[u][i] = S[u][i]
                                     /\ Len(R[u]) > i <=> Len(S[u]) > i
  <2>1. CASE u # t
    BY <1>7, <2>1 DEF PooledAt
  <2>2. CASE u = t /\ i <= n - 2
    BY <1>2, <2>2 DEF PooledAt, Pooled
  <2>3. CASE u = t /\ i = n - 1
    BY <2>3 DEF PooledAt, Pooled
  <2>4. CASE u = t /\ i >= n
    BY <1>3, <2>4 DEF PooledAt, Pooled
  <2> QED
    BY <2>1, <2>2, <2>3, <2>4
<1>9. ASSUME NEW w \in Workers
      PROVE  /\ ChunkOn(R, w) <=> ChunkOn(S, w)
             /\ ChunkOn(S, w) => R[w][2] = S[w][2]
  <2>1. w \in PoolThreads
    BY DEF PoolThreads
  <2>2. CASE w # t
    BY <1>7, <2>1, <2>2 DEF ChunkOn
  <2>3. CASE w = t /\ n = 3
    BY <2>3 DEF ChunkOn
  <2>4. CASE w = t /\ n > 3
    BY <1>2, <2>4 DEF ChunkOn
  <2> QED
    BY <2>2, <2>3, <2>4
<1>10. SameParallel(S, R)
  BY <1>8, <1>9 DEF SameParallel
<1>11. ASSUME NEW u \in PoolThreads, NEW i \in Nat, NEW j \in Jobs
       PROVE  Runs(R, u, i, j) <=> Runs(S, u, i, j)
  <2>1. CASE u # t
    BY <1>7, <2>1 DEF Runs
  <2>2. CASE u = t /\ i <= n - 2
    BY <1>2, <2>2 DEF Runs
  <2>3. CASE u = t /\ i >= n - 1
    BY <2>3 DEF Runs
  <2> QED
    BY <2>1, <2>2, <2>3
<1>12. ASSUME NEW u \in PoolThreads, NEW i \in Nat, NEW j \in Jobs, Owns(R, u, i, j)
       PROVE  Owns(S, u, i, j)
  <2>1. CASE u # t
    BY <1>7, <1>12, <2>1 DEF Owns
  <2>2. CASE u = t /\ i <= n - 2
    BY <1>2, <1>12, <2>2 DEF Owns
  <2>3. CASE u = t /\ i = n - 1
    BY <1>12, <2>3 DEF Owns
  <2>4. CASE u = t /\ i >= n
    BY <1>3, <1>12, <2>4 DEF Owns
  <2> QED
    BY <2>1, <2>2, <2>3, <2>4
<1> QED
  BY <1>6, <1>10, <1>11, <1>12 DEF SameRuns, FewerOwners

ParkView(S, R, t, n) ==
    /\ StacksOK(R) /\ SameRuns(S, R) /\ FewerOwners(S, R)
    /\ \A u \in PoolThreads : \A i \in Nat : 
         /\ PooledAt(R, u, i) <=> PooledAt(S, u, i)
         /\ PooledAt(S, u, i) /\ ~(u = t /\ i = n - 1) =>
              R[u][i] = S[u][i] /\ (Len(R[u]) > i <=> Len(S[u]) > i)
    /\ \A w \in Workers :
         /\ ChunkOn(R, w) <=> ChunkOn(S, w)
         /\ ChunkOn(S, w) => R[w][2] = S[w][2]

\* The call of t that uses the pool has no chunk of its own to run.
LEMMA Parks ==
    ASSUME NEW S, NEW R, NEW t \in PoolThreads, StacksOK(S), Others(S, R, t),
           NEW n \in Nat, Len(S[t]) = n, n >= 3, Odd(n),
           R[t] \in Seq(Frames), Len(R[t]) = n - 1, Prefix(S, R, t, n - 2),
           Pooled(S[t][n - 1]), Pooled(R[t][n - 1])
    PROVE  ParkView(S, R, t, n)
<1>1. /\ ThreadOK(t, S[t]) /\ S[t] \in Seq(Frames)
      /\ \A i \in 1 .. n : PlaceOK(t, i, S[t][i])
  BY StackLen
<1>2. \A i \in 1 .. n - 2 : R[t][i] = S[t][i]
  BY DEF Prefix
<1>3. S[t][n].kind = "body"
  <2>1. PlaceOK(t, n, S[t][n])
    BY <1>1
  <2> QED
    BY <2>1 DEF PlaceOK
<1>4. S[t][n - 1].kind = "parallel" /\ R[t][n - 1].kind = "parallel"
  BY DEF Pooled
<1>5. ASSUME NEW i \in 1 .. n - 1
      PROVE  PlaceOK(t, i, R[t][i])
  <2>1. CASE i <= n - 2
    <3>1. i \in 1 .. n - 2
      BY <2>1
    <3> QED
      BY <1>1, <1>2, <3>1
  <2>2. CASE i = n - 1
    <3>1. PlaceOK(t, n - 1, S[t][n - 1])
      BY <1>1
    <3> QED
      BY <1>4, <2>2, <3>1 DEF PlaceOK
  <2> QED
    BY <2>1, <2>2
<1>6. ThreadOK(t, R[t])
  <2>1. MaxLevel \in Nat
    BY PoolAssumption
  <2>2. n - 1 <= 2 * MaxLevel + 1
    BY <1>1, <2>1 DEF ThreadOK
  <2> QED
    BY <1>5, <2>2 DEF ThreadOK
<1>7. StacksOK(R)
  BY <1>6, OthersOK
<1>8. \A u \in PoolThreads : u # t => R[u] = S[u]
  BY DEF Others
<1>9. ASSUME NEW u \in PoolThreads, NEW i \in Nat
      PROVE  /\ PooledAt(R, u, i) <=> PooledAt(S, u, i)
             /\ PooledAt(S, u, i) /\ ~(u = t /\ i = n - 1) =>
                  R[u][i] = S[u][i] /\ (Len(R[u]) > i <=> Len(S[u]) > i)
  <2>1. CASE u # t
    BY <1>8, <2>1 DEF PooledAt
  <2>2. CASE u = t /\ i <= n - 2
    BY <1>2, <2>2 DEF PooledAt, Pooled
  <2>3. CASE u = t /\ i = n - 1
    BY <2>3 DEF PooledAt
  <2>4. CASE u = t /\ i >= n
    BY <1>3, <2>4 DEF PooledAt, Pooled
  <2> QED
    BY <2>1, <2>2, <2>3, <2>4
<1>10. ASSUME NEW w \in Workers
       PROVE  /\ ChunkOn(R, w) <=> ChunkOn(S, w)
              /\ ChunkOn(S, w) => R[w][2] = S[w][2]
  <2>1. w \in PoolThreads
    BY DEF PoolThreads
  <2>2. CASE w # t
    BY <1>8, <2>1, <2>2 DEF ChunkOn
  <2>3. CASE w = t /\ n = 3
    BY <1>4, <2>3 DEF ChunkOn
  <2>4. CASE w = t /\ n > 3
    BY <1>2, <2>4 DEF ChunkOn
  <2> QED
    BY <2>2, <2>3, <2>4
<1>11. ASSUME NEW u \in PoolThreads, NEW i \in Nat, NEW j \in Jobs
       PROVE  Runs(R, u, i, j) <=> Runs(S, u, i, j)
  <2>1. CASE u # t
    BY <1>8, <2>1 DEF Runs
  <2>2. CASE u = t /\ i <= n - 2
    BY <1>2, <2>2 DEF Runs
  <2>3. CASE u = t /\ i = n - 1
    BY <1>4, <2>3 DEF Runs
  <2>4. CASE u = t /\ i >= n
    BY <2>4 DEF Runs
  <2> QED
    BY <2>1, <2>2, <2>3, <2>4
<1>12. ASSUME NEW u \in PoolThreads, NEW i \in Nat, NEW j \in Jobs, Owns(R, u, i, j)
       PROVE  Owns(S, u, i, j)
  <2>1. CASE u # t
    BY <1>8, <1>12, <2>1 DEF Owns
  <2>2. CASE u = t /\ i <= n - 2
    BY <1>2, <1>12, <2>2 DEF Owns
  <2>3. CASE u = t /\ i = n - 1
    BY <1>4, <1>12, <2>3 DEF Owns
  <2>4. CASE u = t /\ i >= n
    BY <1>12, <2>4 DEF Owns
  <2> QED
    BY <2>1, <2>2, <2>3, <2>4
<1> QED
  BY <1>7, <1>9, <1>10, <1>11, <1>12 DEF SameRuns, FewerOwners, ParkView

CountView(S, R, t, k) ==
    /\ StacksOK(R) /\ SameRuns(S, R) /\ FewerOwners(S, R)
    /\ \A u \in PoolThreads : Len(R[u]) = Len(S[u])
    /\ \A u \in PoolThreads : \A i \in Nat : 
         /\ PooledAt(R, u, i) <=> PooledAt(S, u, i)
         /\ PooledAt(S, u, i) /\ ~(u = t /\ i = k) => R[u][i] = S[u][i]
    /\ \A w \in Workers :
         /\ ChunkOn(R, w) <=> ChunkOn(S, w)
         /\ ChunkOn(S, w) => R[w][2] = S[w][2]

\* A chunk is counted in the frame of its call.
LEMMA Counts ==
    ASSUME NEW S, NEW R, NEW t \in PoolThreads, StacksOK(S), Others(S, R, t),
           NEW k \in Nat, PooledAt(S, t, k),
           R[t] \in Seq(Frames), Len(R[t]) = Len(S[t]),
           \A i \in 1 .. Len(S[t]) : i # k => R[t][i] = S[t][i],
           Pooled(R[t][k])
    PROVE  CountView(S, R, t, k)
<1>1. /\ ThreadOK(t, S[t]) /\ S[t] \in Seq(Frames) /\ Len(S[t]) \in Nat
      /\ \A i \in 1 .. Len(S[t]) : PlaceOK(t, i, S[t][i])
  BY StackLen
<1>2. /\ S[t][k].kind = "parallel" /\ R[t][k].kind = "parallel"
      /\ k \in 1 .. Len(S[t]) /\ Pooled(S[t][k])
  BY DEF PooledAt, Pooled
<1>3. ASSUME NEW i \in 1 .. Len(S[t])
      PROVE  PlaceOK(t, i, R[t][i])
  <2>1. CASE i # k
    BY <1>1, <2>1
  <2>2. CASE i = k
    <3>1. PlaceOK(t, k, S[t][k])
      BY <1>1, <1>2
    <3> QED
      BY <1>2, <2>2, <3>1 DEF PlaceOK
  <2> QED
    BY <2>1, <2>2
<1>4. ThreadOK(t, R[t])
  <2>1. Len(S[t]) >= 1 /\ ~Odd(Len(S[t])) =>
           R[t][Len(S[t])].kind = "join" \/ Pooled(R[t][Len(S[t])])
    <3>1. CASE Len(S[t]) = k
      BY <3>1
    <3>2. CASE Len(S[t]) # k
      BY <1>1, <3>2 DEF ThreadOK
    <3> QED
      BY <3>1, <3>2
  <2> QED
    BY <1>1, <1>3, <2>1 DEF ThreadOK
<1>5. StacksOK(R)
  BY <1>4, OthersOK
<1>6. \A u \in PoolThreads : u # t => R[u] = S[u]
  BY DEF Others
<1>7. ASSUME NEW u \in PoolThreads
      PROVE  Len(R[u]) = Len(S[u])
  BY <1>6
<1>8. ASSUME NEW u \in PoolThreads, NEW i \in Nat
      PROVE  /\ PooledAt(R, u, i) <=> PooledAt(S, u, i)
             /\ PooledAt(S, u, i) /\ ~(u = t /\ i = k) => R[u][i] = S[u][i]
  <2>1. CASE u # t
    BY <1>6, <2>1 DEF PooledAt
  <2>2. CASE u = t /\ i # k
    BY <2>2 DEF PooledAt
  <2>3. CASE u = t /\ i = k
    BY <1>2, <2>3 DEF PooledAt
  <2> QED
    BY <2>1, <2>2, <2>3
<1>9. ASSUME NEW w \in Workers
      PROVE  /\ ChunkOn(R, w) <=> ChunkOn(S, w)
             /\ ChunkOn(S, w) => R[w][2] = S[w][2]
  <2>1. w \in PoolThreads
    BY DEF PoolThreads
  <2>2. CASE w # t
    BY <1>6, <2>1, <2>2 DEF ChunkOn
  <2>3. CASE w = t /\ k = 2
    BY <1>2, <2>3 DEF ChunkOn
  <2>4. CASE w = t /\ k # 2
    BY <1>1, <2>4 DEF ChunkOn
  <2> QED
    BY <2>2, <2>3, <2>4
<1>10. ASSUME NEW u \in PoolThreads, NEW i \in Nat, NEW j \in Jobs
       PROVE  Runs(R, u, i, j) <=> Runs(S, u, i, j)
  <2>1. CASE u # t
    BY <1>6, <2>1 DEF Runs
  <2>2. CASE u = t /\ i # k
    BY <1>1, <2>2 DEF Runs
  <2>3. CASE u = t /\ i = k
    BY <1>2, <2>3 DEF Runs
  <2> QED
    BY <2>1, <2>2, <2>3
<1>11. ASSUME NEW u \in PoolThreads, NEW i \in Nat, NEW j \in Jobs, Owns(R, u, i, j)
       PROVE  Owns(S, u, i, j)
  <2>1. CASE u # t
    BY <1>6, <1>11, <2>1 DEF Owns
  <2>2. CASE u = t /\ i # k
    BY <1>11, <2>2 DEF Owns
  <2>3. CASE u = t /\ i = k
    BY <1>2, <1>11, <2>3 DEF Owns
  <2> QED
    BY <2>1, <2>2, <2>3
<1> QED
  BY <1>5, <1>7, <1>8, <1>9, <1>10, <1>11 DEF SameRuns, FewerOwners, CountView

\* Workers start and come to their loop.
Fresh(S, R) ==
    /\ DOMAIN R = PoolThreads
    /\ \A u \in PoolThreads :
          \/ R[u] = S[u]
          \/ u \in Workers /\ S[u] = <<>> /\ R[u] = <<[kind |-> "loop"]>>

\* Workers that the first call starts have nothing to do yet.
LEMMA Starts ==
    ASSUME NEW S, NEW R, StacksOK(S), Fresh(S, R)
    PROVE  StacksOK(R) /\ SameParallel(S, R) /\ SameRuns(S, R) /\ FewerOwners(S, R)
<1> DEFINE loop == [kind |-> "loop"]
<1>1. loop \in Frames /\ loop.kind = "loop"
  BY DEF Frames, Loops
<1>2. ASSUME NEW u \in PoolThreads
      PROVE  \/ R[u] = S[u]
             \/ /\ u \in Workers /\ S[u] = <<>> /\ R[u] \in Seq(Frames)
                /\ Len(R[u]) = 1 /\ R[u][1].kind = "loop" /\ Len(S[u]) = 0
  <2>1. CASE R[u] = S[u]
    BY <2>1
  <2>2. CASE R[u] # S[u]
    <3>1. u \in Workers /\ S[u] = <<>> /\ R[u] = <<loop>>
      BY <2>2 DEF Fresh
    <3> HIDE DEF loop
    <3>2. R[u] \in Seq(Frames) /\ Len(R[u]) = 1 /\ R[u][1] = loop
      BY <1>1, <3>1
    <3>3. Len(S[u]) = 0
      BY <3>1
    <3> QED
      BY <1>1, <3>1, <3>2, <3>3
  <2> QED
    BY <2>1, <2>2
<1>3. ASSUME NEW u \in PoolThreads
      PROVE  ThreadOK(u, R[u])
  <2>1. CASE R[u] = S[u]
    BY <2>1 DEF StacksOK
  <2>2. CASE R[u] # S[u]
    <3>1. /\ u \in Workers /\ R[u] \in Seq(Frames) /\ Len(R[u]) = 1
          /\ R[u][1].kind = "loop"
      BY <1>2, <2>2
    <3>2. u \notin Callers
      BY <3>1, PoolAssumption
    <3>3. PlaceOK(u, 1, R[u][1])
      BY <3>1, <3>2, OddFacts DEF PlaceOK
    <3>4. MaxLevel \in Nat /\ Odd(1)
      BY PoolAssumption, OddFacts
    <3>5. \A i \in 1 .. Len(R[u]) : PlaceOK(u, i, R[u][i])
      BY <3>1, <3>3
    <3> QED
      BY <3>1, <3>2, <3>4, <3>5 DEF ThreadOK
  <2> QED
    BY <2>1, <2>2
<1>4. StacksOK(R)
  BY <1>3 DEF StacksOK, Fresh
<1>5. ASSUME NEW u \in PoolThreads, NEW i \in Nat
      PROVE  /\ PooledAt(R, u, i) <=> PooledAt(S, u, i)
             /\ PooledAt(S, u, i) => /\ R[u][i] = S[u][i]
                                     /\ Len(R[u]) > i <=> Len(S[u]) > i
  BY <1>2 DEF PooledAt, Pooled
<1>6. ASSUME NEW w \in Workers
      PROVE  /\ ChunkOn(R, w) <=> ChunkOn(S, w)
             /\ ChunkOn(S, w) => R[w][2] = S[w][2]
  <2>1. w \in PoolThreads
    BY DEF PoolThreads
  <2> QED
    BY <1>2, <2>1 DEF ChunkOn
<1>7. ASSUME NEW u \in PoolThreads, NEW i \in Nat, NEW j \in Jobs
      PROVE  Runs(R, u, i, j) <=> Runs(S, u, i, j)
  BY <1>2 DEF Runs
<1>8. ASSUME NEW u \in PoolThreads, NEW i \in Nat, NEW j \in Jobs, Owns(R, u, i, j)
      PROVE  Owns(S, u, i, j)
  BY <1>2, <1>8 DEF Owns
<1> QED
  BY <1>4, <1>5, <1>6, <1>7, <1>8 DEF SameParallel, SameRuns, FewerOwners

-----------------------------------------------------------------------------
(* What a step leaves alone. *)

\* Chunks that a step does not touch.
LEMMA ChunksStay ==
    ASSUME NEW S, NEW R, SameParallel(S, R), NEW t \in PoolThreads, NEW i \in Nat,
           PooledAt(S, t, i), NEW tk, ChunksOK(S, t, i, tk)
    PROVE  ChunksOK(R, t, i, tk)
<1>1. R[t][i] = S[t][i] /\ (Len(R[t]) > i <=> Len(S[t]) > i)
  BY DEF SameParallel
<1>2. \A w \in Workers : /\ ChunkOn(R, w) <=> ChunkOn(S, w)
                         /\ ChunkOn(S, w) => R[w][2] = S[w][2]
  BY DEF SameParallel
<1>3. \A c : ChunkRuns(R, t, i, c) <=> ChunkRuns(S, t, i, c)
  BY <1>1, <1>2 DEF ChunkRuns
<1>4. ChunksRun(R, t, i, tk) = ChunksRun(S, t, i, tk)
  BY <1>3 DEF ChunksRun
<1> QED
  BY <1>1, <1>2, <1>4 DEF ChunksOK

\* A call that a step does not touch.
LEMMA ParallelStays ==
    ASSUME NEW S, NEW R, NEW act, NEW tk, NEW fin,
           ParallelOK(S, act, tk, fin), SameParallel(S, R)
    PROVE  ParallelOK(R, act, tk, fin)
<1>1. ChunkWorkers(R) = ChunkWorkers(S)
  BY DEF ChunkWorkers, SameParallel
<1>2. ASSUME act # None
      PROVE  CallOK(R, act, tk, fin) /\ ChunksOK(R, act[1], act[2], tk)
  <2>1. CallOK(S, act, tk, fin) /\ ChunksOK(S, act[1], act[2], tk)
    BY <1>2 DEF ParallelOK
  <2>2. act[1] \in PoolThreads /\ act[2] \in Nat /\ PooledAt(S, act[1], act[2])
    BY <2>1 DEF CallOK
  <2>3. /\ PooledAt(R, act[1], act[2])
        /\ R[act[1]][act[2]] = S[act[1]][act[2]]
        /\ Len(R[act[1]]) > act[2] <=> Len(S[act[1]]) > act[2]
    BY <2>2 DEF SameParallel
  <2>4. One(Len(R[act[1]]) > act[2]) = One(Len(S[act[1]]) > act[2])
    BY <2>3 DEF One
  <2>5. ChunksOK(R, act[1], act[2], tk)
    BY <2>1, <2>2, ChunksStay
  <2> QED
    BY <1>1, <2>1, <2>3, <2>4, <2>5 DEF CallOK
<1>3. ASSUME NEW t \in PoolThreads, NEW i \in Nat, PooledAt(R, t, i)
      PROVE  act = <<t, i>>
  BY <1>3 DEF ParallelOK, SameParallel
<1>4. ASSUME NEW w \in Workers, ChunkOn(R, w)
      PROVE  act # None /\ R[w][2].call = act
  BY <1>4 DEF ParallelOK, SameParallel
<1> QED
  BY <1>2, <1>3, <1>4 DEF ParallelOK

\* A step that moves no runner.
LEMMA RunnersStay ==
    ASSUME NEW S, NEW R, NEW Q, NEW fl, RunnersOK(S, Q, fl), SameRuns(S, R),
           fl \subseteq Jobs
    PROVE  RunnersOK(R, Q, fl)
BY DEF RunnersOK, SameRuns

\* A step that adds no owner.
LEMMA OwnersStay ==
    ASSUME NEW S, NEW R, NEW jb, OwnersOK(S, jb), FewerOwners(S, R)
    PROVE  OwnersOK(R, jb)
<1>1. ASSUME NEW j \in Jobs, NEW t \in PoolThreads, NEW i \in Nat, Owns(R, t, i, j)
      PROVE  jb[j] # None
  BY <1>1 DEF OwnersOK, FewerOwners
<1>2. ASSUME NEW j \in Jobs, NEW t \in PoolThreads, NEW u \in PoolThreads,
             NEW i \in Nat, NEW k \in Nat, Owns(R, t, i, j), Owns(R, u, k, j)
      PROVE  t = u /\ i = k
  BY <1>2 DEF OwnersOK, FewerOwners
<1> QED
  BY <1>1, <1>2 DEF OwnersOK

\* Who waits goes on waiting for the same.
LEMMA WaitStays ==
    ASSUME NEW S, NEW R, NEW Q, NEW act, NEW tk, NEW fin, NEW jb, NEW ready, NEW done,
           WaitOK(S, Q, act, tk, fin, jb, ready, done),
           \A u \in ready \cup done : R[u] = S[u],
           act # None => R[act[1]][act[2]].chunks = S[act[1]][act[2]].chunks
    PROVE  WaitOK(R, Q, act, tk, fin, jb, ready, done)
BY DEF WaitOK

\* A step of the code that the pool does not see.
LEMMA CoreSame ==
    ASSUME NEW S, NEW R, NEW act, NEW tk, NEW fin, NEW Q, NEW fl, NEW jb, NEW ready,
           NEW done, Core(S, act, tk, fin, Q, fl, jb, ready, done), fl \subseteq Jobs,
           StacksOK(R), SameParallel(S, R), SameRuns(S, R), FewerOwners(S, R),
           \A u \in ready \cup done : R[u] = S[u]
    PROVE  Core(R, act, tk, fin, Q, fl, jb, ready, done)
<1>1. act # None => R[act[1]][act[2]].chunks = S[act[1]][act[2]].chunks
  <2>1. SUFFICES ASSUME act # None
                 PROVE  R[act[1]][act[2]] = S[act[1]][act[2]]
    OBVIOUS
  <2>2. act[1] \in PoolThreads /\ act[2] \in Nat /\ PooledAt(S, act[1], act[2])
    BY <2>1 DEF Core, ParallelOK, CallOK
  <2> QED
    BY <2>2 DEF SameParallel
<1>2. ParallelOK(R, act, tk, fin)
  BY ParallelStays DEF Core
<1>3. RunnersOK(R, Q, fl)
  BY RunnersStay DEF Core
<1>4. OwnersOK(R, jb)
  BY OwnersStay DEF Core
<1>5. WaitOK(R, Q, act, tk, fin, jb, ready, done)
  BY <1>1, WaitStays DEF Core
<1> QED
  BY <1>2, <1>3, <1>4, <1>5 DEF Core

\* A stack that has frames belongs to a started pool.
LEMMA StartStays ==
    ASSUME NEW S, NEW R, NEW t \in PoolThreads, NEW started, StartOK(S, started),
           Others(S, R, t), S[t] # <<>>
    PROVE  StartOK(R, started)
BY DEF StartOK, Others, PoolThreads

\* The stacks after the one of t was set.
LEMMA SetIs ==
    ASSUME NEW S, NEW t \in PoolThreads, DOMAIN S = PoolThreads, NEW r
    PROVE  Others(S, [S EXCEPT ![t] = r], t) /\ [S EXCEPT ![t] = r][t] = r
BY DEF Others

-----------------------------------------------------------------------------
(* Where a thread is. *)

\* A thread of which the innermost frame is of a kind.
LEMMA AtKindIs ==
    ASSUME NEW t \in PoolThreads, NEW kind, StacksOK(poolStack), AtKind(t, kind)
    PROVE  /\ t \notin onReady \cup onDone
           /\ poolStack[t] \in Seq(Frames) /\ Len(poolStack[t]) \in Nat \ {0}
           /\ poolStack[t] # <<>>
           /\ TopFrame(t) = poolStack[t][Len(poolStack[t])]
           /\ TopFrame(t) \in Frames /\ TopFrame(t).kind = kind
           /\ kind \in {"main", "body", "loop"} <=> Odd(Len(poolStack[t]))
           /\ kind = "body" => Len(poolStack[t]) >= 3
           /\ kind = "loop" => Len(poolStack[t]) = 1 /\ t \in Workers
           /\ kind = "parallel" => Pooled(TopFrame(t))
<1>1. /\ t \notin onReady \cup onDone /\ poolStack[t] # <<>> /\ TopFrame(t).kind = kind
  BY DEF AtKind, Awake
<1> DEFINE n == Len(poolStack[t])
<1>2. /\ ThreadOK(t, poolStack[t]) /\ poolStack[t] \in Seq(Frames) /\ n \in Nat
      /\ \A i \in 1 .. n : poolStack[t][i] \in Frames /\ PlaceOK(t, i, poolStack[t][i])
  BY StackLen
<1>3. n \in Nat \ {0}
  BY <1>1, <1>2
<1>4. TopFrame(t) = poolStack[t][n]
  BY DEF TopFrame
<1>5. poolStack[t][n] \in Frames /\ PlaceOK(t, n, poolStack[t][n]) /\ poolStack[t][n].kind = kind
  BY <1>1, <1>2, <1>3, <1>4
<1> HIDE DEF n
<1>6. kind \in {"main", "body", "loop"} <=> Odd(n)
  BY <1>3, <1>5, OddFacts DEF PlaceOK
<1>7. kind = "body" => n >= 3
  <2>1. n # 1 \/ kind # "body"
    BY <1>5 DEF PlaceOK
  <2>2. n # 2 \/ kind # "body"
    BY <1>6, OddFacts
  <2> QED
    BY <1>3, <2>1, <2>2
<1>8. kind = "loop" => n = 1 /\ t \in Workers
  <2>1. SUFFICES ASSUME kind = "loop"
                 PROVE  n = 1 /\ t \in Workers
    OBVIOUS
  <2>2. Odd(n)
    BY <1>6, <2>1
  <2>3. n = 1
    BY <1>3, <1>5, <2>1, <2>2 DEF PlaceOK
  <2>4. t \notin Callers
    BY <1>5, <2>1, <2>3 DEF PlaceOK
  <2> QED
    BY <2>3, <2>4 DEF PoolThreads
<1>9. kind = "parallel" => Pooled(TopFrame(t))
  <2>1. SUFFICES ASSUME kind = "parallel"
                 PROVE  Pooled(TopFrame(t))
    OBVIOUS
  <2>2. ~Odd(n) /\ n >= 1
    BY <1>3, <1>6, <2>1
  <2> QED
    BY <1>2, <1>4, <1>5, <2>1, <2>2 DEF ThreadOK, n
<1> QED
  BY <1>1, <1>2, <1>3, <1>4, <1>5, <1>6, <1>7, <1>8, <1>9 DEF n

\* Code of the program calls the pool.
LEMMA MayCallIs ==
    ASSUME NEW t \in PoolThreads, StacksOK(poolStack), MayCall(t)
    PROVE  /\ t \notin onReady \cup onDone
           /\ poolStack[t] \in Seq(Frames) /\ Len(poolStack[t]) \in Nat \ {0}
           /\ poolStack[t] # <<>>
           /\ TopFrame(t) = poolStack[t][Len(poolStack[t])]
           /\ TopFrame(t) \in Codes /\ TopFrame(t).kind \in {"main", "body"}
           /\ Odd(Len(poolStack[t])) /\ Len(poolStack[t]) + 2 <= 2 * MaxLevel + 1
           /\ ~(t \in Workers /\ Len(poolStack[t]) = 1)
           /\ Called(t) \in Codes /\ Called(t).kind = TopFrame(t).kind
           /\ Called(t).jobs = TopFrame(t).jobs
<1>1. PICK kind \in {"main", "body"} : AtKind(t, kind)
  BY DEF MayCall
<1>2. /\ t \notin onReady \cup onDone
      /\ poolStack[t] \in Seq(Frames) /\ Len(poolStack[t]) \in Nat \ {0}
      /\ poolStack[t] # <<>>
      /\ TopFrame(t) = poolStack[t][Len(poolStack[t])]
      /\ TopFrame(t) \in Frames /\ TopFrame(t).kind = kind
      /\ Odd(Len(poolStack[t]))
  BY <1>1, AtKindIs
<1>3. TopFrame(t) \in Codes
  BY <1>2, FrameKinds
<1>4. Len(poolStack[t]) + 2 <= 2 * MaxLevel + 1
  <2>1. MaxLevel \in Nat
    BY PoolAssumption
  <2>2. Len(poolStack[t]) \div 2 < MaxLevel
    BY DEF MayCall, Level
  <2> QED
    BY <1>2, <2>1, <2>2, OddFacts
<1>5. TopFrame(t).calls \in Nat /\ TopFrame(t).calls > 0
  BY <1>3 DEF MayCall, Codes
<1> DEFINE c == IF TopFrame(t).kind = "main" THEN TopFrame(t).calls ELSE TopFrame(t).calls - 1
<1>6. c \in Nat
  BY <1>5
<1>7. Called(t) = [TopFrame(t) EXCEPT !.calls = c]
  BY <1>3 DEF Called, Codes
<1> HIDE DEF c
<1>8. Called(t) \in Codes /\ Called(t).kind = TopFrame(t).kind /\ Called(t).jobs = TopFrame(t).jobs
  BY <1>3, <1>6, <1>7, CallsIs
<1>9. ~(t \in Workers /\ Len(poolStack[t]) = 1)
  <2>1. PlaceOK(t, Len(poolStack[t]), TopFrame(t))
    BY <1>2, StackLen
  <2> QED
    BY <1>2, <2>1, PoolAssumption DEF PlaceOK
<1> QED
  BY <1>2, <1>3, <1>4, <1>8, <1>9

\* A body ended.
LEMMA EndedIs ==
    ASSUME NEW t \in PoolThreads, NEW kind, StacksOK(poolStack), Ended(t, kind)
    PROVE  /\ t \notin onReady \cup onDone
           /\ poolStack[t] \in Seq(Frames) /\ Len(poolStack[t]) \in Nat
           /\ poolStack[t] # <<>>
           /\ Len(poolStack[t]) >= 3 /\ Odd(Len(poolStack[t]))
           /\ poolStack[t][Len(poolStack[t]) - 1] \in Frames
           /\ poolStack[t][Len(poolStack[t]) - 1].kind = kind
           /\ PlaceOK(t, Len(poolStack[t]) - 1, poolStack[t][Len(poolStack[t]) - 1])
<1>1. AtKind(t, "body") /\ poolStack[t][Len(poolStack[t]) - 1].kind = kind
  BY DEF Ended
<1>2. /\ t \notin onReady \cup onDone
      /\ poolStack[t] \in Seq(Frames) /\ Len(poolStack[t]) \in Nat
      /\ poolStack[t] # <<>>
      /\ Len(poolStack[t]) >= 3 /\ Odd(Len(poolStack[t]))
  BY <1>1, AtKindIs
<1>3. Len(poolStack[t]) - 1 \in 1 .. Len(poolStack[t])
  BY <1>2
<1> QED
  BY <1>1, <1>2, <1>3, StackLen

-----------------------------------------------------------------------------
(* Pieces of the actions. *)

\* The code that calls has other jobs or calls from then on.
LEMMA CodeSet ==
    ASSUME NEW t \in PoolThreads, StacksOK(poolStack), MayCall(t),
           NEW g \in Codes, g.kind = TopFrame(t).kind,
           NEW R, Others(poolStack, R, t), R[t] = SetTop(poolStack[t], g)
    PROVE  /\ R[t] \in Seq(Frames) /\ Len(R[t]) = Len(poolStack[t])
           /\ R[t][Len(poolStack[t])] = g
           /\ StacksOK(R) /\ SameParallel(poolStack, R) /\ SameRuns(poolStack, R)
           /\ \A u \in PoolThreads : \A i \in Nat : \A j \in Jobs :
                Owns(R, u, i, j) <=> IF u = t /\ i = Len(poolStack[t]) THEN j \in g.jobs
                                     ELSE Owns(poolStack, u, i, j)
<1> DEFINE n == Len(poolStack[t])
<1>1. /\ poolStack[t] \in Seq(Frames) /\ n \in Nat /\ n >= 1
      /\ poolStack[t][n].kind = TopFrame(t).kind /\ TopFrame(t).kind \in {"main", "body"}
  BY MayCallIs
<1>3. g \in Frames
  BY DEF Frames
<1>4. /\ R[t] \in Seq(Frames) /\ Len(R[t]) = n /\ R[t][n] = g
      /\ \A i \in 1 .. n - 1 : R[t][i] = poolStack[t][i]
  BY <1>1, <1>3 DEF SetTop
<1>5. Prefix(poolStack, R, t, n - 1)
  BY <1>4 DEF Prefix
<1>6. poolStack[t][n].kind \in {"main", "body"} /\ R[t][n].kind = poolStack[t][n].kind
  BY <1>1, <1>4
<1> HIDE DEF n
<1>7. Len(poolStack[t]) = n
  BY DEF n
<1>8. ReplaceView(poolStack, R, t, n)
  BY <1>1, <1>4, <1>5, <1>6, <1>7, Replaces
<1> QED
  BY <1>4, <1>7, <1>8 DEF ReplaceView

\* A call changes nobody's jobs by itself.
LEMMA CalledSet ==
    ASSUME NEW t \in PoolThreads, StacksOK(poolStack), MayCall(t),
           NEW R, Others(poolStack, R, t), R[t] = SetTop(poolStack[t], Called(t))
    PROVE  FewerOwners(poolStack, R)
<1>1. Called(t) \in Codes /\ Called(t).kind = TopFrame(t).kind /\ Called(t).jobs = TopFrame(t).jobs
      /\ TopFrame(t) = poolStack[t][Len(poolStack[t])] /\ Len(poolStack[t]) \in Nat \ {0}
      /\ TopFrame(t).kind \in {"main", "body"}
  BY MayCallIs
<1>2. \A u \in PoolThreads : \A i \in Nat : \A j \in Jobs :
        Owns(R, u, i, j) <=> IF u = t /\ i = Len(poolStack[t]) THEN j \in Called(t).jobs
                             ELSE Owns(poolStack, u, i, j)
  BY <1>1, CodeSet
<1>3. ASSUME NEW j \in Jobs, j \in Called(t).jobs
      PROVE  Owns(poolStack, t, Len(poolStack[t]), j)
  BY <1>1, <1>3 DEF Owns
<1> QED
  BY <1>2, <1>3 DEF FewerOwners

\* The jobs in flight are jobs.
LEMMA InFlightJobs ==
    ASSUME NEW fl, NEW jb, RecordsOK(fl, jb)
    PROVE  fl \subseteq Jobs
BY DEF RecordsOK

\* The state after the frame of the calling code was set.
LEMMA CoreCalled ==
    ASSUME NEW t \in PoolThreads, PoolInv, MayCall(t),
           NEW R, Others(poolStack, R, t), R[t] = SetTop(poolStack[t], Called(t))
    PROVE  /\ Core(R, active, taken, finished, queue, inFlight, job, onReady, onDone)
           /\ R[t] \in Seq(Frames) /\ Len(R[t]) = Len(poolStack[t])
           /\ R[t][Len(poolStack[t])] = Called(t)
<1>1. /\ StacksOK(poolStack) /\ inFlight \subseteq Jobs
      /\ Core(poolStack, active, taken, finished, queue, inFlight, job, onReady, onDone)
  BY InFlightJobs DEF PoolInv, Core
<1>2. Called(t) \in Codes /\ Called(t).kind = TopFrame(t).kind /\ t \notin onReady \cup onDone
  BY <1>1, MayCallIs
<1>3. /\ R[t] \in Seq(Frames) /\ Len(R[t]) = Len(poolStack[t])
      /\ R[t][Len(poolStack[t])] = Called(t)
      /\ StacksOK(R) /\ SameParallel(poolStack, R) /\ SameRuns(poolStack, R)
  BY <1>1, <1>2, CodeSet
<1>4. FewerOwners(poolStack, R)
  BY <1>1, CalledSet
<1>5. \A u \in onReady \cup onDone : R[u] = poolStack[u]
  <2>1. onReady \cup onDone \subseteq PoolThreads
    BY <1>1 DEF Core, WaitOK, PoolThreads
  <2> QED
    BY <1>2, <1>3, <2>1 DEF Others
<1>6. Core(R, active, taken, finished, queue, inFlight, job, onReady, onDone)
  BY <1>1, <1>3, <1>4, <1>5, CoreSame
<1> QED
  BY <1>3, <1>6

\* start_locked.
LEMMA StartFresh ==
    ASSUME NEW t \in PoolThreads, NEW F, NEW fresh, StartOK(poolStack, poolStarted),
           Others(poolStack, F, t), poolStack[t] # <<>>, Start(fresh, F)
    PROVE  Fresh(F, poolStack') /\ StartOK(poolStack', poolStarted')
<1>1. /\ poolStarted' = TRUE /\ DOMAIN poolStack' = PoolThreads
      /\ \A u \in PoolThreads :
           poolStack'[u] = IF u \in fresh THEN <<[kind |-> "loop"]>> ELSE F[u]
  BY DEF Start
<1>2. \A u \in fresh : u \in Workers /\ poolStack[u] = <<>>
  BY DEF Start, StartOK
<1>3. \A u \in PoolThreads : u # t => F[u] = poolStack[u]
  BY DEF Others
<1>4. Fresh(F, poolStack')
  BY <1>1, <1>2, <1>3 DEF Fresh
<1> QED
  BY <1>1, <1>4 DEF StartOK

\* Workers started by a call leave the rest as it was.
LEMMA CoreStarts ==
    ASSUME NEW S, NEW R, NEW act, NEW tk, NEW fin, NEW Q, NEW fl, NEW jb, NEW done,
           Core(S, act, tk, fin, Q, fl, jb, {}, done), fl \subseteq Jobs, Fresh(S, R)
    PROVE  Core(R, act, tk, fin, Q, fl, jb, {}, done)
<1>1. StacksOK(S)
  BY DEF Core
<1>2. StacksOK(R) /\ SameParallel(S, R) /\ SameRuns(S, R) /\ FewerOwners(S, R)
  BY <1>1, Starts
<1>3. ASSUME NEW u \in {} \cup done
      PROVE  R[u] = S[u]
  <2>1. u \in PoolThreads /\ Len(S[u]) > 0
    BY DEF Core, WaitOK
  <2>2. S[u] # <<>>
    BY <2>1
  <2> QED
    BY <2>1, <2>2 DEF Fresh
<1> QED
  BY <1>2, <1>3, CoreSame

-----------------------------------------------------------------------------
(* The actions. *)

\* What the chunks of a call can be.
LEMMA ChunksAre ==
    ASSUME NEW asked \in 0 .. MaxAsked, NEW count \in 1 .. MaxCount,
           ChunksOf(asked, count) > 0
    PROVE  ChunksOf(asked, count) \in 1 .. count
<1>1. Cardinality(Workers) \in Nat /\ MaxAsked \in Nat /\ MaxCount \in Nat
  BY PoolAssumption, FS_CardinalityType
<1> QED
  BY <1>1 DEF ChunksOf

\* The parts of the invariant that every action uses.
LEMMA PoolInvFacts ==
    ASSUME PoolInv
    PROVE  /\ StacksOK(poolStack) /\ inFlight \subseteq Jobs
           /\ DOMAIN poolStack = PoolThreads
           /\ onReady \subseteq Workers /\ onDone \subseteq PoolThreads
           /\ Core(poolStack, active, taken, finished, queue, inFlight, job, onReady, onDone)
BY InFlightJobs DEF PoolInv, Core, StacksOK, WaitOK

CallView(S, R, t, n, frame) ==
    /\ Core(S, active, taken, finished, queue, inFlight, job, onReady, onDone)
    /\ EnterView(S, R, t, n) /\ Others(S, R, t)
    /\ Len(R[t]) = n + 2 /\ R[t][n + 1] = frame

\* A call of `parallel` with its frame and its first body.
LEMMA CallEnters ==
    ASSUME PoolInv, NEW t \in PoolThreads, MayCall(t), NEW frame \in Frames,
           frame.kind = "parallel", NEW S, NEW R, NEW n \in Nat, Len(poolStack[t]) = n,
           Others(poolStack, S, t), S[t] = SetTop(poolStack[t], Called(t)),
           Others(poolStack, R, t), R[t] = TwoOn(S[t], frame)
    PROVE  CallView(S, R, t, n, frame)
<1>1. StacksOK(poolStack)
  BY PoolInvFacts
<1>2. /\ n >= 1 /\ Odd(n) /\ n + 2 <= 2 * MaxLevel + 1 /\ ~(t \in Workers /\ n = 1)
  <2>1. /\ Len(poolStack[t]) \in Nat \ {0} /\ Odd(Len(poolStack[t]))
        /\ Len(poolStack[t]) + 2 <= 2 * MaxLevel + 1
        /\ ~(t \in Workers /\ Len(poolStack[t]) = 1)
    BY <1>1, MayCallIs
  <2> QED
    BY <2>1
<1>3. /\ Core(S, active, taken, finished, queue, inFlight, job, onReady, onDone)
      /\ S[t] \in Seq(Frames) /\ Len(S[t]) = n
  BY CoreCalled
<1>4. Two(S, R, t, n, frame)
  BY <1>3, PushTwo
<1>5. /\ R[t] \in Seq(Frames) /\ Len(R[t]) = n + 2
      /\ R[t][n + 1] = frame /\ R[t][n + 2] = NewBody /\ Prefix(S, R, t, n)
  BY <1>4 DEF Two
<1>6. PlaceOK(t, n + 1, R[t][n + 1])
  <2>1. ~Odd(n + 1)
    BY <1>2, OddFacts
  <2>2. n + 1 # 1 /\ (n + 1 = 2 => n = 1)
    BY <1>2
  <2> QED
    BY <1>2, <1>5, <2>1, <2>2 DEF PlaceOK
<1>7. StacksOK(S) /\ Others(S, R, t) /\ R[t][n + 1].kind # "join"
  BY <1>3, <1>5 DEF Core, Others
<1>8. EnterView(S, R, t, n)
  BY <1>2, <1>3, <1>5, <1>6, <1>7, Enters
<1> QED
  BY <1>3, <1>5, <1>7, <1>8 DEF CallView

\* A call that does not use the pool keeps the invariant.
LEMMA ParallelInlineKeeps ==
    ASSUME PoolInv, NEW t \in PoolThreads, NEW asked \in 0 .. MaxAsked,
           NEW count \in 1 .. MaxCount, ParallelInline(t, asked, count)
    PROVE  PoolInv'
<1> DEFINE n == Len(poolStack[t])
           frame == ParallelFrame(count, ChunksOf(asked, count), TRUE)
           S == [poolStack EXCEPT ![t] = SetTop(poolStack[t], Called(t))]
<1>1. /\ MayCall(t) /\ ChunksOf(asked, count) > 0
      /\ poolStack' = [poolStack EXCEPT ![t] = TwoOn(SetTop(poolStack[t], Called(t)), frame)]
      /\ UNCHANGED <<poolStarted, active, taken, finished, queue, last, inFlight, job,
                     onReady, onDone>>
  BY DEF ParallelInline, parallel, dispatched, TwoOn
<1>2. /\ StacksOK(poolStack) /\ inFlight \subseteq Jobs /\ DOMAIN poolStack = PoolThreads
      /\ onReady \subseteq Workers /\ onDone \subseteq PoolThreads
  BY PoolInvFacts
<1>3. /\ n \in Nat /\ Len(poolStack[t]) = n
      /\ t \notin onReady \cup onDone /\ poolStack[t] # <<>>
  BY <1>1, <1>2, MayCallIs
<1>4. frame \in Frames /\ frame.kind = "parallel" /\ frame.inline
  BY <1>1, ChunksAre, ParallelFrameIs, ParallelIs
<1> HIDE DEF frame, n
<1>5. Others(poolStack, S, t) /\ S[t] = SetTop(poolStack[t], Called(t))
  BY <1>2, SetIs
<1>6. Others(poolStack, poolStack', t) /\ poolStack'[t] = TwoOn(S[t], frame)
  BY <1>1, <1>2, <1>5, SetIs
<1> HIDE DEF S
<1>7. /\ Core(S, active, taken, finished, queue, inFlight, job, onReady, onDone)
      /\ EnterView(S, poolStack', t, n) /\ Others(S, poolStack', t)
      /\ poolStack'[t][n + 1] = frame
  <2>1. CallView(S, poolStack', t, n, frame)
    BY <1>1, <1>3, <1>4, <1>5, <1>6, CallEnters
  <2> QED
    BY <2>1 DEF CallView
<1>8. ~Pooled(poolStack'[t][n + 1]) /\ poolStack'[t][n + 1].kind = "parallel"
  BY <1>4, <1>7 DEF Pooled
<1>9. n = 1 => poolStack'[t][2].kind = "parallel"
  BY <1>4, <1>7
<1>10. SameParallel(S, poolStack')
  BY <1>7, <1>8, <1>9 DEF SameParallel, EnterView
<1>11. SameRuns(S, poolStack')
  BY <1>7, <1>8 DEF SameRuns, EnterView
<1>12. \A u \in onReady \cup onDone : poolStack'[u] = S[u]
  BY <1>2, <1>3, <1>7 DEF Others, PoolThreads
<1>13. Core(poolStack', active, taken, finished, queue, inFlight, job, onReady, onDone)
  <2>1. StacksOK(poolStack') /\ FewerOwners(S, poolStack')
    BY <1>7 DEF EnterView
  <2> QED
    BY <1>2, <1>7, <1>10, <1>11, <1>12, <2>1, CoreSame
<1>14. StartOK(poolStack', poolStarted)
  BY <1>3, <1>6, StartStays DEF PoolInv
<1> QED
  BY <1>1, <1>13, <1>14 DEF PoolInv

\* Below a body that ended stands the call.
LEMMA BelowIs ==
    ASSUME NEW t \in PoolThreads, NEW kind, StacksOK(poolStack), Ended(t, kind)
    PROVE  Pop(poolStack[t])[Len(Pop(poolStack[t]))] = poolStack[t][Len(poolStack[t]) - 1]
<1> DEFINE n == Len(poolStack[t])
           r == Pop(poolStack[t])
<1>1. poolStack[t] \in Seq(Frames) /\ n \in Nat /\ n >= 3
  BY EndedIs
<1>2. r = Pop(poolStack[t]) /\ Len(poolStack[t]) = n /\ n >= 1
  BY <1>1
<1> HIDE DEF n, r
<1>3. /\ Len(r) = n - 1
      /\ \A i \in 1 .. n - 1 : r[i] = poolStack[t][i]
  BY <1>1, <1>2, PopIs
<1>4. r[Len(r)] = poolStack[t][n - 1]
  BY <1>1, <1>3
<1> QED
  BY <1>4 DEF n, r

\* A thread that is awake changes its stack, and who waits does not.
LEMMA AwakeSet ==
    ASSUME PoolInv, NEW t \in PoolThreads, t \notin onReady \cup onDone, NEW R,
           Others(poolStack, R, t)
    PROVE  \A u \in onReady \cup onDone : R[u] = poolStack[u]
BY PoolInvFacts DEF Others, PoolThreads

\* The next chunk of an inline call keeps the invariant.
LEMMA InlineNextKeeps ==
    ASSUME PoolInv, NEW t \in PoolThreads, InlineNext(t)
    PROVE  PoolInv'
<1> DEFINE n == Len(poolStack[t])
           call == poolStack[t][n - 1]
           frame == Ran(call, call.index)
           next == [frame EXCEPT !.index = @ + 1]
<1>1. /\ StacksOK(poolStack) /\ inFlight \subseteq Jobs /\ DOMAIN poolStack = PoolThreads
      /\ Core(poolStack, active, taken, finished, queue, inFlight, job, onReady, onDone)
  BY PoolInvFacts
<1>2. Ended(t, "parallel")
  BY DEF InlineNext
<1>3. /\ n \in Nat /\ n >= 3 /\ Odd(n) /\ poolStack[t] \in Seq(Frames)
      /\ call \in Frames /\ call.kind = "parallel"
      /\ t \notin onReady \cup onDone /\ poolStack[t] # <<>>
  BY <1>1, <1>2, EndedIs
<1>4. /\ frame.inline
      /\ poolStack' = [poolStack EXCEPT ![t] =
             IF frame.index + 1 < frame.chunks
             THEN TurnOn(poolStack[t], next)
             ELSE Pop(Pop(poolStack[t]))]
      /\ UNCHANGED <<poolStarted, active, taken, finished, queue, last, inFlight, job,
                     onReady, onDone>>
  <2>1. Pop(poolStack[t])[Len(Pop(poolStack[t]))] = call
    BY <1>1, <1>2, BelowIs
  <2> QED
    BY <2>1 DEF InlineNext, parallel, dispatched, TurnOn
<1>5. call \in ParallelFrames
  BY <1>3, FrameKinds
<1> HIDE DEF call
<1>6. /\ frame.kind = "parallel" /\ frame.inline = call.inline
      /\ frame.index = call.index /\ frame.chunks = call.chunks
      /\ frame \in ParallelRecords(call.count)
  BY <1>5, RanIs
<1>7. Others(poolStack, poolStack', t)
  BY <1>1, <1>4, SetIs
<1>8. StartOK(poolStack', poolStarted)
  BY <1>3, <1>7, StartStays DEF PoolInv
<1>9. \A u \in onReady \cup onDone : poolStack'[u] = poolStack[u]
  BY <1>3, <1>7, AwakeSet
<1>10. call = poolStack[t][n - 1] /\ Len(poolStack[t]) = n
  BY DEF call
<1> HIDE DEF frame, n
<1>11. CASE frame.index + 1 < frame.chunks
  <2>1. poolStack'[t] = TurnOn(poolStack[t], next)
    BY <1>1, <1>4, <1>11, SetIs
  <2>3. next \in ParallelFrames /\ next.kind = "parallel" /\ next.inline
    <3>1. next = [frame EXCEPT !.index = frame.index + 1]
      BY <1>6 DEF ParallelRecords
    <3>2. next = [Ran(call, call.index) EXCEPT !.index = call.index + 1]
      BY <1>6, <3>1 DEF frame
    <3>3. call.inline /\ call.index + 1 < call.chunks
      BY <1>4, <1>6, <1>11
    <3> HIDE DEF next
    <3> QED
      BY <1>5, <3>2, <3>3, InlineTurn
  <2> HIDE DEF next
  <2>4. next \in Frames
    BY <2>3 DEF Frames
  <2>5. Turned(poolStack, poolStack', t, n, next)
    <3>1. n >= 2
      BY <1>3
    <3> QED
      BY <1>3, <1>10, <2>1, <2>4, <3>1, SwapAndPush
  <2>6. /\ poolStack'[t] \in Seq(Frames) /\ Len(poolStack'[t]) = n
        /\ Prefix(poolStack, poolStack', t, n - 2)
        /\ poolStack'[t][n - 1] = next /\ poolStack'[t][n] = NewBody
    BY <2>5 DEF Turned
  <2>7. /\ poolStack[t][n - 1].kind = "parallel" /\ poolStack[t][n - 1].inline
        /\ poolStack'[t][n - 1].kind = "parallel" /\ poolStack'[t][n - 1].inline
    BY <1>3, <1>4, <1>6, <1>10, <2>3, <2>6
  <2>8. /\ StacksOK(poolStack') /\ SameParallel(poolStack, poolStack')
        /\ SameRuns(poolStack, poolStack') /\ FewerOwners(poolStack, poolStack')
    BY <1>1, <1>3, <1>7, <1>10, <2>6, <2>7, Turns
  <2>9. Core(poolStack', active, taken, finished, queue, inFlight, job, onReady, onDone)
    BY <1>1, <1>9, <2>8, CoreSame
  <2> QED
    BY <1>4, <1>8, <2>9 DEF PoolInv
<1>12. CASE ~(frame.index + 1 < frame.chunks)
  <2>1. poolStack'[t] = Pop(Pop(poolStack[t]))
    BY <1>1, <1>4, <1>12, SetIs
  <2>2. Less(poolStack, poolStack', t, n, 2)
    <3>1. n >= 2
      BY <1>3
    <3> QED
      BY <1>3, <1>10, <2>1, <3>1, PopTwo
  <2>3. /\ poolStack'[t] \in Seq(Frames) /\ Len(poolStack'[t]) = n - 2
        /\ Prefix(poolStack, poolStack', t, n - 2)
    BY <2>2 DEF Less
  <2>4. LeaveView(poolStack, poolStack', t, n)
    BY <1>1, <1>3, <1>7, <1>10, <2>3, Leaves
  <2>5. /\ poolStack[t][n - 1].kind = "parallel" /\ ~Pooled(poolStack[t][n - 1])
    BY <1>3, <1>4, <1>6, <1>10 DEF Pooled
  <2>6. \A j \in Jobs : ~Runs(poolStack, t, n - 1, j)
    BY <2>5 DEF Runs
  <2>7. ~PooledAt(poolStack, t, n - 1)
    BY <2>5 DEF PooledAt
  <2>8. SameRuns(poolStack, poolStack')
    BY <2>4, <2>6 DEF LeaveView, SameRuns
  <2>9. t \in Workers => n # 3
    <3>1. PlaceOK(t, n - 1, poolStack[t][n - 1])
      BY <1>1, <1>2, <1>10, EndedIs
    <3> QED
      BY <2>5, <3>1, OddFacts DEF PlaceOK
  <2>10. SameParallel(poolStack, poolStack')
    BY <2>4, <2>7, <2>9 DEF LeaveView, SameParallel
  <2>11. StacksOK(poolStack') /\ FewerOwners(poolStack, poolStack')
    BY <2>4 DEF LeaveView
  <2>12. Core(poolStack', active, taken, finished, queue, inFlight, job, onReady, onDone)
    BY <1>1, <1>9, <2>8, <2>10, <2>11, CoreSame
  <2> QED
    BY <1>4, <1>8, <2>12 DEF PoolInv
<1> QED
  BY <1>11, <1>12

\* A dispatch to no object keeps the invariant.
LEMMA DispatchNullKeeps ==
    ASSUME PoolInv, NEW t \in PoolThreads, NEW object \in Objects, DispatchNull(t, object)
    PROVE  PoolInv'
<1>1. /\ MayCall(t)
      /\ poolStack' = [poolStack EXCEPT ![t] = SetTop(poolStack[t], Called(t))]
      /\ UNCHANGED <<poolStarted, active, taken, finished, queue, last, inFlight, job,
                     onReady, onDone>>
  BY DEF DispatchNull, parallel, dispatched
<1>2. StacksOK(poolStack) /\ DOMAIN poolStack = PoolThreads
  BY PoolInvFacts
<1>3. Others(poolStack, poolStack', t) /\ poolStack'[t] = SetTop(poolStack[t], Called(t))
  BY <1>1, <1>2, SetIs
<1>4. Core(poolStack', active, taken, finished, queue, inFlight, job, onReady, onDone)
  BY <1>1, <1>3, CoreCalled
<1>5. poolStack[t] # <<>>
  BY <1>1, <1>2, MayCallIs
<1>6. StartOK(poolStack', poolStarted)
  BY <1>3, <1>5, StartStays DEF PoolInv
<1> QED
  BY <1>1, <1>4, <1>6 DEF PoolInv

\* A worker that waits keeps the invariant.
LEMMA WorkerWaitsKeeps ==
    ASSUME PoolInv, NEW w \in PoolThreads, WorkerWaits(w)
    PROVE  PoolInv'
<1>1. /\ AtKind(w, "loop") /\ queue = <<>> /\ ~ChunkLeft
      /\ onReady' = onReady \cup {w}
      /\ UNCHANGED <<poolStarted, active, taken, finished, queue, last, inFlight, job,
                     poolStack, onDone>>
  BY DEF WorkerWaits, parallel, dispatched
<1>2. Core(poolStack, active, taken, finished, queue, inFlight, job, onReady, onDone)
      /\ StacksOK(poolStack)
  BY PoolInvFacts
<1>3. w \in Workers /\ Len(poolStack[w]) = 1
  BY <1>1, <1>2, AtKindIs
<1>4. active = None \/ taken = poolStack[active[1]][active[2]].chunks
  BY <1>1 DEF ChunkLeft, CallFrame
<1>5. WaitOK(poolStack, queue, active, taken, finished, job, onReady', onDone)
  BY <1>1, <1>2, <1>3, <1>4 DEF Core, WaitOK
<1>6. Core(poolStack, active, taken, finished, queue, inFlight, job, onReady', onDone)
  BY <1>2, <1>5 DEF Core
<1> QED
  BY <1>1, <1>6 DEF PoolInv

\* A wake-up for nothing keeps the invariant.
LEMMA PoolSpuriousKeeps ==
    ASSUME PoolInv, NEW t \in PoolThreads, PoolSpurious(t)
    PROVE  PoolInv'
<1>1. /\ onReady' = onReady \ {t} /\ onDone' = onDone \ {t}
      /\ UNCHANGED <<poolStarted, active, taken, finished, queue, last, inFlight, job,
                     poolStack>>
  BY DEF PoolSpurious, parallel, dispatched
<1>2. Core(poolStack, active, taken, finished, queue, inFlight, job, onReady, onDone)
  BY PoolInvFacts
<1>3. WaitOK(poolStack, queue, active, taken, finished, job, onReady', onDone')
  BY <1>1, <1>2 DEF Core, WaitOK
<1>4. Core(poolStack, active, taken, finished, queue, inFlight, job, onReady', onDone')
  BY <1>2, <1>3 DEF Core
<1> QED
  BY <1>1, <1>4 DEF PoolInv

-----------------------------------------------------------------------------
(* The end of a call that uses the pool. *)

\* Core of equal stacks.
LEMMA CoreEqual ==
    ASSUME NEW S, NEW R, NEW act, NEW tk, NEW fin, NEW Q, NEW fl, NEW jb, NEW ready,
           NEW done, Core(S, act, tk, fin, Q, fl, jb, ready, done), fl \subseteq Jobs,
           DOMAIN R = PoolThreads, \A u \in PoolThreads : R[u] = S[u]
    PROVE  Core(R, act, tk, fin, Q, fl, jb, ready, done)
<1>1. StacksOK(R)
  BY DEF Core, StacksOK
<1>2. \A w \in Workers : w \in PoolThreads
  BY DEF PoolThreads
<1>3. SameParallel(S, R)
  BY <1>2 DEF SameParallel, PooledAt, ChunkOn
<1>4. SameRuns(S, R)
  BY DEF SameRuns, Runs
<1>5. FewerOwners(S, R)
  BY DEF FewerOwners, Owns
<1>6. \A u \in ready \cup done : R[u] = S[u]
  BY <1>2 DEF Core, WaitOK
<1> QED
  BY <1>1, <1>3, <1>4, <1>5, <1>6, CoreSame

\* The call that uses the pool, by its place.
LEMMA ActiveIs ==
    ASSUME NEW S, NEW act, NEW tk, NEW fin, ParallelOK(S, act, tk, fin),
           NEW t \in PoolThreads, NEW n \in Nat, PooledAt(S, t, n)
    PROVE  /\ act = <<t, n>> /\ act # None /\ act[1] = t /\ act[2] = n
           /\ CallOK(S, act, tk, fin)
<1>1. act = <<t, n>>
  BY DEF ParallelOK
<1>2. act # None
  BY <1>1, PoolAssumption
<1> QED
  BY <1>1, <1>2 DEF ParallelOK

\* The workers at a chunk can be counted.
LEMMA ChunkWorkersFinite ==
    ASSUME NEW S
    PROVE  IsFiniteSet(ChunkWorkers(S)) /\ Cardinality(ChunkWorkers(S)) \in Nat
<1>1. IsFiniteSet(Workers) /\ ChunkWorkers(S) \subseteq Workers
  BY PoolAssumption DEF ChunkWorkers
<1> QED
  BY <1>1, FS_Subset, FS_CardinalityType

\* The caller at the end of its own chunks returns or waits.
LEMMA SettleKeeps ==
    ASSUME NEW t \in PoolThreads, NEW S, NEW fin, StacksOK(poolStack), Others(poolStack, S, t),
           Core(S, active, taken, fin, queue, inFlight, job, onReady, onDone),
           inFlight \subseteq Jobs,
           t \notin onReady \cup onDone, PooledAt(S, t, Len(S[t])), Settle(t, S[t], fin)
    PROVE  /\ Core(poolStack', active', taken, fin, queue, inFlight, job, onReady, onDone')
           /\ Others(poolStack, poolStack', t)
<1> DEFINE n == Len(S[t])
           r == IF fin < S[t][n].chunks THEN S[t] ELSE Pop(S[t])
<1>1. StacksOK(S) /\ DOMAIN poolStack = PoolThreads /\ ParallelOK(S, active, taken, fin)
  BY DEF Core, StacksOK
<1>2. n \in Nat /\ n >= 1 /\ S[t] \in Seq(Frames) /\ ThreadOK(t, S[t]) /\ PlaceOK(t, n, S[t][n])
  BY <1>1, StackLen DEF PooledAt
<1>3. Pooled(S[t][n]) /\ S[t][n].kind = "parallel"
  BY DEF PooledAt, Pooled
<1>4. ~Odd(n)
  <2> HIDE DEF n
  <2>1. n # 1
    BY <1>2, <1>3 DEF PlaceOK
  <2>2. n > 1
    BY <1>2, <2>1
  <2> QED
    BY <1>2, <1>3, <2>2 DEF PlaceOK
<1>5. poolStack' = [poolStack EXCEPT ![t] = r]
  BY DEF Settle
<1>6. Others(poolStack, poolStack', t) /\ poolStack'[t] = r
  BY <1>1, <1>5, SetIs
<1>7. Others(S, poolStack', t)
  BY <1>6 DEF Others
<1>8. onReady \cup onDone \subseteq PoolThreads
  BY DEF Core, WaitOK, PoolThreads
<1>9. \A u \in onReady \cup onDone : poolStack'[u] = S[u]
  BY <1>7, <1>8 DEF Others
<1>10. S[t][n] \in Frames
  BY <1>1, <1>2, StackLen
<1>11. S[t][n].chunks \in Nat
  <2>1. S[t][n] \in ParallelFrames
    BY <1>3, <1>10, FrameKinds
  <2>2. S[t][n].count \in 1 .. MaxCount /\ S[t][n].chunks \in 1 .. S[t][n].count
    BY <2>1, ParallelIs
  <2> QED
    BY <2>2, PoolAssumption
<1>12. /\ active = <<t, n>> /\ active # None /\ active[1] = t /\ active[2] = n
       /\ CallOK(S, active, taken, fin)
  BY <1>1, <1>2, ActiveIs
<1>13. Len(S[t]) = n
  OBVIOUS
<1>14. CASE fin < S[t][n].chunks
  <2>1. onDone' = onDone \cup {t} /\ active' = active
    BY <1>14 DEF Settle
  <2>2. \A u \in PoolThreads : poolStack'[u] = S[u]
    BY <1>6, <1>7, <1>14 DEF Others
  <2>3. Core(poolStack', active, taken, fin, queue, inFlight, job, onReady, onDone)
    BY <1>7, <2>2, CoreEqual DEF Others
  <2>4. /\ Len(poolStack'[t]) > 0
        /\ poolStack'[t][Len(poolStack'[t])].kind = "parallel"
        /\ fin < poolStack'[t][Len(poolStack'[t])].chunks
    BY <1>2, <1>3, <1>14, <2>2
  <2>5. WaitOK(poolStack', queue, active, taken, fin, job, onReady, onDone')
    BY <2>1, <2>3, <2>4 DEF Core, WaitOK
  <2>6. Core(poolStack', active', taken, fin, queue, inFlight, job, onReady, onDone')
    BY <2>1, <2>3, <2>5 DEF Core
  <2> QED
    BY <1>6, <2>6
<1>15. CASE ~(fin < S[t][n].chunks)
  <2>1. onDone' = onDone /\ active' = None /\ poolStack'[t] = Pop(S[t])
    BY <1>6, <1>15 DEF Settle
  <2> HIDE DEF n
  <2>2. Less(S, poolStack', t, n, 1)
    BY <1>2, <1>13, <2>1, PopOne
  <2>3. /\ poolStack'[t] \in Seq(Frames) /\ Len(poolStack'[t]) = n - 1
        /\ Prefix(S, poolStack', t, n - 1)
    BY <2>2 DEF Less
  <2>4. ReturnView(S, poolStack', t, n)
    BY <1>1, <1>2, <1>4, <1>7, <1>13, <2>3, Returns
  <2>5. ChunkWorkers(S) = {}
    <3>1. Cardinality(ChunkWorkers(S)) \in Nat /\ IsFiniteSet(ChunkWorkers(S))
      BY ChunkWorkersFinite
    <3>2. /\ fin + Cardinality(ChunkWorkers(S)) + One(Len(S[t]) > n) = taken
          /\ taken <= S[t][n].chunks
      BY <1>12 DEF CallOK
    <3>3. One(Len(S[t]) > n) = 0
      BY <1>2, <1>13 DEF One
    <3>4. fin \in Nat /\ taken \in Nat
      BY <1>1, PoolAssumption DEF ParallelOK
    <3> DEFINE c == Cardinality(ChunkWorkers(S))
               m == S[t][n].chunks
    <3>5. c \in Nat /\ m \in Nat /\ fin + c + 0 = taken /\ taken <= m /\ ~(fin < m)
      BY <1>11, <1>15, <3>1, <3>2, <3>3
    <3> HIDE DEF c, m
    <3>6. c = 0
      BY <3>4, <3>5
    <3> QED
      BY <3>1, <3>6, FS_EmptySet DEF c
  <2>6. ParallelOK(poolStack', None, taken, fin)
    <3>1. ASSUME NEW u \in PoolThreads, NEW i \in Nat, PooledAt(poolStack', u, i)
          PROVE  FALSE
      <4>1. PooledAt(S, u, i) /\ ~(u = t /\ i = n)
        BY <2>4, <3>1 DEF ReturnView
      <4>2. active = <<u, i>>
        BY <1>1, <4>1, ActiveIs
      <4> QED
        BY <1>12, <4>1, <4>2
    <3>2. ASSUME NEW w \in Workers, ChunkOn(poolStack', w)
          PROVE  FALSE
      <4>1. ChunkOn(S, w)
        BY <2>4, <3>2 DEF ReturnView
      <4> QED
        BY <2>5, <4>1 DEF ChunkWorkers
    <3> QED
      BY <1>1, <3>1, <3>2 DEF ParallelOK
  <2>7. RunnersOK(poolStack', queue, inFlight)
    <3>1. SameRuns(S, poolStack')
      BY <2>4 DEF ReturnView
    <3> QED
      BY <3>1, RunnersStay DEF Core
  <2>8. OwnersOK(poolStack', job)
    <3>1. FewerOwners(S, poolStack')
      BY <2>4 DEF ReturnView, FewerOwners
    <3> QED
      BY <3>1, OwnersStay DEF Core
  <2>9. WaitOK(poolStack', queue, None, taken, fin, job, onReady, onDone)
    BY <1>9 DEF Core, WaitOK
  <2>10. StacksOK(poolStack')
    BY <2>4 DEF ReturnView
  <2>11. Core(poolStack', active', taken, fin, queue, inFlight, job, onReady, onDone')
    BY <2>1, <2>6, <2>7, <2>8, <2>9, <2>10 DEF Core
  <2> QED
    BY <1>6, <2>11
<1> QED
  BY <1>14, <1>15

\* A caller woken from WORK_DONE keeps the invariant.
LEMMA CallerLooksKeeps ==
    ASSUME PoolInv, NEW t \in PoolThreads, CallerLooks(t)
    PROVE  PoolInv'
<1>1. /\ StacksOK(poolStack) /\ inFlight \subseteq Jobs /\ DOMAIN poolStack = PoolThreads
      /\ Core(poolStack, active, taken, finished, queue, inFlight, job, onReady, onDone)
  BY PoolInvFacts
<1>2. /\ AtKind(t, "parallel") /\ Settle(t, poolStack[t], finished)
      /\ UNCHANGED <<poolStarted, taken, finished, queue, last, inFlight, job, onReady>>
  BY DEF CallerLooks, dispatched
<1>3. /\ Len(poolStack[t]) \in Nat \ {0} /\ Pooled(poolStack[t][Len(poolStack[t])])
      /\ t \notin onReady \cup onDone /\ poolStack[t] # <<>>
  BY <1>1, <1>2, AtKindIs
<1>4. PooledAt(poolStack, t, Len(poolStack[t]))
  BY <1>3 DEF PooledAt
<1>5. Others(poolStack, poolStack, t)
  BY <1>1 DEF Others
<1>6. /\ Core(poolStack', active', taken, finished, queue, inFlight, job, onReady, onDone')
      /\ Others(poolStack, poolStack', t)
  BY <1>1, <1>2, <1>3, <1>4, <1>5, SettleKeeps
<1>7. StartOK(poolStack', poolStarted)
  BY <1>3, <1>6, StartStays DEF PoolInv
<1> QED
  BY <1>2, <1>6, <1>7 DEF PoolInv

\* The chunk that the caller ran has run.
LEMMA ChunksPark ==
    ASSUME NEW S, NEW R, NEW t \in PoolThreads, NEW m \in Nat, NEW tk \in Nat,
           ChunksOK(S, t, m, tk), S[t][m] \in ParallelFrames,
           Len(S[t]) > m, ~(Len(R[t]) > m),
           R[t][m].count = S[t][m].count, R[t][m].chunks = S[t][m].chunks,
           R[t][m].ran = Ran(S[t][m], S[t][m].index).ran,
           \A w \in Workers : /\ ChunkOn(R, w) <=> ChunkOn(S, w)
                              /\ ChunkOn(S, w) => R[w][2] = S[w][2]
    PROVE  ChunksOK(R, t, m, tk)
<1> DEFINE c == S[t][m].index
           X == ChunksRun(S, t, m, tk)
           Y == ChunksRun(R, t, m, tk)
<1>1. c \in 0 .. tk - 1 /\ \A w \in Workers : ChunkOn(S, w) => S[w][2].index # c
  BY DEF ChunksOK
<1>2. \A d : ChunkRuns(S, t, m, d) <=> ChunkRuns(R, t, m, d) \/ d = c
  BY DEF ChunkRuns
<1>3. ~ChunkRuns(R, t, m, c)
  BY <1>1 DEF ChunkRuns
<1>4. Y = X \cup {c} /\ c \notin X /\ c \in Nat
  BY <1>1, <1>2, <1>3 DEF ChunksRun
<1>5. Handed(S[t][m], X)
  BY DEF ChunksOK
<1> HIDE DEF X, Y
<1>6. Handed(R[t][m], X \cup {c})
  BY <1>4, <1>5, HandedRan
<1>7. Handed(R[t][m], Y)
  BY <1>4, <1>6
<1> QED
  BY <1>7 DEF ChunksOK, Y

\* The chunk that is taken next, by the caller or by a worker, was not taken.
LEMMA ChunksTake ==
    ASSUME NEW S, NEW R, NEW t \in PoolThreads, NEW m \in Nat, NEW tk \in Nat,
           ChunksOK(S, t, m, tk), R[t][m] = S[t][m],
           \A w \in Workers : ChunkOn(S, w) => ChunkOn(R, w) /\ R[w][2] = S[w][2],
           \/ /\ ~(Len(S[t]) > m) /\ Len(R[t]) > m /\ R[t][m].index = tk
              /\ \A w \in Workers : ChunkOn(R, w) => ChunkOn(S, w)
           \/ /\ Len(S[t]) > m <=> Len(R[t]) > m
              /\ \E v \in Workers :
                    /\ ~ChunkOn(S, v) /\ ChunkOn(R, v) /\ R[v][2].index = tk
                    /\ \A w \in Workers : ChunkOn(R, w) => ChunkOn(S, w) \/ w = v
    PROVE  ChunksOK(R, t, m, tk + 1)
<1>1. tk \notin 0 .. tk - 1 /\ 0 .. tk = (0 .. tk - 1) \cup {tk} /\ (tk + 1) - 1 = tk
  OBVIOUS
<1>2. /\ \A w \in Workers : ChunkOn(S, w) => S[w][2].index \in 0 .. tk - 1
      /\ \A w, v \in Workers :
           ChunkOn(S, w) /\ ChunkOn(S, v) /\ S[w][2].index = S[v][2].index => w = v
      /\ Len(S[t]) > m => /\ S[t][m].index \in 0 .. tk - 1
                          /\ \A w \in Workers :
                                ChunkOn(S, w) => S[w][2].index # S[t][m].index
      /\ Handed(S[t][m], ChunksRun(S, t, m, tk))
  BY DEF ChunksOK
<1>3. \A d : ChunkRuns(R, t, m, d) <=> ChunkRuns(S, t, m, d) \/ d = tk
  <2>1. CASE /\ ~(Len(S[t]) > m) /\ Len(R[t]) > m /\ R[t][m].index = tk
             /\ \A w \in Workers : ChunkOn(R, w) => ChunkOn(S, w)
    BY <2>1 DEF ChunkRuns
  <2>2. CASE /\ Len(S[t]) > m <=> Len(R[t]) > m
             /\ \E v \in Workers :
                   /\ ~ChunkOn(S, v) /\ ChunkOn(R, v) /\ R[v][2].index = tk
                   /\ \A w \in Workers : ChunkOn(R, w) => ChunkOn(S, w) \/ w = v
    BY <2>2 DEF ChunkRuns
  <2> QED
    BY <2>1, <2>2
<1>4. ChunksRun(R, t, m, tk + 1) = ChunksRun(S, t, m, tk)
  BY <1>1, <1>3 DEF ChunksRun
<1>5. Handed(R[t][m], ChunksRun(R, t, m, tk + 1))
  BY <1>2, <1>4
<1>6. \A w \in Workers : ChunkOn(R, w) =>
         IF ChunkOn(S, w) THEN R[w][2].index \in 0 .. tk - 1 ELSE R[w][2].index = tk
  BY <1>2
<1>7. \A w \in Workers : ChunkOn(R, w) => R[w][2].index \in 0 .. (tk + 1) - 1
  BY <1>1, <1>6
<1>8. \A w, v \in Workers :
         ChunkOn(R, w) /\ ChunkOn(R, v) /\ R[w][2].index = R[v][2].index => w = v
  BY <1>1, <1>2, <1>6
<1>9. Len(R[t]) > m => /\ R[t][m].index \in 0 .. (tk + 1) - 1
                       /\ \A w \in Workers : ChunkOn(R, w) => R[w][2].index # R[t][m].index
  BY <1>1, <1>2, <1>6
<1> QED
  BY <1>5, <1>7, <1>8, <1>9 DEF ChunksOK

\* The chunk that a worker ran has run.
LEMMA ChunksFinish ==
    ASSUME NEW S, NEW R, NEW t \in PoolThreads, NEW m \in Nat, NEW tk \in Nat,
           ChunksOK(S, t, m, tk), S[t][m] \in ParallelFrames,
           NEW w \in Workers, ChunkOn(S, w), Len(S[t]) > m <=> Len(R[t]) > m,
           R[t][m] = Ran(S[t][m], S[w][2].index),
           \A v \in Workers : /\ ChunkOn(R, v) <=> ChunkOn(S, v) /\ v # w
                              /\ ChunkOn(R, v) => R[v][2] = S[v][2]
    PROVE  ChunksOK(R, t, m, tk)
<1> DEFINE c == S[w][2].index
           X == ChunksRun(S, t, m, tk)
           Y == ChunksRun(R, t, m, tk)
           f == S[t][m]
           g == R[t][m]
<1>1. /\ \A v \in Workers : ChunkOn(S, v) => S[v][2].index \in 0 .. tk - 1
      /\ \A u, v \in Workers :
           ChunkOn(S, u) /\ ChunkOn(S, v) /\ S[u][2].index = S[v][2].index => u = v
      /\ Len(S[t]) > m => /\ f.index \in 0 .. tk - 1
                          /\ \A v \in Workers : ChunkOn(S, v) => S[v][2].index # f.index
      /\ Handed(f, X)
  BY DEF ChunksOK
<1>2. /\ g.count = f.count /\ g.chunks = f.chunks /\ g.index = f.index
      /\ g.ran = Ran(f, c).ran
  <2> HIDE DEF f
  <2>1. f \in ParallelFrames /\ g = Ran(f, c)
    BY DEF f
  <2> HIDE DEF g, c
  <2> QED
    BY <2>1, RanIs
<1>3. c \in 0 .. tk - 1 /\ \A v \in Workers : ChunkOn(R, v) => R[v][2].index # c
  BY <1>1
<1>4. ~ChunkRuns(R, t, m, c)
  BY <1>1, <1>2, <1>3 DEF ChunkRuns
<1>5. \A d : ChunkRuns(S, t, m, d) <=> ChunkRuns(R, t, m, d) \/ d = c
  <2>1. ASSUME NEW d, ChunkRuns(S, t, m, d)
        PROVE  ChunkRuns(R, t, m, d) \/ d = c
    BY <1>2, <2>1 DEF ChunkRuns
  <2>2. ASSUME NEW d, ChunkRuns(R, t, m, d) \/ d = c
        PROVE  ChunkRuns(S, t, m, d)
    BY <1>2, <2>2 DEF ChunkRuns
  <2> QED
    BY <2>1, <2>2
<1>6. Y = X \cup {c} /\ c \notin X /\ c \in Nat
  BY <1>3, <1>4, <1>5 DEF ChunksRun
<1> HIDE DEF X, Y, f, g, c
<1>7. f \in ParallelFrames
  BY DEF f
<1>8. Handed(g, X \cup {c})
  BY <1>1, <1>2, <1>6, <1>7, HandedRan
<1>9. Handed(R[t][m], ChunksRun(R, t, m, tk))
  BY <1>6, <1>8 DEF g, Y
<1>10. \A v \in Workers : ChunkOn(R, v) => R[v][2].index \in 0 .. tk - 1
  BY <1>1
<1>11. \A u, v \in Workers :
          ChunkOn(R, u) /\ ChunkOn(R, v) /\ R[u][2].index = R[v][2].index => u = v
  BY <1>1
<1>12. Len(R[t]) > m => /\ R[t][m].index \in 0 .. tk - 1
                        /\ \A v \in Workers : ChunkOn(R, v) => R[v][2].index # R[t][m].index
  BY <1>1, <1>2 DEF g
<1> QED
  BY <1>9, <1>10, <1>11, <1>12 DEF ChunksOK

\* The call that uses the pool: its place, its frame and its numbers.
LEMMA CallIs ==
    ASSUME NEW S, NEW act, NEW tk, NEW fin, ParallelOK(S, act, tk, fin), StacksOK(S),
           act # None
    PROVE  /\ act[1] \in PoolThreads /\ act[2] \in Nat /\ act = <<act[1], act[2]>>
           /\ act \in PoolThreads \X Nat
           /\ PooledAt(S, act[1], act[2]) /\ act[1] \notin ChunkWorkers(S)
           /\ S[act[1]][act[2]] \in ParallelFrames
           /\ S[act[1]][act[2]].chunks \in 1 .. MaxCount
           /\ tk \in Nat /\ fin \in Nat /\ MaxCount \in Nat
           /\ 1 <= tk /\ tk <= S[act[1]][act[2]].chunks
           /\ fin + Cardinality(ChunkWorkers(S)) + One(Len(S[act[1]]) > act[2]) = tk
<1>1. CallOK(S, act, tk, fin) /\ tk \in 0 .. MaxCount /\ fin \in 0 .. tk
  BY DEF ParallelOK
<1>2. act[1] \in PoolThreads /\ act[2] \in Nat /\ act = <<act[1], act[2]>>
  BY <1>1 DEF CallOK
<1> DEFINE a == act[1]
           k == act[2]
           f == S[a][k]
<1>3. PooledAt(S, a, k)
  BY <1>1 DEF CallOK
<1>4. f \in Frames /\ f.kind = "parallel"
  BY <1>2, <1>3, StackLen DEF PooledAt, Pooled
<1>5. f \in ParallelFrames
  BY <1>4, FrameKinds
<1> HIDE DEF f
<1>6. f.count \in 1 .. MaxCount /\ f.chunks \in 1 .. f.count /\ MaxCount \in Nat
  BY <1>5, ParallelIs, PoolAssumption
<1>7. f.chunks \in 1 .. MaxCount
  BY <1>6
<1> QED
  BY <1>1, <1>2, <1>3, <1>5, <1>6, <1>7 DEF f, CallOK

\* The caller has run a chunk of its own, and the call counts it.
LEMMA ParkKeeps ==
    ASSUME PoolInv, NEW t \in PoolThreads, Ended(t, "parallel"), NEW f \in Frames, NEW S,
           Others(poolStack, S, t), S[t] = SwapOn(poolStack[t], f),
           Pooled(poolStack[t][Len(poolStack[t]) - 1]), Pooled(f),
           f.chunks = poolStack[t][Len(poolStack[t]) - 1].chunks,
           f.count = poolStack[t][Len(poolStack[t]) - 1].count,
           f.ran = Ran(poolStack[t][Len(poolStack[t]) - 1],
                       poolStack[t][Len(poolStack[t]) - 1].index).ran
    PROVE  /\ Core(S, active, taken, finished + 1, queue, inFlight, job, onReady, onDone)
           /\ S[t] \in Seq(Frames) /\ Len(S[t]) = Len(poolStack[t]) - 1
           /\ S[t][Len(poolStack[t]) - 1] = f /\ PooledAt(S, t, Len(poolStack[t]) - 1)
           /\ active = <<t, Len(poolStack[t]) - 1>>
<1> DEFINE n == Len(poolStack[t])
<1>1. /\ StacksOK(poolStack) /\ inFlight \subseteq Jobs /\ DOMAIN poolStack = PoolThreads
      /\ Core(poolStack, active, taken, finished, queue, inFlight, job, onReady, onDone)
  BY PoolInvFacts
<1>2. /\ n \in Nat /\ n >= 3 /\ n >= 2 /\ Odd(n) /\ poolStack[t] \in Seq(Frames)
      /\ t \notin onReady \cup onDone /\ Len(poolStack[t]) = n
      /\ Pooled(poolStack[t][n - 1]) /\ f.chunks = poolStack[t][n - 1].chunks
      /\ f.count = poolStack[t][n - 1].count
      /\ f.ran = Ran(poolStack[t][n - 1], poolStack[t][n - 1].index).ran
  BY <1>1, EndedIs
<1> HIDE DEF n
<1>3. Swapped(poolStack, S, t, n, f)
  BY <1>2, SwapBelow
<1>4. /\ S[t] \in Seq(Frames) /\ Len(S[t]) = n - 1 /\ Prefix(poolStack, S, t, n - 2)
      /\ S[t][n - 1] = f
  BY <1>3 DEF Swapped
<1>5. ParkView(poolStack, S, t, n)
  <2>1. Pooled(S[t][n - 1])
    BY <1>4
  <2> QED
    BY <1>1, <1>2, <1>4, <2>1, Parks
<1>6. PooledAt(poolStack, t, n - 1) /\ PooledAt(S, t, n - 1) /\ n - 1 \in Nat
  BY <1>2, <1>4 DEF PooledAt
<1>7. /\ active = <<t, n - 1>> /\ active # None /\ active[1] = t /\ active[2] = n - 1
      /\ CallOK(poolStack, active, taken, finished)
  BY <1>1, <1>6, ActiveIs DEF Core
<1>8. ChunkWorkers(S) = ChunkWorkers(poolStack)
  BY <1>5 DEF ParkView, ChunkWorkers
<1>9. /\ finished + 1 + Cardinality(ChunkWorkers(S)) + One(Len(S[t]) > n - 1) = taken
      /\ finished + 1 \in 0 .. taken
  <2> DEFINE c == Cardinality(ChunkWorkers(S))
  <2>1. c \in Nat /\ finished \in Nat /\ taken \in Nat
    BY <1>1, ChunkWorkersFinite, PoolAssumption DEF Core, ParallelOK
  <2>2. One(Len(S[t]) > n - 1) = 0 /\ One(Len(poolStack[t]) > n - 1) = 1
    BY <1>2, <1>4 DEF One
  <2>3. finished + c + One(Len(poolStack[t]) > n - 1) = taken
    BY <1>7, <1>8 DEF CallOK
  <2> HIDE DEF c
  <2>4. finished + 1 + c + 0 = taken /\ finished + 1 \in 0 .. taken
    BY <2>1, <2>2, <2>3
  <2> QED
    BY <2>2, <2>4 DEF c
<1>10. CallOK(S, active, taken, finished + 1)
  BY <1>2, <1>4, <1>6, <1>7, <1>8, <1>9 DEF CallOK
<1>11. ParallelOK(S, active, taken, finished + 1)
  <2>1. ASSUME NEW u \in PoolThreads, NEW i \in Nat, PooledAt(S, u, i)
        PROVE  active = <<u, i>>
    <3>1. PooledAt(poolStack, u, i)
      BY <1>5, <2>1 DEF ParkView
    <3> QED
      BY <1>1, <3>1 DEF Core, ParallelOK
  <2>2. ASSUME NEW w \in Workers, ChunkOn(S, w)
        PROVE  active # None /\ S[w][2].call = active
    <3>1. ChunkOn(poolStack, w) /\ S[w][2] = poolStack[w][2]
      BY <1>5, <2>2 DEF ParkView
    <3> QED
      BY <1>1, <3>1 DEF Core, ParallelOK
  <2>3. taken \in 0 .. MaxCount
    BY <1>1 DEF Core, ParallelOK
  <2>4. ChunksOK(S, active[1], active[2], taken)
    <3> DEFINE m == n - 1
               call == poolStack[t][m]
    <3>1. /\ m \in Nat /\ Len(poolStack[t]) > m /\ ~(Len(S[t]) > m) /\ S[t][m] = f
          /\ active[1] = t /\ active[2] = m
          /\ f.chunks = call.chunks /\ f.count = call.count /\ f.ran = Ran(call, call.index).ran
      BY <1>2, <1>4, <1>6, <1>7
    <3>2. ChunksOK(poolStack, t, m, taken)
      BY <1>1, <1>7, <3>1 DEF Core, ParallelOK
    <3>3. call \in ParallelFrames
      BY <1>1, <1>7, CallIs DEF Core
    <3>4. \A w \in Workers : /\ ChunkOn(S, w) <=> ChunkOn(poolStack, w)
                             /\ ChunkOn(poolStack, w) => S[w][2] = poolStack[w][2]
      BY <1>5 DEF ParkView
    <3>5. taken \in Nat
      BY <1>1, PoolAssumption DEF Core, ParallelOK
    <3> HIDE DEF m, call
    <3>6. ChunksOK(S, t, m, taken)
      BY <3>1, <3>2, <3>3, <3>4, <3>5, ChunksPark DEF call
    <3> QED
      BY <3>1, <3>6
  <2> QED
    BY <1>9, <1>10, <2>1, <2>2, <2>3, <2>4 DEF ParallelOK
<1>12. RunnersOK(S, queue, inFlight)
  <2>1. SameRuns(poolStack, S)
    BY <1>5 DEF ParkView
  <2> QED
    BY <1>1, <2>1, RunnersStay DEF Core
<1>13. OwnersOK(S, job)
  <2>1. FewerOwners(poolStack, S)
    BY <1>5 DEF ParkView
  <2> QED
    BY <1>1, <2>1, OwnersStay DEF Core
<1>14. WaitOK(S, queue, active, taken, finished + 1, job, onReady, onDone)
  <2>1. \A u \in onReady \cup onDone : S[u] = poolStack[u]
    BY <1>2, AwakeSet
  <2>2. WaitOK(S, queue, active, taken, finished, job, onReady, onDone)
    BY <1>1, <1>2, <1>4, <1>7, <2>1, WaitStays DEF Core
  <2>3. ASSUME NEW u \in onDone
        PROVE  S[u][Len(S[u])].kind # "parallel"
    <3>1. SUFFICES ASSUME S[u][Len(S[u])].kind = "parallel"
                   PROVE  FALSE
      OBVIOUS
    <3>2. u \in PoolThreads /\ u # t /\ Len(S[u]) > 0
      BY <1>2, <2>2 DEF WaitOK
    <3>3. StacksOK(S)
      BY <1>5 DEF ParkView
    <3>4. PooledAt(S, u, Len(S[u])) /\ Len(S[u]) \in Nat
      BY <3>1, <3>2, <3>3, TopParallel
    <3>5. active = <<u, Len(S[u])>>
      BY <1>11, <3>2, <3>4 DEF ParallelOK
    <3> QED
      BY <1>7, <3>2, <3>5
  <2> QED
    BY <2>2, <2>3 DEF WaitOK
<1>15. StacksOK(S)
  BY <1>5 DEF ParkView
<1>16. Core(S, active, taken, finished + 1, queue, inFlight, job, onReady, onDone)
  BY <1>11, <1>12, <1>13, <1>14, <1>15 DEF Core
<1> QED
  BY <1>4, <1>6, <1>7, <1>16 DEF n

\* The next chunk of the caller keeps the invariant.
LEMMA CallerNextKeeps ==
    ASSUME PoolInv, NEW t \in PoolThreads, CallerNext(t)
    PROVE  PoolInv'
<1> DEFINE n == Len(poolStack[t])
           call == poolStack[t][n - 1]
           frame == Ran(call, call.index)
           next == [frame EXCEPT !.index = taken]
<1>1. /\ StacksOK(poolStack) /\ inFlight \subseteq Jobs /\ DOMAIN poolStack = PoolThreads
      /\ Core(poolStack, active, taken, finished, queue, inFlight, job, onReady, onDone)
  BY PoolInvFacts
<1>2. Ended(t, "parallel")
  BY DEF CallerNext
<1>3. /\ n \in Nat /\ n >= 3 /\ n >= 2 /\ Odd(n) /\ poolStack[t] \in Seq(Frames)
      /\ call \in Frames /\ call.kind = "parallel"
      /\ t \notin onReady \cup onDone /\ poolStack[t] # <<>>
  BY <1>1, <1>2, EndedIs
<1>4. /\ ~frame.inline /\ finished' = finished + 1
      /\ \/ /\ taken < frame.chunks /\ taken' = taken + 1
            /\ poolStack' = [poolStack EXCEPT ![t] = TurnOn(poolStack[t], next)]
            /\ UNCHANGED <<active, onDone>>
         \/ /\ taken >= frame.chunks
            /\ Settle(t, SwapOn(poolStack[t], frame), finished + 1)
            /\ UNCHANGED taken
      /\ UNCHANGED <<poolStarted, queue, last, inFlight, job, onReady>>
  <2>1. Pop(poolStack[t])[Len(Pop(poolStack[t]))] = call
    BY <1>1, <1>2, BelowIs
  <2> QED
    BY <2>1 DEF CallerNext, dispatched, TurnOn, SwapOn
<1>5. call \in ParallelFrames
  BY <1>3, FrameKinds
<1> HIDE DEF call
<1>6. /\ frame \in ParallelFrames /\ frame.kind = "parallel" /\ frame.inline = call.inline
      /\ frame.index = call.index /\ frame.chunks = call.chunks /\ frame.count = call.count
      /\ frame \in ParallelRecords(call.count) /\ call.count \in 1 .. MaxCount
      /\ frame.ran = Ran(call, call.index).ran
  <2> DEFINE index == call.index
  <2>1. frame = Ran(call, index)
    OBVIOUS
  <2> HIDE DEF frame, index
  <2>2. /\ ~call.inline => frame \in ParallelFrames
        /\ frame \in ParallelRecords(call.count)
        /\ frame.kind = "parallel" /\ frame.inline = call.inline
        /\ frame.index = call.index /\ frame.chunks = call.chunks /\ frame.count = call.count
    BY <1>5, <2>1, RanIs
  <2>3. ~call.inline
    BY <1>4, <2>2 DEF frame
  <2>4. call.count \in 1 .. MaxCount
    BY <1>5, ParallelIs
  <2> QED
    BY <2>1, <2>2, <2>3, <2>4 DEF index
<1>7. /\ call = poolStack[t][n - 1] /\ Len(poolStack[t]) = n
      /\ call = poolStack[t][Len(poolStack[t]) - 1]
  BY DEF call
<1>8. Pooled(call) /\ Pooled(frame) /\ frame \in Frames
  BY <1>3, <1>4, <1>6 DEF Pooled, Frames
<1> HIDE DEF frame, n
<1>9. CASE taken < frame.chunks
  <2> DEFINE S == [poolStack EXCEPT ![t] = SwapOn(poolStack[t], next)]
  <2>1. /\ taken' = taken + 1 /\ active' = active /\ onDone' = onDone
        /\ poolStack' = [poolStack EXCEPT ![t] = TurnOn(poolStack[t], next)]
    <3>1. ~(taken >= frame.chunks)
      <4>1. taken \in Nat /\ frame.chunks \in Nat
        <5>1. frame.count \in 1 .. MaxCount /\ frame.chunks \in 1 .. frame.count
          BY <1>6, ParallelIs
        <5> QED
          BY <1>1, <5>1, PoolAssumption DEF Core, ParallelOK
      <4> QED
        BY <1>9, <4>1
    <3> QED
      BY <1>4, <3>1
  <2>2. taken \in 0 .. frame.chunks - 1 /\ taken + 1 \in 0 .. MaxCount
    <3>1. frame.count \in 1 .. MaxCount /\ frame.chunks \in 1 .. frame.count
      BY <1>6, ParallelIs
    <3>2. taken \in 0 .. MaxCount /\ MaxCount \in Nat
      BY <1>1, PoolAssumption DEF Core, ParallelOK
    <3> QED
      BY <1>9, <3>1, <3>2
  <2>3. /\ next \in ParallelFrames /\ next.kind = "parallel" /\ next.inline = frame.inline
        /\ next.chunks = frame.chunks /\ next.count = frame.count /\ next.index = taken
        /\ next.ran = frame.ran
    <3> DEFINE k == call.count
    <3>1. k \in 1 .. MaxCount /\ frame \in ParallelRecords(k) /\ ~frame.inline
      BY <1>4, <1>6
    <3> HIDE DEF k
    <3> QED
      BY <2>2, <3>1, IndexIs
  <2> HIDE DEF next
  <2>4. next \in Frames /\ Pooled(next)
    BY <1>8, <2>3 DEF Frames, Pooled
  <2>5. Others(poolStack, S, t) /\ S[t] = SwapOn(poolStack[t], next)
    BY <1>1, SetIs
  <2>6. Others(poolStack, poolStack', t) /\ poolStack'[t] = TurnOn(poolStack[t], next)
    BY <1>1, <2>1, SetIs
  <2> HIDE DEF S
  <2>7. /\ Core(S, active, taken, finished + 1, queue, inFlight, job, onReady, onDone)
        /\ S[t] \in Seq(Frames) /\ Len(S[t]) = n - 1
        /\ S[t][n - 1] = next /\ PooledAt(S, t, n - 1)
        /\ active = <<t, n - 1>>
    <3>1. next.chunks = poolStack[t][Len(poolStack[t]) - 1].chunks
      BY <1>6, <1>7, <2>3
    <3>2. Pooled(poolStack[t][Len(poolStack[t]) - 1])
      BY <1>7, <1>8
    <3>3. /\ next.count = poolStack[t][Len(poolStack[t]) - 1].count
          /\ next.ran = Ran(poolStack[t][Len(poolStack[t]) - 1],
                       poolStack[t][Len(poolStack[t]) - 1].index).ran
      BY <1>6, <1>7, <2>3
    <3> QED
      BY <1>2, <1>7, <2>4, <2>5, <3>1, <3>2, <3>3, ParkKeeps
  <2>8. Turned(poolStack, poolStack', t, n, next)
    BY <1>3, <1>7, <2>4, <2>6, SwapAndPush
  <2>9. Swapped(poolStack, S, t, n, next)
    BY <1>3, <1>7, <2>4, <2>5, SwapBelow
  <2> DEFINE m == n - 1
  <2>10. /\ m \in Nat /\ m >= 1 /\ ~Odd(m) /\ Len(S[t]) = m
         /\ poolStack'[t] \in Seq(Frames) /\ Len(poolStack'[t]) = m + 1
         /\ poolStack'[t][m + 1] = NewBody
    <3>1. m + 1 = n
      BY <1>3
    <3> QED
      <4>1. m \in Nat /\ m >= 1
        BY <1>3
      <4>2. ~Odd(m)
        BY <1>3, <3>1, <4>1, OddFacts
      <4> QED
        BY <2>7, <2>8, <3>1, <4>1, <4>2 DEF Turned
  <2>11. Prefix(S, poolStack', t, m)
    <3>1. ASSUME NEW i \in 1 .. n - 1
          PROVE  poolStack'[t][i] = S[t][i]
      <4>1. CASE i = n - 1
        BY <2>8, <2>9, <4>1 DEF Turned, Swapped
      <4>2. CASE i # n - 1
        <5>1. i \in 1 .. n - 2
          BY <1>3, <4>2
        <5> QED
          BY <2>8, <2>9, <5>1 DEF Turned, Swapped, Prefix
      <4> QED
        BY <4>1, <4>2
    <3> QED
      BY <3>1 DEF Prefix
  <2>12. Others(S, poolStack', t) /\ StacksOK(S) /\ S[t][m].kind = "parallel"
    BY <2>3, <2>5, <2>6, <2>7 DEF Others, Core
  <2>13. active = <<t, m>> /\ PooledAt(S, t, m) /\ S[t][m].chunks = frame.chunks
    BY <2>3, <2>7
  <2> HIDE DEF m
  <2>14. ResumeView(S, poolStack', t, m)
    BY <2>10, <2>11, <2>12, Resumes
  <2>15. /\ active = <<t, m>> /\ active # None /\ active[1] = t /\ active[2] = m
         /\ CallOK(S, active, taken, finished + 1)
    BY <2>7, <2>10, <2>13, ActiveIs DEF Core
  <2>16. ChunkWorkers(poolStack') = ChunkWorkers(S)
    BY <2>14 DEF ResumeView, ChunkWorkers
  <2>17. /\ finished + 1 + Cardinality(ChunkWorkers(poolStack')) + One(Len(poolStack'[t]) > m)
              = taken + 1
         /\ finished + 1 \in 0 .. taken + 1
    <3> DEFINE c == Cardinality(ChunkWorkers(S))
    <3>1. c \in Nat /\ finished + 1 \in Nat /\ taken \in Nat
      BY <2>7, ChunkWorkersFinite, PoolAssumption DEF Core, ParallelOK
    <3>2. One(Len(S[t]) > m) = 0 /\ One(Len(poolStack'[t]) > m) = 1
      BY <2>10 DEF One
    <3>3. finished + 1 + c + One(Len(S[t]) > m) = taken
      BY <2>15 DEF CallOK
    <3> DEFINE d == finished + 1
    <3> HIDE DEF c, d
    <3>4. d \in Nat /\ d + c + 0 = taken
      BY <3>1, <3>2, <3>3 DEF d
    <3>5. d + c + 1 = taken + 1 /\ d \in 0 .. taken + 1
      BY <3>1, <3>4
    <3> QED
      BY <2>16, <3>2, <3>5 DEF c, d
  <2>18. CallOK(poolStack', active, taken + 1, finished + 1)
    <3>1. PooledAt(poolStack', t, m) /\ poolStack'[t][m] = S[t][m]
      BY <2>10, <2>13, <2>14 DEF ResumeView
    <3>2. 1 <= taken + 1 /\ taken + 1 <= poolStack'[t][m].chunks
      <4>1. frame.count \in 1 .. MaxCount /\ frame.chunks \in 1 .. frame.count
        BY <1>6, ParallelIs
      <4>2. frame.chunks \in Nat
        BY <4>1, PoolAssumption
      <4> QED
        BY <2>2, <2>13, <3>1, <4>2
    <3> QED
      BY <2>15, <2>16, <2>17, <3>1, <3>2 DEF CallOK
  <2>19. ParallelOK(poolStack', active, taken + 1, finished + 1)
    <3>1. ASSUME NEW u \in PoolThreads, NEW i \in Nat, PooledAt(poolStack', u, i)
          PROVE  active = <<u, i>>
      BY <2>7, <2>14, <3>1 DEF ResumeView, Core, ParallelOK
    <3>2. ASSUME NEW w \in Workers, ChunkOn(poolStack', w)
          PROVE  active # None /\ poolStack'[w][2].call = active
      BY <2>7, <2>14, <3>2 DEF ResumeView, Core, ParallelOK
    <3>3. ChunksOK(S, t, m, taken) /\ taken \in Nat
      BY <2>7, <2>15, PoolAssumption DEF Core, ParallelOK
    <3>4. ChunksOK(poolStack', t, m, taken + 1)
      <4>1. poolStack'[t][m] = S[t][m]
        BY <2>10, <2>11 DEF Prefix
      <4>2. S[t][m].index = taken
        BY <2>3, <2>7 DEF m
      <4>3. ~(Len(S[t]) > m) /\ Len(poolStack'[t]) > m
        BY <2>10
      <4>4. \A w \in Workers :
              /\ ChunkOn(S, w) => ChunkOn(poolStack', w) /\ poolStack'[w][2] = S[w][2]
              /\ ChunkOn(poolStack', w) => ChunkOn(S, w)
        BY <2>14 DEF ResumeView
      <4> QED
        BY <2>10, <3>3, <4>1, <4>2, <4>3, <4>4, ChunksTake
    <3> QED
      BY <2>2, <2>15, <2>17, <2>18, <3>1, <3>2, <3>4 DEF ParallelOK
  <2>20. RunnersOK(poolStack', queue, inFlight)
    <3>1. SameRuns(S, poolStack')
      BY <2>12, <2>14 DEF ResumeView, SameRuns
    <3> QED
      BY <1>1, <2>7, <3>1, RunnersStay DEF Core
  <2>21. OwnersOK(poolStack', job)
    <3>1. FewerOwners(S, poolStack')
      BY <2>14 DEF ResumeView
    <3> QED
      BY <2>7, <3>1, OwnersStay DEF Core
  <2>22. WaitOK(poolStack', queue, active, taken + 1, finished + 1, job, onReady, onDone)
    <3>1. \A u \in onReady \cup onDone : poolStack'[u] = S[u]
      BY <1>3, <2>7, <2>12 DEF Others, Core, WaitOK, PoolThreads
    <3>2. onReady = {}
      <4>1. onReady # {} => taken = S[active[1]][active[2]].chunks
        BY <2>7, <2>15 DEF Core, WaitOK
      <4>2. taken # S[t][m].chunks
        <5>1. frame.count \in 1 .. MaxCount /\ frame.chunks \in 1 .. frame.count
          BY <1>6, ParallelIs
        <5> QED
          BY <2>2, <2>13, <5>1, PoolAssumption
      <4> QED
        BY <2>15, <4>1, <4>2
    <3> QED
      BY <2>7, <3>1, <3>2 DEF Core, WaitOK
  <2>23. Core(poolStack', active, taken + 1, finished + 1, queue, inFlight, job, onReady, onDone)
    BY <2>14, <2>19, <2>20, <2>21, <2>22 DEF Core, ResumeView
  <2>24. StartOK(poolStack', poolStarted)
    BY <1>3, <2>6, StartStays DEF PoolInv
  <2> QED
    BY <1>4, <2>1, <2>23, <2>24 DEF PoolInv
<1>10. CASE ~(taken < frame.chunks)
  <2> DEFINE S == [poolStack EXCEPT ![t] = SwapOn(poolStack[t], frame)]
  <2>1. /\ Settle(t, SwapOn(poolStack[t], frame), finished + 1) /\ taken' = taken
    BY <1>4, <1>10
  <2>2. Others(poolStack, S, t) /\ S[t] = SwapOn(poolStack[t], frame)
    BY <1>1, SetIs
  <2> HIDE DEF S
  <2>3. /\ Core(S, active, taken, finished + 1, queue, inFlight, job, onReady, onDone)
        /\ Len(S[t]) = n - 1 /\ PooledAt(S, t, n - 1)
    <3>1. frame.chunks = poolStack[t][Len(poolStack[t]) - 1].chunks
      BY <1>6, <1>7
    <3>2. Pooled(poolStack[t][Len(poolStack[t]) - 1])
      BY <1>7, <1>8
    <3>3. /\ frame.count = poolStack[t][Len(poolStack[t]) - 1].count
          /\ frame.ran = Ran(poolStack[t][Len(poolStack[t]) - 1],
                       poolStack[t][Len(poolStack[t]) - 1].index).ran
      BY <1>6, <1>7
    <3> QED
      BY <1>2, <1>7, <1>8, <2>2, <3>1, <3>2, <3>3, ParkKeeps
  <2>4. Settle(t, S[t], finished + 1) /\ PooledAt(S, t, Len(S[t]))
    BY <2>1, <2>2, <2>3
  <2>5. /\ Core(poolStack', active', taken, finished + 1, queue, inFlight, job, onReady, onDone')
        /\ Others(poolStack, poolStack', t)
    BY <1>1, <1>3, <2>2, <2>3, <2>4, SettleKeeps
  <2>6. StartOK(poolStack', poolStarted)
    BY <1>3, <2>5, StartStays DEF PoolInv
  <2> QED
    BY <1>4, <2>1, <2>5, <2>6 DEF PoolInv
<1> QED
  BY <1>9, <1>10

\* No call uses the pool, and no worker is at a chunk.
LEMMA NoneActive ==
    ASSUME NEW S, NEW tk, NEW fin, ParallelOK(S, None, tk, fin)
    PROVE  /\ \A t \in PoolThreads : \A i \in Nat : ~PooledAt(S, t, i)
           /\ \A w \in Workers : ~ChunkOn(S, w)
<1>1. \A t \in PoolThreads : \A i \in Nat : None # <<t, i>>
  BY PoolAssumption
<1> QED
  BY <1>1 DEF ParallelOK

\* A call that takes the pool keeps the invariant.
LEMMA ParallelKeeps ==
    ASSUME PoolInv, NEW t \in PoolThreads, NEW asked \in 0 .. MaxAsked,
           NEW count \in 1 .. MaxCount, NEW fresh \in SUBSET Workers,
           Parallel(t, asked, count, fresh)
    PROVE  PoolInv'
<1> DEFINE n == Len(poolStack[t])
           frame == ParallelFrame(count, ChunksOf(asked, count), FALSE)
           S == [poolStack EXCEPT ![t] = SetTop(poolStack[t], Called(t))]
           R == [poolStack EXCEPT ![t] = TwoOn(SetTop(poolStack[t], Called(t)), frame)]
           act == <<t, n + 1>>
<1>1. /\ MayCall(t) /\ ChunksOf(asked, count) > 0 /\ active = None
      /\ active' = act /\ taken' = 1 /\ finished' = 0 /\ onReady' = {}
      /\ Start(fresh, R)
      /\ UNCHANGED <<queue, last, inFlight, job, onDone>>
  BY DEF Parallel, dispatched, TwoOn
<1>2. /\ StacksOK(poolStack) /\ inFlight \subseteq Jobs /\ DOMAIN poolStack = PoolThreads
      /\ onReady \subseteq Workers /\ onDone \subseteq PoolThreads
  BY PoolInvFacts
<1>3. /\ n \in Nat /\ Len(poolStack[t]) = n
      /\ t \notin onReady \cup onDone /\ poolStack[t] # <<>>
  BY <1>1, <1>2, MayCallIs
<1>4. /\ frame \in Frames /\ frame.kind = "parallel" /\ Pooled(frame)
      /\ frame.chunks \in 1 .. MaxCount /\ frame.count = count
      /\ frame.index = 0 /\ frame.ran = [e \in 0 .. count - 1 |-> 0]
  <2>1. ChunksOf(asked, count) \in 1 .. count
    BY <1>1, ChunksAre
  <2>2. /\ frame \in ParallelFrames /\ frame.kind = "parallel" /\ frame.inline = FALSE
        /\ frame.chunks = ChunksOf(asked, count) /\ frame.count = count
        /\ frame.index = 0 /\ frame.ran = [e \in 0 .. count - 1 |-> 0]
    BY <2>1, ParallelFrameIs
  <2>3. MaxCount \in Nat
    BY PoolAssumption
  <2>4. ChunksOf(asked, count) \in 1 .. MaxCount
    BY <2>1, <2>3
  <2> QED
    BY <2>2, <2>4, ParallelIs DEF Pooled
<1> HIDE DEF frame, n
<1>5. Others(poolStack, S, t) /\ S[t] = SetTop(poolStack[t], Called(t))
  BY <1>2, SetIs
<1>6. Others(poolStack, R, t) /\ R[t] = TwoOn(S[t], frame)
  BY <1>2, <1>5, SetIs
<1> HIDE DEF S, R
<1>7. /\ Core(S, active, taken, finished, queue, inFlight, job, onReady, onDone)
      /\ EnterView(S, R, t, n) /\ Others(S, R, t)
      /\ Len(R[t]) = n + 2 /\ R[t][n + 1] = frame
  <2>1. CallView(S, R, t, n, frame)
    BY <1>1, <1>3, <1>4, <1>5, <1>6, CallEnters
  <2> QED
    BY <2>1 DEF CallView
<1>8. /\ \A u \in PoolThreads : \A i \in Nat : ~PooledAt(S, u, i)
      /\ \A w \in Workers : ~ChunkOn(S, w)
  BY <1>1, <1>7, NoneActive DEF Core
<1>9. n = 1 => R[t][2].kind = "parallel"
  BY <1>4, <1>7
<1>10. \A w \in Workers : ~ChunkOn(R, w)
  BY <1>7, <1>8, <1>9 DEF EnterView
<1>11. \A u \in PoolThreads : \A i \in Nat : PooledAt(R, u, i) <=> u = t /\ i = n + 1
  BY <1>4, <1>7, <1>8 DEF EnterView
<1>12. act \in PoolThreads \X Nat /\ act[1] = t /\ act[2] = n + 1
  BY <1>3
<1>13. ChunkWorkers(R) = {}
  BY <1>10 DEF ChunkWorkers
<1>14. CallOK(R, act, 1, 0)
  <2>1. Cardinality(ChunkWorkers(R)) = 0
    BY <1>13, FS_EmptySet
  <2>2. One(Len(R[t]) > n + 1) = 1
    BY <1>3, <1>7 DEF One
  <2>3. PooledAt(R, t, n + 1)
    BY <1>3, <1>11
  <2>4. 1 <= R[t][n + 1].chunks
    BY <1>4, <1>7
  <2>5. 0 + Cardinality(ChunkWorkers(R)) + One(Len(R[t]) > n + 1) = 1
    BY <2>1, <2>2
  <2> QED
    BY <1>12, <1>13, <2>3, <2>4, <2>5 DEF CallOK
<1>15. ParallelOK(R, act, 1, 0)
  <2>1. 1 \in 0 .. MaxCount /\ 0 \in 0 .. 1
    BY <1>4, PoolAssumption
  <2>2. ChunksOK(R, t, n + 1, 1)
    <3>1. Len(R[t]) > n + 1 /\ R[t][n + 1].index = 0 /\ 0 \in 0 .. 1 - 1
      BY <1>3, <1>4, <1>7
    <3>2. ChunkRuns(R, t, n + 1, 0)
      BY <3>1 DEF ChunkRuns
    <3>3. 0 .. 1 - 1 = {0}
      OBVIOUS
    <3>4. ChunksRun(R, t, n + 1, 1) = {}
      BY <3>2, <3>3 DEF ChunksRun
    <3>5. \A c : One(c \in {}) = 0
      BY DEF One
    <3>6. Handed(frame, {})
      BY <1>4, <3>5 DEF Handed
    <3> QED
      BY <1>7, <1>10, <3>1, <3>4, <3>6 DEF ChunksOK
  <2> QED
    BY <1>10, <1>11, <1>12, <1>14, <2>1, <2>2 DEF ParallelOK
<1>16. RunnersOK(R, queue, inFlight)
  <2>1. SameRuns(S, R)
    BY <1>4, <1>7 DEF SameRuns, EnterView
  <2> QED
    BY <1>2, <1>7, <2>1, RunnersStay DEF Core
<1>17. OwnersOK(R, job)
  <2>1. FewerOwners(S, R)
    BY <1>7 DEF EnterView
  <2> QED
    BY <1>7, <2>1, OwnersStay DEF Core
<1>18. WaitOK(R, queue, act, 1, 0, job, {}, onDone)
  <2>1. \A u \in onDone : R[u] = S[u]
    BY <1>2, <1>3, <1>7 DEF Others
  <2>2. ASSUME NEW u \in onDone
        PROVE  Len(S[u]) > 0 /\ S[u][Len(S[u])].kind = "join" /\ ~job[S[u][Len(S[u])].job].done
    <3>1. /\ Len(S[u]) > 0
          /\ \/ S[u][Len(S[u])].kind = "parallel" /\ finished < S[u][Len(S[u])].chunks
             \/ S[u][Len(S[u])].kind = "join" /\ ~job[S[u][Len(S[u])].job].done
      BY <1>7 DEF Core, WaitOK
    <3>2. S[u][Len(S[u])].kind # "parallel"
      <4>1. SUFFICES ASSUME S[u][Len(S[u])].kind = "parallel"
                     PROVE  FALSE
        OBVIOUS
      <4>2. u \in PoolThreads /\ StacksOK(S)
        BY <1>2, <1>7 DEF Core
      <4>3. PooledAt(S, u, Len(S[u])) /\ Len(S[u]) \in Nat
        BY <3>1, <4>1, <4>2, TopParallel
      <4> QED
        BY <1>8, <4>2, <4>3
    <3> QED
      BY <3>1, <3>2
  <2> QED
    BY <1>2, <2>1, <2>2 DEF WaitOK
<1>19. Core(R, act, 1, 0, queue, inFlight, job, {}, onDone)
  BY <1>7, <1>15, <1>16, <1>17, <1>18 DEF Core, EnterView
<1>20. Fresh(R, poolStack') /\ StartOK(poolStack', poolStarted')
  BY <1>1, <1>3, <1>6, StartFresh DEF PoolInv
<1>21. Core(poolStack', act, 1, 0, queue, inFlight, job, {}, onDone)
  BY <1>2, <1>19, <1>20, CoreStarts
<1> QED
  BY <1>1, <1>20, <1>21 DEF PoolInv

-----------------------------------------------------------------------------
(* Jobs that start and end. *)

\* The first job leaves the queue.
LEMMA TailQueue ==
    ASSUME NEW Q, NEW lst, QueueOK(Q, lst), Q # <<>>
    PROVE  /\ QueueOK(Tail(Q), IF Tail(Q) = <<>> THEN None ELSE lst)
           /\ Head(Q) \in Jobs /\ InQueue(Q, Head(Q))
           /\ \A j \in Jobs : InQueue(Tail(Q), j) <=> InQueue(Q, j) /\ j # Head(Q)
<1> DEFINE n == Len(Q)
           T == Tail(Q)
           h == Head(Q)
<1>1. /\ Q \in Seq(Jobs) /\ n \in Nat /\ n >= 1
      /\ \A i, k \in 1 .. n : Q[i] = Q[k] => i = k
      /\ lst = Q[n]
  BY DEF QueueOK
<1>2. /\ T \in Seq(Jobs) /\ Len(T) = n - 1 /\ h = Q[1] /\ h \in Jobs
      /\ \A i \in 1 .. n - 1 : T[i] = Q[i + 1]
  BY <1>1
<1> HIDE DEF T, h
<1>3. T = <<>> <=> n = 1
  <2>1. T = <<>> <=> Len(T) = 0
    BY <1>2
  <2>2. n - 1 = 0 <=> n = 1
    BY <1>1
  <2> QED
    BY <1>2, <2>1, <2>2
<1>4. Len(Q) = n
  OBVIOUS
<1> HIDE DEF n
<1>5. \A i, k \in 1 .. n - 1 : T[i] = T[k] => i = k
  BY <1>1, <1>2
<1>6. n # 1 => T[n - 1] = Q[n]
  BY <1>1, <1>2
<1>7. QueueOK(T, IF T = <<>> THEN None ELSE lst)
  BY <1>1, <1>2, <1>3, <1>5, <1>6 DEF QueueOK
<1>8. InQueue(Q, h)
  BY <1>1, <1>2, <1>4 DEF InQueue
<1>9. ASSUME NEW j \in Jobs
      PROVE  InQueue(T, j) <=> InQueue(Q, j) /\ j # h
  <2>1. ASSUME InQueue(T, j)
        PROVE  InQueue(Q, j) /\ j # h
    <3>1. PICK i \in 1 .. n - 1 : T[i] = j
      BY <1>2, <2>1 DEF InQueue
    <3>2. i + 1 \in 1 .. n /\ Q[i + 1] = j /\ i + 1 # 1
      BY <1>1, <1>2, <3>1
    <3> QED
      BY <1>1, <1>2, <1>4, <3>2 DEF InQueue
  <2>2. ASSUME InQueue(Q, j), j # h
        PROVE  InQueue(T, j)
    <3>1. PICK i \in 1 .. n : Q[i] = j
      BY <1>4, <2>2 DEF InQueue
    <3>2. i # 1
      BY <1>2, <2>2, <3>1
    <3>3. i - 1 \in 1 .. n - 1 /\ T[i - 1] = Q[(i - 1) + 1]
      BY <1>1, <1>2, <3>1, <3>2
    <3>4. (i - 1) + 1 = i
      BY <3>1
    <3> QED
      BY <1>2, <3>1, <3>3, <3>4 DEF InQueue
  <2> QED
    BY <2>1, <2>2
<1> QED
  BY <1>2, <1>7, <1>8, <1>9 DEF T, h

\* A job leaves the queue and runs at the place <<t, n>>.
LEMMA RunnersTake ==
    ASSUME NEW S, NEW R, NEW Q, NEW P, NEW fl, RunnersOK(S, Q, fl), fl \subseteq Jobs,
           NEW h \in Jobs, InQueue(Q, h), NEW t \in PoolThreads, NEW n \in Nat,
           \A j \in Jobs : InQueue(P, j) <=> InQueue(Q, j) /\ j # h,
           \A u \in PoolThreads : \A i \in Nat : \A j \in Jobs :
              Runs(R, u, i, j) <=> Runs(S, u, i, j) \/ (u = t /\ i = n /\ j = h)
    PROVE  RunnersOK(R, P, fl)
<1>1. \A u \in PoolThreads : \A i \in Nat : ~Runs(S, u, i, h)
  BY DEF RunnersOK
<1>2. h \in fl
  BY DEF RunnersOK
<1>3. ASSUME NEW j \in Jobs
      PROVE  InQueue(P, j) => j \in fl
  BY DEF RunnersOK
<1>4. ASSUME NEW j \in Jobs, NEW u \in PoolThreads, NEW i \in Nat, Runs(R, u, i, j)
      PROVE  j \in fl /\ ~InQueue(P, j)
  BY <1>2, <1>4 DEF RunnersOK
<1>5. ASSUME NEW j \in fl
      PROVE  InQueue(P, j) \/ \E u \in PoolThreads : \E i \in Nat : Runs(R, u, i, j)
  <2>1. j \in Jobs
    OBVIOUS
  <2>2. CASE j = h
    <3>1. Runs(R, t, n, h)
      OBVIOUS
    <3> QED
      BY <2>2, <3>1
  <2>3. CASE j # h /\ InQueue(Q, j)
    BY <2>1, <2>3
  <2>4. CASE j # h /\ ~InQueue(Q, j)
    <3>1. PICK u \in PoolThreads, i \in Nat : Runs(S, u, i, j)
      BY <2>4 DEF RunnersOK
    <3>2. Runs(R, u, i, j)
      BY <2>1, <3>1
    <3> QED
      BY <3>2
  <2> QED
    BY <2>2, <2>3, <2>4
<1>6. ASSUME NEW j \in Jobs, NEW u \in PoolThreads, NEW v \in PoolThreads,
             NEW i \in Nat, NEW k \in Nat, Runs(R, u, i, j), Runs(R, v, k, j)
      PROVE  u = v /\ i = k
  BY <1>1, <1>6 DEF RunnersOK
<1> QED
  BY <1>3, <1>4, <1>5, <1>6 DEF RunnersOK

\* The job that runs at the place <<t, n>> ends.
LEMMA RunnersDrop ==
    ASSUME NEW S, NEW R, NEW Q, NEW fl, RunnersOK(S, Q, fl), fl \subseteq Jobs,
           NEW h \in Jobs, NEW t \in PoolThreads, NEW n \in Nat, Runs(S, t, n, h),
           \A u \in PoolThreads : \A i \in Nat : \A j \in Jobs :
              Runs(R, u, i, j) <=> Runs(S, u, i, j) /\ ~(u = t /\ i = n)
    PROVE  RunnersOK(R, Q, fl \ {h}) /\ h \in fl
<1>1. h \in fl /\ ~InQueue(Q, h)
  BY DEF RunnersOK
<1>2. \A u \in PoolThreads : \A i \in Nat : ~Runs(R, u, i, h)
  BY DEF RunnersOK
<1>3. \A j \in Jobs : j # h => ~Runs(S, t, n, j)
  BY DEF Runs
<1>4. ASSUME NEW j \in Jobs
      PROVE  InQueue(Q, j) => j \in fl \ {h}
  BY <1>1 DEF RunnersOK
<1>5. ASSUME NEW j \in Jobs, NEW u \in PoolThreads, NEW i \in Nat, Runs(R, u, i, j)
      PROVE  j \in fl \ {h} /\ ~InQueue(Q, j)
  BY <1>2, <1>5 DEF RunnersOK
<1>6. ASSUME NEW j \in fl \ {h}
      PROVE  InQueue(Q, j) \/ \E u \in PoolThreads : \E i \in Nat : Runs(R, u, i, j)
  <2>1. j \in Jobs /\ j # h
    OBVIOUS
  <2>2. CASE ~InQueue(Q, j)
    <3>1. PICK u \in PoolThreads, i \in Nat : Runs(S, u, i, j)
      BY <2>2 DEF RunnersOK
    <3>2. Runs(R, u, i, j)
      BY <1>3, <2>1, <3>1
    <3> QED
      BY <3>2
  <2> QED
    BY <2>2
<1>7. ASSUME NEW j \in Jobs, NEW u \in PoolThreads, NEW v \in PoolThreads,
             NEW i \in Nat, NEW k \in Nat, Runs(R, u, i, j), Runs(R, v, k, j)
      PROVE  u = v /\ i = k
  BY <1>7 DEF RunnersOK
<1> QED
  BY <1>1, <1>4, <1>5, <1>6, <1>7 DEF RunnersOK

\* A worker leaves its loop for a chunk or a job.
LEMMA LoopEnters ==
    ASSUME NEW w \in PoolThreads, w \in Workers, StacksOK(poolStack), Len(poolStack[w]) = 1,
           NEW f \in Frames, f.kind \in {"chunk", "job"},
           NEW R, Others(poolStack, R, w), R[w] = TwoOn(poolStack[w], f)
    PROVE  EnterView(poolStack, R, w, 1) /\ R[w][1 + 1] = f /\ R[w][2] = f
<1> DEFINE n == 1
<1>1. /\ n \in Nat /\ n >= 1 /\ n = 1 /\ n + 1 = 2 /\ Odd(n) /\ ~Odd(n + 1)
      /\ n + 2 <= 2 * MaxLevel + 1 /\ Len(poolStack[w]) = n
  BY OddFacts, PoolAssumption
<1> HIDE DEF n
<1>2. poolStack[w] \in Seq(Frames)
  BY StackLen
<1>3. Two(poolStack, R, w, n, f)
  BY <1>1, <1>2, PushTwo
<1>4. /\ R[w] \in Seq(Frames) /\ Len(R[w]) = n + 2 /\ Prefix(poolStack, R, w, n)
      /\ R[w][n + 1] = f /\ R[w][n + 2] = NewBody
  BY <1>3 DEF Two
<1>5. PlaceOK(w, n + 1, R[w][n + 1])
  BY <1>1, <1>4 DEF PlaceOK
<1>6. R[w][n + 1].kind # "join"
  BY <1>4
<1>7. EnterView(poolStack, R, w, n)
  BY <1>1, <1>4, <1>5, <1>6, Enters
<1> QED
  BY <1>1, <1>4, <1>7

\* A worker that takes a job keeps the invariant.
LEMMA WorkerTakesJobKeeps ==
    ASSUME PoolInv, NEW w \in PoolThreads, WorkerTakesJob(w)
    PROVE  PoolInv'
<1> DEFINE h == Head(queue)
           f == [kind |-> "job", job |-> h]
<1>1. /\ AtKind(w, "loop") /\ queue # <<>> /\ queue' = Tail(queue)
      /\ last' = IF Tail(queue) = <<>> THEN None ELSE last
      /\ poolStack' = [poolStack EXCEPT ![w] = TwoOn(poolStack[w], f)]
      /\ UNCHANGED <<poolStarted, active, taken, finished, inFlight, job, onReady, onDone>>
  BY DEF WorkerTakesJob, parallel, TwoOn
<1>2. /\ StacksOK(poolStack) /\ inFlight \subseteq Jobs /\ DOMAIN poolStack = PoolThreads
      /\ Core(poolStack, active, taken, finished, queue, inFlight, job, onReady, onDone)
  BY PoolInvFacts
<1>3. /\ w \in Workers /\ Len(poolStack[w]) = 1 /\ poolStack[w] \in Seq(Frames)
      /\ w \notin onReady \cup onDone /\ poolStack[w] # <<>>
  BY <1>1, <1>2, AtKindIs
<1>4. /\ QueueOK(queue', last') /\ h \in Jobs /\ InQueue(queue, h)
      /\ \A j \in Jobs : InQueue(queue', j) <=> InQueue(queue, j) /\ j # h
  BY <1>1, TailQueue DEF PoolInv
<1>5. f \in Frames /\ f.kind = "job" /\ f.job = h
  BY <1>4 DEF Frames, JobFrames
<1> HIDE DEF h, f
<1>6. Others(poolStack, poolStack', w) /\ poolStack'[w] = TwoOn(poolStack[w], f)
  BY <1>1, <1>2, SetIs
<1>11. /\ EnterView(poolStack, poolStack', w, 1) /\ poolStack'[w][1 + 1] = f
       /\ poolStack'[w][2] = f
  BY <1>2, <1>3, <1>5, <1>6, LoopEnters
<1>12. ~Pooled(poolStack'[w][1 + 1]) /\ poolStack'[w][2].kind = "job" /\ 1 + 1 = 2
       /\ poolStack'[w][2].job = h
  BY <1>5, <1>11 DEF Pooled
<1>13. SameParallel(poolStack, poolStack')
  BY <1>11, <1>12 DEF EnterView, SameParallel
<1>14. RunnersOK(poolStack', queue', inFlight)
  <2>1. \A u \in PoolThreads : \A i \in Nat : \A j \in Jobs :
           Runs(poolStack', u, i, j) <=> Runs(poolStack, u, i, j) \/ (u = w /\ i = 2 /\ j = h)
    BY <1>11, <1>12 DEF EnterView
  <2>2. RunnersOK(poolStack, queue, inFlight)
    BY <1>2 DEF Core
  <2> QED
    BY <1>2, <1>4, <2>1, <2>2, RunnersTake
<1>15. OwnersOK(poolStack', job)
  <2>1. FewerOwners(poolStack, poolStack')
    BY <1>11 DEF EnterView
  <2> QED
    BY <1>2, <2>1, OwnersStay DEF Core
<1>16. ParallelOK(poolStack', active, taken, finished)
  BY <1>2, <1>13, ParallelStays DEF Core
<1>17. WaitOK(poolStack', queue', active, taken, finished, job, onReady, onDone)
  <2>1. onReady = {}
    BY <1>1, <1>2 DEF Core, WaitOK
  <2>2. \A u \in onDone : poolStack'[u] = poolStack[u]
    BY <1>3, <1>6, AwakeSet
  <2> QED
    BY <1>2, <2>1, <2>2 DEF Core, WaitOK
<1>18. Core(poolStack', active, taken, finished, queue', inFlight, job, onReady, onDone)
  BY <1>11, <1>14, <1>15, <1>16, <1>17 DEF Core, EnterView
<1>19. StartOK(poolStack', poolStarted)
  BY <1>3, <1>6, StartStays DEF PoolInv
<1> QED
  BY <1>1, <1>4, <1>18, <1>19 DEF PoolInv

\* A worker that takes a chunk keeps the invariant.
LEMMA WorkerTakesChunkKeeps ==
    ASSUME PoolInv, NEW w \in PoolThreads, WorkerTakesChunk(w)
    PROVE  PoolInv'
<1> DEFINE f == [kind |-> "chunk", call |-> active, index |-> taken]
           a == active[1]
           k == active[2]
           c == poolStack[a][k].chunks
<1>1. /\ AtKind(w, "loop") /\ queue = <<>> /\ active # None /\ taken # c
      /\ taken' = taken + 1
      /\ poolStack' = [poolStack EXCEPT ![w] = TwoOn(poolStack[w], f)]
      /\ UNCHANGED <<poolStarted, active, finished, queue, last, inFlight, job,
                     onReady, onDone>>
  BY DEF WorkerTakesChunk, dispatched, TwoOn, ChunkLeft, CallFrame
<1>2. /\ StacksOK(poolStack) /\ inFlight \subseteq Jobs /\ DOMAIN poolStack = PoolThreads
      /\ Core(poolStack, active, taken, finished, queue, inFlight, job, onReady, onDone)
  BY PoolInvFacts
<1>3. /\ w \in Workers /\ Len(poolStack[w]) = 1 /\ poolStack[w] \in Seq(Frames)
      /\ w \notin onReady \cup onDone /\ poolStack[w] # <<>>
      /\ poolStack[w][1].kind = "loop"
  BY <1>1, <1>2, AtKindIs
<1>4. ParallelOK(poolStack, active, taken, finished)
  BY <1>2 DEF Core
<1>5. /\ a \in PoolThreads /\ k \in Nat /\ active = <<a, k>>
      /\ active \in PoolThreads \X Nat
      /\ PooledAt(poolStack, a, k) /\ a \notin ChunkWorkers(poolStack)
      /\ c \in 1 .. MaxCount
      /\ taken \in Nat /\ finished \in Nat /\ MaxCount \in Nat /\ taken <= c
      /\ finished + Cardinality(ChunkWorkers(poolStack)) + One(Len(poolStack[a]) > k) = taken
  BY <1>1, <1>2, <1>4, CallIs
<1>6. f \in Frames /\ f.kind = "chunk" /\ f.call = active /\ f.index = taken
  BY <1>5 DEF Frames, ChunkFrames
<1> HIDE DEF f
<1>7. Others(poolStack, poolStack', w) /\ poolStack'[w] = TwoOn(poolStack[w], f)
  BY <1>1, <1>2, SetIs
<1>8. /\ EnterView(poolStack, poolStack', w, 1) /\ poolStack'[w][1 + 1] = f
      /\ poolStack'[w][2] = f
  BY <1>2, <1>3, <1>6, <1>7, LoopEnters
<1>9. w # a
  BY <1>3, <1>5 DEF PooledAt, Pooled
<1>10. ~ChunkOn(poolStack, w)
  BY <1>3 DEF ChunkOn
<1>11. ~Pooled(f)
  BY <1>6 DEF Pooled
<1>12. \A v \in Workers : ChunkOn(poolStack', v) <=> ChunkOn(poolStack, v) \/ v = w
  BY <1>6, <1>8 DEF EnterView
<1>13. \A u \in PoolThreads : \A i \in Nat :
          PooledAt(poolStack', u, i) <=> PooledAt(poolStack, u, i)
  BY <1>8, <1>11 DEF EnterView
<1>14. /\ PooledAt(poolStack', a, k) /\ poolStack'[a][k] = poolStack[a][k]
       /\ Len(poolStack'[a]) > k <=> Len(poolStack[a]) > k
  BY <1>5, <1>8 DEF EnterView
<1>15. /\ ChunkWorkers(poolStack') = ChunkWorkers(poolStack) \cup {w}
       /\ w \notin ChunkWorkers(poolStack)
  BY <1>3, <1>10, <1>12 DEF ChunkWorkers
<1>16. Cardinality(ChunkWorkers(poolStack')) = Cardinality(ChunkWorkers(poolStack)) + 1
  BY <1>15, ChunkWorkersFinite, FS_AddElement
<1>17. /\ finished + Cardinality(ChunkWorkers(poolStack')) + One(Len(poolStack'[a]) > k)
            = taken + 1
       /\ finished \in 0 .. taken + 1
  <2> DEFINE d == Cardinality(ChunkWorkers(poolStack))
             e == Cardinality(ChunkWorkers(poolStack'))
             o == One(Len(poolStack[a]) > k)
  <2>1. d \in Nat /\ e = d + 1 /\ o \in Nat /\ One(Len(poolStack'[a]) > k) = o
    BY <1>14, <1>16, ChunkWorkersFinite DEF One
  <2>2. finished + d + o = taken
    BY <1>5
  <2> HIDE DEF d, e, o
  <2>3. finished + e + o = taken + 1 /\ finished \in 0 .. taken + 1
    BY <1>5, <2>1, <2>2
  <2> QED
    BY <2>1, <2>3 DEF e
<1> HIDE DEF c
<1>18. taken + 1 \in 0 .. MaxCount /\ 1 <= taken + 1 /\ taken + 1 <= c
  BY <1>1, <1>5
<1>19. CallOK(poolStack', active, taken + 1, finished)
  <2>1. a \notin ChunkWorkers(poolStack')
    BY <1>5, <1>9, <1>15
  <2>2. taken + 1 <= poolStack'[a][k].chunks
    BY <1>14, <1>18 DEF c
  <2> QED
    BY <1>5, <1>14, <1>17, <1>18, <2>1, <2>2 DEF CallOK
<1>20. ParallelOK(poolStack', active, taken + 1, finished)
  <2>1. ASSUME NEW u \in PoolThreads, NEW i \in Nat, PooledAt(poolStack', u, i)
        PROVE  active = <<u, i>>
    BY <1>4, <1>13, <2>1 DEF ParallelOK
  <2>2. ASSUME NEW v \in Workers, ChunkOn(poolStack', v)
        PROVE  active # None /\ poolStack'[v][2].call = active
    <3>1. CASE v = w
      BY <1>1, <1>6, <1>8, <3>1
    <3>2. CASE v # w
      <4>1. ChunkOn(poolStack, v)
        BY <1>12, <2>2, <3>2
      <4>2. poolStack'[v][2] = poolStack[v][2]
        BY <1>8, <4>1 DEF EnterView
      <4> QED
        BY <1>4, <4>1, <4>2 DEF ParallelOK
    <3> QED
      BY <3>1, <3>2
  <2>3. ChunksOK(poolStack', a, k, taken + 1)
    <3>1. ChunksOK(poolStack, a, k, taken)
      BY <1>1, <1>4 DEF ParallelOK
    <3>2. \A v \in Workers : ChunkOn(poolStack, v) =>
             ChunkOn(poolStack', v) /\ poolStack'[v][2] = poolStack[v][2]
      BY <1>8 DEF EnterView
    <3>3. /\ ~ChunkOn(poolStack, w) /\ ChunkOn(poolStack', w) /\ poolStack'[w][2].index = taken
          /\ \A v \in Workers : ChunkOn(poolStack', v) => ChunkOn(poolStack, v) \/ v = w
      BY <1>3, <1>6, <1>8, <1>10, <1>12
    <3>4. /\ a \in PoolThreads /\ k \in Nat /\ taken \in Nat
          /\ poolStack'[a][k] = poolStack[a][k]
          /\ Len(poolStack[a]) > k <=> Len(poolStack'[a]) > k
      BY <1>5, <1>14
    <3> HIDE DEF a, k
    <3> QED
      BY <1>3, <3>1, <3>2, <3>3, <3>4, ChunksTake
  <2> QED
    BY <1>17, <1>18, <1>19, <2>1, <2>2, <2>3 DEF ParallelOK
<1>21. RunnersOK(poolStack', queue, inFlight)
  <2>1. SameRuns(poolStack, poolStack')
    BY <1>6, <1>8 DEF SameRuns, EnterView
  <2> QED
    BY <1>2, <2>1, RunnersStay DEF Core
<1>22. OwnersOK(poolStack', job)
  <2>1. FewerOwners(poolStack, poolStack')
    BY <1>8 DEF EnterView
  <2> QED
    BY <1>2, <2>1, OwnersStay DEF Core
<1>23. WaitOK(poolStack', queue, active, taken + 1, finished, job, onReady, onDone)
  <2>1. onReady = {}
    BY <1>1, <1>2 DEF Core, WaitOK, c
  <2>2. \A u \in onDone : poolStack'[u] = poolStack[u]
    BY <1>3, <1>7, AwakeSet
  <2> QED
    BY <1>2, <2>1, <2>2 DEF Core, WaitOK
<1>24. Core(poolStack', active, taken + 1, finished, queue, inFlight, job, onReady, onDone)
  BY <1>8, <1>20, <1>21, <1>22, <1>23 DEF Core, EnterView
<1>25. StartOK(poolStack', poolStarted)
  BY <1>3, <1>7, StartStays DEF PoolInv
<1> QED
  BY <1>1, <1>24, <1>25 DEF PoolInv

\* A body that ran a job ends, on a worker or in a join.
LEMMA WorkEnds ==
    ASSUME NEW t \in PoolThreads, StacksOK(poolStack), NEW kind \in {"job", "join"},
           Ended(t, kind), NEW R, Others(poolStack, R, t), R[t] = Pop(Pop(poolStack[t])),
           NEW n \in Nat, Len(poolStack[t]) = n, NEW j, j = poolStack[t][n - 1].job
    PROVE  /\ n >= 3 /\ LeaveView(poolStack, R, t, n) /\ SameParallel(poolStack, R)
           /\ j \in Jobs /\ Runs(poolStack, t, n - 1, j)
           /\ kind = "join" => Owns(poolStack, t, n - 1, j)
<1> DEFINE f == poolStack[t][n - 1]
<1>1. /\ n >= 3 /\ n >= 2 /\ Odd(n) /\ poolStack[t] \in Seq(Frames) /\ f \in Frames
      /\ f.kind = kind /\ PlaceOK(t, n - 1, f)
  BY EndedIs
<1>2. Less(poolStack, R, t, n, 2)
  BY <1>1, PopTwo
<1>3. LeaveView(poolStack, R, t, n)
  <2>1. R[t] \in Seq(Frames) /\ Len(R[t]) = n - 2 /\ Prefix(poolStack, R, t, n - 2)
    BY <1>2 DEF Less
  <2> QED
    BY <1>1, <2>1, Leaves
<1>4. n - 1 \in 1 .. Len(poolStack[t]) - 1 /\ n - 1 \in 1 .. Len(poolStack[t]) /\ n - 1 \in Nat
  BY <1>1
<1>5. j \in Jobs
  <2>1. f \in JobFrames \/ f \in JoinFrames
    BY <1>1, FrameKinds
  <2> QED
    BY <2>1 DEF JobFrames, JoinFrames
<1>6. Runs(poolStack, t, n - 1, j) /\ (kind = "join" => Owns(poolStack, t, n - 1, j))
  BY <1>1, <1>4 DEF Runs, Owns
<1>7. ~PooledAt(poolStack, t, n - 1)
  BY <1>1 DEF PooledAt, Pooled
<1>8. ~(ChunkOn(poolStack, t) /\ n = 3)
  BY <1>1 DEF ChunkOn
<1>9. SameParallel(poolStack, R)
  BY <1>3, <1>7, <1>8 DEF LeaveView, SameParallel
<1> QED
  BY <1>1, <1>3, <1>5, <1>6, <1>9

\* A job is done or freed.
LEMMA RecordsDrop ==
    ASSUME NEW fl, NEW jb, RecordsOK(fl, jb), NEW j \in Jobs, NEW r \in JobRecords \cup {None},
           r = None \/ r.done
    PROVE  RecordsOK(fl \ {j}, [jb EXCEPT ![j] = r])
<1> DEFINE b == [jb EXCEPT ![j] = r]
<1>1. /\ b \in [Jobs -> JobRecords \cup {None}] /\ b[j] = r
      /\ \A i \in Jobs : i # j => b[i] = jb[i]
  BY DEF RecordsOK
<1> HIDE DEF b
<1>2. fl \ {j} = {i \in Jobs : b[i] # None /\ ~b[i].done}
  <2>1. ASSUME NEW i \in Jobs
        PROVE  i \in fl \ {j} <=> b[i] # None /\ ~b[i].done
    <3>1. CASE i = j
      BY <1>1, <3>1
    <3>2. CASE i # j
      BY <1>1, <3>2 DEF RecordsOK
    <3> QED
      BY <3>1, <3>2
  <2> QED
    BY <2>1 DEF RecordsOK
<1>3. \A i, k \in fl \ {j} : b[i].object = b[k].object => i = k
  BY <1>1 DEF RecordsOK
<1>4. RecordsOK(fl \ {j}, b)
  BY <1>1, <1>2, <1>3 DEF RecordsOK
<1> QED
  BY <1>4 DEF b

\* A worker that ends a job keeps the invariant.
LEMMA WorkerFinishesJobKeeps ==
    ASSUME PoolInv, NEW w \in PoolThreads, WorkerFinishesJob(w)
    PROVE  PoolInv'
<1> DEFINE n == Len(poolStack[w])
           j == poolStack[w][n - 1].job
           r == [job[j] EXCEPT !.done = TRUE]
<1>1. /\ StacksOK(poolStack) /\ inFlight \subseteq Jobs /\ DOMAIN poolStack = PoolThreads
      /\ Core(poolStack, active, taken, finished, queue, inFlight, job, onReady, onDone)
  BY PoolInvFacts
<1>2. Ended(w, "job")
  BY DEF WorkerFinishesJob
<1>3. /\ n \in Nat /\ n >= 3 /\ poolStack[w] \in Seq(Frames)
      /\ w \notin onReady \cup onDone /\ poolStack[w] # <<>>
  BY <1>1, <1>2, EndedIs
<1>4. /\ job' = [job EXCEPT ![j].done = TRUE] /\ inFlight' = inFlight \ {j}
      /\ poolStack' = [poolStack EXCEPT ![w] = Pop(Pop(poolStack[w]))]
      /\ onDone' = {}
      /\ UNCHANGED <<poolStarted, active, taken, finished, queue, last, onReady>>
  <2> DEFINE m == Len(poolStack[w]) - 1
             p == Pop(poolStack[w])
  <2>1. Len(p) = m
    BY <1>3, PopIs
  <2>2. p[m] = poolStack[w][n - 1]
    BY <1>1, <1>2, <2>1, BelowIs
  <2> QED
    BY <2>2 DEF WorkerFinishesJob, FinishOne, parallel
<1>5. Others(poolStack, poolStack', w) /\ poolStack'[w] = Pop(Pop(poolStack[w]))
  BY <1>1, <1>4, SetIs
<1>6. Len(poolStack[w]) = n /\ j = poolStack[w][n - 1].job
  OBVIOUS
<1> HIDE DEF n, j
<1>7. /\ LeaveView(poolStack, poolStack', w, n) /\ SameParallel(poolStack, poolStack')
      /\ j \in Jobs /\ Runs(poolStack, w, n - 1, j)
  BY <1>1, <1>2, <1>3, <1>5, <1>6, WorkEnds
<1>8. n - 1 \in Nat
  BY <1>3
<1>9. /\ \A u \in PoolThreads : \A i \in Nat : \A x \in Jobs :
           Runs(poolStack', u, i, x) <=> Runs(poolStack, u, i, x) /\ ~(u = w /\ i = n - 1)
      /\ FewerOwners(poolStack, poolStack') /\ StacksOK(poolStack')
  BY <1>7 DEF LeaveView
<1>10. RunnersOK(poolStack', queue, inFlight \ {j}) /\ j \in inFlight
  <2>1. RunnersOK(poolStack, queue, inFlight)
    BY <1>1 DEF Core
  <2> QED
    BY <1>1, <1>7, <1>8, <1>9, <2>1, RunnersDrop
<1>11. /\ RecordsOK(inFlight, job) /\ job \in [Jobs -> JobRecords \cup {None}]
       /\ job[j] \in JobRecords
  BY <1>10 DEF PoolInv, RecordsOK
<1>12. r \in JobRecords /\ r.done
  BY <1>11 DEF JobRecords
<1>13. job' = [job EXCEPT ![j] = r]
  BY <1>4, <1>7, <1>11
<1> HIDE DEF r
<1>14. RecordsOK(inFlight \ {j}, job')
  BY <1>7, <1>11, <1>12, <1>13, RecordsDrop
<1>15. OwnersOK(poolStack', job')
  <2>1. OwnersOK(poolStack', job)
    BY <1>1, <1>9, OwnersStay DEF Core
  <2>2. \A x \in Jobs : job[x] # None => job'[x] # None
    BY <1>11, <1>12, <1>13, PoolAssumption
  <2> QED
    BY <2>1, <2>2 DEF OwnersOK
<1>16. ParallelOK(poolStack', active, taken, finished)
  BY <1>1, <1>7, ParallelStays DEF Core
<1>17. WaitOK(poolStack', queue, active, taken, finished, job', onReady, {})
  <2>1. \A u \in onReady \cup onDone : poolStack'[u] = poolStack[u]
    BY <1>3, <1>5, AwakeSet
  <2>2. active # None => poolStack'[active[1]][active[2]] = poolStack[active[1]][active[2]]
    BY <1>1, <1>7, CallIs DEF SameParallel, Core
  <2> QED
    BY <1>1, <2>1, <2>2 DEF Core, WaitOK
<1>18. Core(poolStack', active, taken, finished, queue, inFlight \ {j}, job', onReady, {})
  BY <1>9, <1>10, <1>15, <1>16, <1>17 DEF Core
<1>19. StartOK(poolStack', poolStarted)
  BY <1>3, <1>5, StartStays DEF PoolInv
<1> QED
  BY <1>4, <1>14, <1>18, <1>19 DEF PoolInv

\* A join that ran its job itself keeps the invariant.
LEMMA JoinRanKeeps ==
    ASSUME PoolInv, NEW t \in PoolThreads, JoinRan(t)
    PROVE  PoolInv'
<1> DEFINE n == Len(poolStack[t])
           j == poolStack[t][n - 1].job
<1>1. /\ StacksOK(poolStack) /\ inFlight \subseteq Jobs /\ DOMAIN poolStack = PoolThreads
      /\ Core(poolStack, active, taken, finished, queue, inFlight, job, onReady, onDone)
  BY PoolInvFacts
<1>2. Ended(t, "join")
  BY DEF JoinRan
<1>3. /\ n \in Nat /\ n >= 3 /\ poolStack[t] \in Seq(Frames)
      /\ t \notin onReady \cup onDone /\ poolStack[t] # <<>>
  BY <1>1, <1>2, EndedIs
<1>4. /\ job' = [job EXCEPT ![j] = None] /\ inFlight' = inFlight \ {j}
      /\ poolStack' = [poolStack EXCEPT ![t] = Pop(Pop(poolStack[t]))]
      /\ onDone' = {}
      /\ UNCHANGED <<poolStarted, active, taken, finished, queue, last, onReady>>
  <2>1. Pop(poolStack[t])[Len(Pop(poolStack[t]))] = poolStack[t][n - 1]
    BY <1>1, <1>2, BelowIs
  <2> QED
    BY <2>1 DEF JoinRan, parallel
<1>5. Others(poolStack, poolStack', t) /\ poolStack'[t] = Pop(Pop(poolStack[t]))
  BY <1>1, <1>4, SetIs
<1>6. Len(poolStack[t]) = n /\ j = poolStack[t][n - 1].job
  OBVIOUS
<1> HIDE DEF n, j
<1>7. /\ LeaveView(poolStack, poolStack', t, n) /\ SameParallel(poolStack, poolStack')
      /\ j \in Jobs /\ Runs(poolStack, t, n - 1, j) /\ Owns(poolStack, t, n - 1, j)
  BY <1>1, <1>2, <1>3, <1>5, <1>6, WorkEnds
<1>8. n - 1 \in Nat
  BY <1>3
<1>9. /\ \A u \in PoolThreads : \A i \in Nat : \A x \in Jobs :
           /\ Runs(poolStack', u, i, x) <=> Runs(poolStack, u, i, x) /\ ~(u = t /\ i = n - 1)
           /\ Owns(poolStack', u, i, x) => ~(u = t /\ i = n - 1)
      /\ FewerOwners(poolStack, poolStack') /\ StacksOK(poolStack')
  BY <1>7 DEF LeaveView
<1>10. RunnersOK(poolStack', queue, inFlight \ {j}) /\ j \in inFlight
  <2>1. RunnersOK(poolStack, queue, inFlight)
    BY <1>1 DEF Core
  <2> QED
    BY <1>1, <1>7, <1>8, <1>9, <2>1, RunnersDrop
<1>11. RecordsOK(inFlight \ {j}, job')
  <2>1. RecordsOK(inFlight, job) /\ None \in JobRecords \cup {None}
    BY DEF PoolInv
  <2> QED
    BY <1>4, <1>7, <2>1, RecordsDrop
<1>12. OwnersOK(poolStack', job')
  <2>1. OwnersOK(poolStack', job) /\ OwnersOK(poolStack, job)
    BY <1>1, <1>9, OwnersStay DEF Core
  <2>2. \A u \in PoolThreads : \A i \in Nat : ~Owns(poolStack', u, i, j)
    BY <1>7, <1>8, <1>9, <2>1 DEF OwnersOK, FewerOwners
  <2>3. \A x \in Jobs : x # j => job'[x] = job[x]
    BY <1>4 DEF PoolInv, RecordsOK
  <2>4. ASSUME NEW x \in Jobs, NEW u \in PoolThreads, NEW i \in Nat, Owns(poolStack', u, i, x)
        PROVE  job'[x] # None
    <3>1. x # j
      BY <2>2, <2>4
    <3> QED
      BY <2>1, <2>3, <2>4, <3>1 DEF OwnersOK
  <2> QED
    BY <2>1, <2>4 DEF OwnersOK
<1>13. ParallelOK(poolStack', active, taken, finished)
  BY <1>1, <1>7, ParallelStays DEF Core
<1>14. WaitOK(poolStack', queue, active, taken, finished, job', onReady, {})
  <2>1. \A u \in onReady \cup onDone : poolStack'[u] = poolStack[u]
    BY <1>3, <1>5, AwakeSet
  <2>2. active # None => poolStack'[active[1]][active[2]] = poolStack[active[1]][active[2]]
    BY <1>1, <1>7, CallIs DEF SameParallel, Core
  <2> QED
    BY <1>1, <2>1, <2>2 DEF Core, WaitOK
<1>15. Core(poolStack', active, taken, finished, queue, inFlight \ {j}, job', onReady, {})
  BY <1>9, <1>10, <1>12, <1>13, <1>14 DEF Core
<1>16. StartOK(poolStack', poolStarted)
  BY <1>3, <1>5, StartStays DEF PoolInv
<1> QED
  BY <1>4, <1>11, <1>15, <1>16 DEF PoolInv

\* A worker that ends a chunk keeps the invariant.
LEMMA WorkerFinishesChunkKeeps ==
    ASSUME PoolInv, NEW w \in PoolThreads, WorkerFinishesChunk(w)
    PROVE  PoolInv'
<1> DEFINE n == Len(poolStack[w])
           chunk == poolStack[w][n - 1]
           a == active[1]
           k == active[2]
           f == poolStack[a][k]
           g == Ran(f, chunk.index)
           S == [poolStack EXCEPT ![a] = [poolStack[a] EXCEPT ![k] = g]]
<1>1. /\ StacksOK(poolStack) /\ inFlight \subseteq Jobs /\ DOMAIN poolStack = PoolThreads
      /\ Core(poolStack, active, taken, finished, queue, inFlight, job, onReady, onDone)
      /\ ParallelOK(poolStack, active, taken, finished)
  BY PoolInvFacts DEF Core
<1>2. Ended(w, "chunk")
  BY DEF WorkerFinishesChunk
<1>3. /\ n \in Nat /\ n >= 3 /\ n >= 2 /\ Odd(n) /\ poolStack[w] \in Seq(Frames)
      /\ w \notin onReady \cup onDone /\ poolStack[w] # <<>>
      /\ chunk.kind = "chunk" /\ PlaceOK(w, n - 1, chunk)
  BY <1>1, <1>2, EndedIs
<1>4. w \in Workers /\ n = 3
  <2> HIDE DEF n
  <2>1. ~Odd(n - 1) /\ n - 1 \in Nat
    <3>1. n >= 1
      BY <1>3
    <3> QED
      BY <1>3, <3>1, OddFacts
  <2>2. w \in Workers /\ n - 1 = 2
    BY <1>3, <2>1 DEF PlaceOK
  <2> QED
    BY <1>3, <2>2
<1>5. ChunkOn(poolStack, w) /\ active # None /\ chunk.call = active
  <2>1. n - 1 = 2
    BY <1>4
  <2>2. ChunkOn(poolStack, w)
    BY <1>3, <2>1 DEF ChunkOn
  <2> QED
    BY <1>1, <1>4, <2>1, <2>2 DEF ParallelOK
<1>6. /\ a \in PoolThreads /\ k \in Nat /\ active = <<a, k>>
      /\ active \in PoolThreads \X Nat
      /\ PooledAt(poolStack, a, k) /\ a \notin ChunkWorkers(poolStack)
      /\ f \in ParallelFrames /\ f.chunks \in 1 .. MaxCount
      /\ taken \in Nat /\ finished \in Nat /\ MaxCount \in Nat
      /\ 1 <= taken /\ taken <= f.chunks
      /\ finished + Cardinality(ChunkWorkers(poolStack)) + One(Len(poolStack[a]) > k) = taken
  BY <1>1, <1>5, CallIs
<1>7. a # w /\ w \in ChunkWorkers(poolStack)
  BY <1>4, <1>5, <1>6 DEF ChunkWorkers
<1>8. /\ poolStack' = [poolStack EXCEPT ![w] = Pop(Pop(@)), ![a][k] = Ran(@, chunk.index)]
      /\ finished' = finished + 1 /\ onDone' = {}
      /\ UNCHANGED <<poolStarted, active, taken, queue, last, inFlight, job, onReady>>
  <2> DEFINE m == Len(poolStack[w]) - 1
             p == Pop(poolStack[w])
  <2>1. Len(p) = m
    BY <1>3, PopIs
  <2>2. p[m] = chunk
    BY <1>1, <1>2, <2>1, BelowIs
  <2> QED
    BY <1>5, <2>2 DEF WorkerFinishesChunk, dispatched
<1>9. /\ DOMAIN poolStack' = PoolThreads
      /\ poolStack'[w] = Pop(Pop(poolStack[w]))
      /\ poolStack'[a] = [poolStack[a] EXCEPT ![k] = g]
      /\ \A u \in PoolThreads : u # w /\ u # a => poolStack'[u] = poolStack[u]
  BY <1>1, <1>6, <1>7, <1>8
<1>10. Others(poolStack, S, a) /\ S[a] = [poolStack[a] EXCEPT ![k] = g]
  <2> DEFINE s == [poolStack[a] EXCEPT ![k] = g]
  <2>1. S = [poolStack EXCEPT ![a] = s]
    OBVIOUS
  <2> HIDE DEF s, S, a
  <2>2. Others(poolStack, S, a) /\ S[a] = s
    BY <1>1, <1>6, <2>1, SetIs
  <2> QED
    BY <2>2 DEF s
<1>11. /\ g \in Frames /\ Pooled(g) /\ g.chunks = f.chunks
  <2> HIDE DEF f
  <2>1. ~f.inline
    BY <1>6 DEF PooledAt, Pooled, f
  <2>2. /\ g \in ParallelFrames /\ g.kind = "parallel" /\ g.inline = f.inline
        /\ g.chunks = f.chunks
    <3> DEFINE index == chunk.index
    <3>1. g = Ran(f, index)
      OBVIOUS
    <3> HIDE DEF g, index
    <3> QED
      BY <1>6, <2>1, <3>1, RanIs
  <2> QED
    BY <2>1, <2>2 DEF Pooled, Frames
<1> HIDE DEF S
<1> HIDE DEF g
<1>12. /\ S[a] \in Seq(Frames) /\ Len(S[a]) = Len(poolStack[a]) /\ S[a][k] = g
       /\ \A i \in 1 .. Len(poolStack[a]) : i # k => S[a][i] = poolStack[a][i]
  <2>1. k \in 1 .. Len(poolStack[a]) /\ poolStack[a] \in Seq(Frames)
    BY <1>1, <1>6, StackLen DEF PooledAt
  <2> QED
    BY <1>10, <1>11, <2>1
<1>13. CountView(poolStack, S, a, k)
  BY <1>1, <1>6, <1>10, <1>11, <1>12, Counts
<1>14. /\ Others(S, poolStack', w) /\ S[w] = poolStack[w]
       /\ poolStack'[w] = Pop(Pop(S[w])) /\ poolStack'[a] = S[a]
  BY <1>7, <1>9, <1>10 DEF Others
<1>15. S[w] \in Seq(Frames) /\ Len(S[w]) = n /\ StacksOK(S)
  BY <1>3, <1>13, <1>14 DEF CountView
<1>16. chunk = poolStack[w][n - 1] /\ Len(poolStack[w]) = n
  OBVIOUS
<1> HIDE DEF n, chunk, f
<1>17. LeaveView(S, poolStack', w, n)
  <2>1. Less(S, poolStack', w, n, 2)
    BY <1>3, <1>14, <1>15, PopTwo
  <2>2. /\ poolStack'[w] \in Seq(Frames) /\ Len(poolStack'[w]) = n - 2
        /\ Prefix(S, poolStack', w, n - 2)
    BY <2>1 DEF Less
  <2> QED
    BY <1>3, <1>14, <1>15, <2>2, Leaves
<1>18. \A u \in PoolThreads : \A i \in Nat :
          PooledAt(poolStack', u, i) <=> PooledAt(poolStack, u, i)
  <2>1. ~PooledAt(poolStack, w, n - 1)
    BY <1>3, <1>16 DEF PooledAt, Pooled
  <2> QED
    BY <1>13, <1>17, <2>1 DEF CountView, LeaveView
<1>19. SameRuns(poolStack, poolStack')
  <2>1. \A j \in Jobs : ~Runs(poolStack, w, n - 1, j)
    BY <1>3, <1>16 DEF Runs
  <2> QED
    BY <1>13, <1>17, <2>1 DEF CountView, LeaveView, SameRuns
<1>20. FewerOwners(poolStack, poolStack')
  BY <1>13, <1>17 DEF CountView, LeaveView, FewerOwners
<1>21. \A v \in Workers :
         /\ ChunkOn(poolStack', v) <=> ChunkOn(poolStack, v) /\ v # w
         /\ ChunkOn(poolStack', v) => poolStack'[v][2] = poolStack[v][2]
  BY <1>4, <1>13, <1>17 DEF CountView, LeaveView
<1>22. /\ PooledAt(poolStack', a, k) /\ poolStack'[a][k] = g
       /\ Len(poolStack'[a]) = Len(poolStack[a])
  BY <1>6, <1>12, <1>14, <1>18
<1>23. ChunkWorkers(poolStack') = ChunkWorkers(poolStack) \ {w}
  BY <1>21 DEF ChunkWorkers
<1>24. /\ (finished + 1) + Cardinality(ChunkWorkers(poolStack')) + One(Len(poolStack'[a]) > k)
            = taken
       /\ finished + 1 \in 0 .. taken
  <2> DEFINE d == Cardinality(ChunkWorkers(poolStack))
             e == Cardinality(ChunkWorkers(poolStack'))
             o == One(Len(poolStack[a]) > k)
  <2>1. d \in Nat /\ e \in Nat /\ o \in Nat /\ One(Len(poolStack'[a]) > k) = o
    BY <1>22, ChunkWorkersFinite DEF One
  <2>2. e = d - 1
    BY <1>7, <1>23, ChunkWorkersFinite, FS_RemoveElement
  <2>3. finished + d + o = taken
    BY <1>6
  <2> HIDE DEF d, e, o
  <2>4. (finished + 1) + e + o = taken /\ finished + 1 \in 0 .. taken
    BY <1>6, <2>1, <2>2, <2>3
  <2> QED
    BY <2>1, <2>4 DEF e
<1>25. CallOK(poolStack', active, taken, finished + 1)
  <2>1. a \notin ChunkWorkers(poolStack')
    BY <1>6, <1>23
  <2>2. taken <= poolStack'[a][k].chunks
    BY <1>6, <1>11, <1>22
  <2> QED
    BY <1>6, <1>22, <1>24, <2>1, <2>2 DEF CallOK
<1>26. ParallelOK(poolStack', active, taken, finished + 1)
  <2>1. ASSUME NEW u \in PoolThreads, NEW i \in Nat, PooledAt(poolStack', u, i)
        PROVE  active = <<u, i>>
    BY <1>1, <1>18, <2>1 DEF ParallelOK
  <2>2. ASSUME NEW v \in Workers, ChunkOn(poolStack', v)
        PROVE  active # None /\ poolStack'[v][2].call = active
    BY <1>1, <1>21, <2>2 DEF ParallelOK
  <2>3. taken \in 0 .. MaxCount
    BY <1>1 DEF ParallelOK
  <2>4. ChunksOK(poolStack', a, k, taken)
    <3>1. ChunksOK(poolStack, a, k, taken)
      BY <1>1, <1>5 DEF ParallelOK
    <3>2. poolStack[a][k] \in ParallelFrames
      BY <1>6 DEF f
    <3>3. poolStack'[a][k] = Ran(poolStack[a][k], poolStack[w][2].index)
      <4>1. n - 1 = 2
        BY <1>4
      <4> QED
        BY <1>16, <1>22, <4>1 DEF g, f
    <3>4. a \in PoolThreads /\ k \in Nat /\ taken \in Nat
      BY <1>6
    <3>5. Len(poolStack[a]) > k <=> Len(poolStack'[a]) > k
      BY <1>22
    <3> HIDE DEF a, k
    <3> QED
      BY <1>4, <1>5, <1>21, <3>1, <3>2, <3>3, <3>4, <3>5, ChunksFinish
  <2> QED
    BY <1>24, <1>25, <2>1, <2>2, <2>3, <2>4 DEF ParallelOK
<1>27. RunnersOK(poolStack', queue, inFlight)
  BY <1>1, <1>19, RunnersStay DEF Core
<1>28. OwnersOK(poolStack', job)
  BY <1>1, <1>20, OwnersStay DEF Core
<1>29. WaitOK(poolStack', queue, active, taken, finished + 1, job, onReady, {})
  <2>1. onReady \subseteq Workers /\ Workers \subseteq PoolThreads
    BY <1>1 DEF Core, WaitOK, PoolThreads
  <2>2. ASSUME NEW u \in onReady
        PROVE  Len(poolStack'[u]) = 1
    <3>1. u # w /\ u \in PoolThreads
      BY <1>3, <2>1
    <3>2. poolStack'[u] = S[u] /\ Len(S[u]) = Len(poolStack[u])
      BY <1>13, <1>14, <3>1 DEF Others, CountView
    <3>3. Len(poolStack[u]) = 1
      BY <1>1 DEF Core, WaitOK
    <3> QED
      BY <3>2, <3>3
  <2>3. poolStack'[active[1]][active[2]].chunks = poolStack[active[1]][active[2]].chunks
    BY <1>11, <1>22 DEF f
  <2> QED
    BY <1>1, <2>1, <2>2, <2>3 DEF Core, WaitOK
<1>30. Core(poolStack', active, taken, finished + 1, queue, inFlight, job, onReady, {})
  BY <1>17, <1>26, <1>27, <1>28, <1>29 DEF Core, LeaveView
<1>31. StartOK(poolStack', poolStarted)
  <2>1. StartOK(S, poolStarted)
    <3>1. poolStack[a] # <<>>
      BY <1>6 DEF PooledAt
    <3> QED
      BY <1>6, <1>10, <3>1, StartStays DEF PoolInv
  <2>2. S[w] # <<>>
    BY <1>3, <1>14
  <2> QED
    BY <1>14, <2>1, <2>2, StartStays
<1> QED
  BY <1>8, <1>30, <1>31 DEF PoolInv

-----------------------------------------------------------------------------
(* dispatch. *)

\* The job goes to the end of the queue.
LEMMA EnqueueIs ==
    ASSUME QueueOK(queue, last), NEW j \in Jobs, ~InQueue(queue, j), Enqueue(j)
    PROVE  /\ QueueOK(queue', last')
           /\ \A x \in Jobs : InQueue(queue', x) <=> InQueue(queue, x) \/ x = j
<1> DEFINE n == Len(queue)
           P == Append(queue, j)
<1>1. /\ queue \in Seq(Jobs) /\ n \in Nat /\ DOMAIN queue = 1 .. n /\ Len(queue) = n
      /\ \A i, k \in 1 .. n : queue[i] = queue[k] => i = k
      /\ last = IF queue = <<>> THEN None ELSE queue[n]
      /\ \A i \in 1 .. n : queue[i] # j
  BY DEF QueueOK, InQueue
<1>2. last' = j /\ queue' = P
  <2>1. CASE queue = <<>>
    <3>1. last = None /\ P = <<j>>
      BY <1>1, <2>1
    <3> QED
      BY <3>1 DEF Enqueue
  <2>2. CASE queue # <<>>
    <3>1. n >= 1 /\ last = queue[n] /\ n \in DOMAIN queue
      BY <1>1, <2>2
    <3>2. last # None
      BY <1>1, <3>1, PoolAssumption
    <3> DEFINE at == CHOOSE i \in DOMAIN queue : queue[i] = last
    <3>3. at \in DOMAIN queue /\ queue[at] = last
      BY <3>1
    <3>4. at = n
      <4> HIDE DEF at, n
      <4> QED
        BY <1>1, <3>1, <3>3
    <3>5. queue' = Append(SubSeq(queue, 1, at), j) /\ last' = j
      BY <3>1, <3>2 DEF Enqueue
    <3>6. SubSeq(queue, 1, n) = queue
      BY <1>1
    <3> HIDE DEF at
    <3> QED
      BY <3>4, <3>5, <3>6
  <2> QED
    BY <2>1, <2>2
<1>3. /\ P \in Seq(Jobs) /\ Len(P) = n + 1 /\ P[n + 1] = j /\ P # <<>>
      /\ \A i \in 1 .. n : P[i] = queue[i]
  BY <1>1
<1> HIDE DEF n, P
<1>4. ASSUME NEW i \in 1 .. n + 1, NEW k \in 1 .. n + 1, P[i] = P[k]
      PROVE  i = k
  <2>1. CASE i = n + 1 /\ k = n + 1
    BY <2>1
  <2>2. CASE i = n + 1 /\ k # n + 1
    <3>1. k \in 1 .. n
      BY <1>1, <2>2
    <3> QED
      BY <1>1, <1>3, <1>4, <2>2, <3>1
  <2>3. CASE i # n + 1 /\ k = n + 1
    <3>1. i \in 1 .. n
      BY <1>1, <2>3
    <3> QED
      BY <1>1, <1>3, <1>4, <2>3, <3>1
  <2>4. CASE i # n + 1 /\ k # n + 1
    <3>1. i \in 1 .. n /\ k \in 1 .. n
      BY <1>1, <2>4
    <3> QED
      BY <1>1, <1>3, <1>4, <3>1
  <2> QED
    BY <2>1, <2>2, <2>3, <2>4
<1>5. QueueOK(P, j)
  BY <1>3, <1>4 DEF QueueOK
<1>6. ASSUME NEW x \in Jobs
      PROVE  InQueue(P, x) <=> InQueue(queue, x) \/ x = j
  <2>1. ASSUME InQueue(P, x)
        PROVE  InQueue(queue, x) \/ x = j
    <3>1. PICK i \in 1 .. n + 1 : P[i] = x
      BY <1>3, <2>1 DEF InQueue
    <3>2. CASE i = n + 1
      BY <1>3, <3>1, <3>2
    <3>3. CASE i # n + 1
      <4>1. i \in 1 .. n
        BY <1>1, <3>3
      <4> QED
        BY <1>1, <1>3, <3>1, <4>1 DEF InQueue
    <3> QED
      BY <3>2, <3>3
  <2>2. ASSUME InQueue(queue, x)
        PROVE  InQueue(P, x)
    <3>1. PICK i \in 1 .. n : queue[i] = x
      BY <1>1, <2>2 DEF InQueue
    <3>2. i \in 1 .. n + 1 /\ P[i] = x
      BY <1>1, <1>3, <3>1
    <3> QED
      BY <1>3, <3>2 DEF InQueue
  <2>3. ASSUME x = j
        PROVE  InQueue(P, x)
    <3>1. n + 1 \in 1 .. n + 1
      BY <1>1
    <3> QED
      BY <1>3, <2>3, <3>1 DEF InQueue
  <2> QED
    BY <2>1, <2>2, <2>3
<1> QED
  BY <1>2, <1>5, <1>6

\* A join on top of a stack owns its job.
LEMMA TopJoin ==
    ASSUME NEW S, NEW u \in PoolThreads, StacksOK(S), Len(S[u]) > 0,
           S[u][Len(S[u])].kind = "join"
    PROVE  /\ S[u][Len(S[u])].job \in Jobs /\ Len(S[u]) \in Nat
           /\ Owns(S, u, Len(S[u]), S[u][Len(S[u])].job)
<1> DEFINE n == Len(S[u])
           f == S[u][n]
<1>1. n \in Nat
  BY StackLen
<1>2. n \in 1 .. n
  BY <1>1
<1>3. f \in Frames
  BY <1>2, StackLen
<1>4. f \in JoinFrames
  BY <1>3, FrameKinds
<1>5. f.job \in Jobs
  BY <1>4 DEF JoinFrames
<1> QED
  BY <1>1, <1>2, <1>5 DEF Owns

\* A dispatch keeps the invariant.
LEMMA DispatchKeeps ==
    ASSUME PoolInv, NEW t \in PoolThreads, NEW object \in Objects, NEW j \in Jobs,
           NEW fresh \in SUBSET Workers, Dispatch(t, object, j, fresh)
    PROVE  PoolInv'
<1> DEFINE n == Len(poolStack[t])
           J == TopFrame(t).jobs \cup {j}
           g == [Called(t) EXCEPT !.jobs = Called(t).jobs \cup {j}]
           S == [poolStack EXCEPT ![t] = SetTop(poolStack[t], g)]
           r == [object |-> object, done |-> FALSE]
<1>1. /\ MayCall(t) /\ ~Flying(object) /\ job[j] = None
      /\ job' = [job EXCEPT ![j] = r] /\ inFlight' = inFlight \cup {j} /\ Enqueue(j)
      /\ onReady' = {} /\ Start(fresh, S)
      /\ UNCHANGED <<active, taken, finished, onDone>>
  BY DEF Dispatch, parallel
<1>2. /\ StacksOK(poolStack) /\ inFlight \subseteq Jobs /\ DOMAIN poolStack = PoolThreads
      /\ onReady \subseteq Workers /\ onDone \subseteq PoolThreads
      /\ Core(poolStack, active, taken, finished, queue, inFlight, job, onReady, onDone)
  BY PoolInvFacts
<1>3. /\ n \in Nat /\ n >= 1 /\ TopFrame(t) = poolStack[t][n]
      /\ t \notin onReady \cup onDone /\ poolStack[t] # <<>>
      /\ TopFrame(t) \in Codes /\ TopFrame(t).kind \in {"main", "body"}
      /\ Called(t) \in Codes /\ Called(t).kind = TopFrame(t).kind
      /\ Called(t).jobs = TopFrame(t).jobs
  BY <1>1, <1>2, MayCallIs
<1>4. g \in Codes /\ g.kind = TopFrame(t).kind /\ g.jobs = J
  <2>1. J \in SUBSET Jobs
    BY <1>3 DEF Codes
  <2>2. g = [Called(t) EXCEPT !.jobs = J]
    BY <1>3
  <2> HIDE DEF g, J
  <2> QED
    BY <1>3, <2>1, <2>2, JobsIs
<1> HIDE DEF g
<1>5. Others(poolStack, S, t) /\ S[t] = SetTop(poolStack[t], g)
  BY <1>2, SetIs
<1> HIDE DEF S
<1>6. /\ StacksOK(S) /\ SameParallel(poolStack, S) /\ SameRuns(poolStack, S)
      /\ \A u \in PoolThreads : \A i \in Nat : \A x \in Jobs :
           Owns(S, u, i, x) <=> IF u = t /\ i = n THEN x \in J ELSE Owns(poolStack, u, i, x)
  <2>1. /\ StacksOK(S) /\ SameParallel(poolStack, S) /\ SameRuns(poolStack, S)
        /\ \A u \in PoolThreads : \A i \in Nat : \A x \in Jobs :
             Owns(S, u, i, x) <=> IF u = t /\ i = Len(poolStack[t]) THEN x \in g.jobs
                                  ELSE Owns(poolStack, u, i, x)
    BY <1>1, <1>2, <1>4, <1>5, CodeSet
  <2> QED
    BY <1>4, <2>1
<1>7. Len(poolStack[t]) = n
  OBVIOUS
<1> HIDE DEF n
<1>8. j \notin inFlight /\ RecordsOK(inFlight, job) /\ job \in [Jobs -> JobRecords \cup {None}]
  BY <1>1 DEF PoolInv, RecordsOK
<1>9. ~InQueue(queue, j) /\ RunnersOK(poolStack, queue, inFlight)
  BY <1>2, <1>8 DEF Core, RunnersOK
<1>10. /\ QueueOK(queue', last')
       /\ \A x \in Jobs : InQueue(queue', x) <=> InQueue(queue, x) \/ x = j
  BY <1>1, <1>9, EnqueueIs DEF PoolInv
<1>11. r \in JobRecords /\ ~r.done /\ r.object = object /\ r # None
  <2>1. r \in JobRecords /\ ~r.done /\ r.object = object
    BY DEF JobRecords
  <2> HIDE DEF r
  <2> QED
    BY <2>1, PoolAssumption
<1> HIDE DEF r
<1>12. /\ job' \in [Jobs -> JobRecords \cup {None}] /\ job'[j] = r
       /\ \A x \in Jobs : x # j => job'[x] = job[x]
  BY <1>1, <1>8, <1>11
<1>13. RecordsOK(inFlight \cup {j}, job')
  <2>1. inFlight \cup {j} = {x \in Jobs : job'[x] # None /\ ~job'[x].done}
    <3>1. ASSUME NEW x \in Jobs
          PROVE  x \in inFlight \cup {j} <=> job'[x] # None /\ ~job'[x].done
      <4>1. CASE x = j
        BY <1>11, <1>12, <4>1
      <4>2. CASE x # j
        BY <1>8, <1>12, <4>2 DEF RecordsOK
      <4> QED
        BY <4>1, <4>2
    <3> QED
      BY <1>2, <3>1
  <2>2. \A x \in inFlight : job[x].object # object
    BY <1>1 DEF Flying
  <2>3. ASSUME NEW x \in inFlight \cup {j}, NEW y \in inFlight \cup {j},
               job'[x].object = job'[y].object
        PROVE  x = y
    <3>1. CASE x = j /\ y = j
      BY <3>1
    <3>2. CASE x = j /\ y # j
      BY <1>2, <1>11, <1>12, <2>2, <2>3, <3>2
    <3>3. CASE x # j /\ y = j
      BY <1>2, <1>11, <1>12, <2>2, <2>3, <3>3
    <3>4. CASE x # j /\ y # j
      BY <1>2, <1>8, <1>12, <2>3, <3>4 DEF RecordsOK
    <3> QED
      BY <3>1, <3>2, <3>3, <3>4
  <2> QED
    BY <1>12, <2>1, <2>3 DEF RecordsOK
<1>14. RunnersOK(S, queue', inFlight \cup {j})
  <2>1. RunnersOK(S, queue, inFlight)
    BY <1>2, <1>6, <1>9, RunnersStay
  <2>2. \A u \in PoolThreads : \A i \in Nat : ~Runs(S, u, i, j)
    BY <1>8, <2>1 DEF RunnersOK
  <2>3. ASSUME NEW x \in Jobs
        PROVE  InQueue(queue', x) => x \in inFlight \cup {j}
    BY <1>10, <2>1 DEF RunnersOK
  <2>4. ASSUME NEW x \in Jobs, NEW u \in PoolThreads, NEW i \in Nat, Runs(S, u, i, x)
        PROVE  x \in inFlight \cup {j} /\ ~InQueue(queue', x)
    BY <1>10, <2>1, <2>2, <2>4 DEF RunnersOK
  <2>5. ASSUME NEW x \in inFlight \cup {j}
        PROVE  InQueue(queue', x) \/ \E u \in PoolThreads : \E i \in Nat : Runs(S, u, i, x)
    BY <1>2, <1>10, <2>1 DEF RunnersOK
  <2> QED
    BY <2>1, <2>3, <2>4, <2>5 DEF RunnersOK
<1>15. OwnersOK(S, job')
  <2>1. OwnersOK(poolStack, job)
    BY <1>2 DEF Core
  <2>2. \A u \in PoolThreads : \A i \in Nat : ~Owns(poolStack, u, i, j)
    BY <1>1, <2>1 DEF OwnersOK
  <2>3. ASSUME NEW x \in Jobs, NEW u \in PoolThreads, NEW i \in Nat, Owns(S, u, i, x)
        PROVE  IF x = j THEN u = t /\ i = n ELSE Owns(poolStack, u, i, x)
    <3>1. CASE u = t /\ i = n
      <4>1. x \in J
        BY <1>6, <2>3, <3>1
      <4>2. x # j => Owns(poolStack, t, n, x)
        <5>1. n \in 1 .. Len(poolStack[t])
          BY <1>3, <1>7
        <5> QED
          BY <1>3, <4>1, <5>1 DEF Owns
      <4> QED
        BY <3>1, <4>2
    <3>2. CASE ~(u = t /\ i = n)
      <4>1. Owns(poolStack, u, i, x)
        BY <1>6, <2>3, <3>2
      <4> QED
        BY <2>2, <4>1
    <3> QED
      BY <3>1, <3>2
  <2>4. ASSUME NEW x \in Jobs, NEW u \in PoolThreads, NEW i \in Nat, Owns(S, u, i, x)
        PROVE  job'[x] # None
    BY <1>11, <1>12, <2>1, <2>3, <2>4 DEF OwnersOK
  <2>5. ASSUME NEW x \in Jobs, NEW u \in PoolThreads, NEW v \in PoolThreads,
               NEW i \in Nat, NEW k \in Nat, Owns(S, u, i, x), Owns(S, v, k, x)
        PROVE  u = v /\ i = k
    <3>1. CASE x = j
      BY <2>3, <2>5, <3>1
    <3>2. CASE x # j
      <4>1. Owns(poolStack, u, i, x) /\ Owns(poolStack, v, k, x)
        BY <2>3, <2>5, <3>2
      <4> QED
        BY <2>1, <4>1 DEF OwnersOK
    <3> QED
      BY <3>1, <3>2
  <2> QED
    BY <2>4, <2>5 DEF OwnersOK
<1>16. ParallelOK(S, active, taken, finished)
  BY <1>2, <1>6, ParallelStays DEF Core
<1>17. WaitOK(S, queue', active, taken, finished, job', {}, onDone)
  <2>1. \A u \in onReady \cup onDone : S[u] = poolStack[u]
    BY <1>3, <1>5, AwakeSet
  <2>2. ASSUME NEW u \in onDone
        PROVE  /\ Len(poolStack[u]) > 0
               /\ LET f == poolStack[u][Len(poolStack[u])] IN
                  \/ f.kind = "parallel" /\ finished < f.chunks
                  \/ f.kind = "join" /\ ~job'[f.job].done
    <3> DEFINE f == poolStack[u][Len(poolStack[u])]
    <3>1. /\ Len(poolStack[u]) > 0
          /\ \/ f.kind = "parallel" /\ finished < f.chunks
             \/ f.kind = "join" /\ ~job[f.job].done
      BY <1>2 DEF Core, WaitOK
    <3>2. f.kind = "join" => f.job \in Jobs
      BY <1>2, <3>1, TopJoin
    <3> QED
      BY <1>11, <1>12, <3>1, <3>2
  <2> QED
    BY <1>2, <2>1, <2>2 DEF WaitOK
<1>18. Core(S, active, taken, finished, queue', inFlight \cup {j}, job', {}, onDone)
  BY <1>6, <1>14, <1>15, <1>16, <1>17 DEF Core
<1>19. Fresh(S, poolStack') /\ StartOK(poolStack', poolStarted')
  BY <1>1, <1>3, <1>5, StartFresh DEF PoolInv
<1>20. Core(poolStack', active, taken, finished, queue', inFlight \cup {j}, job', {}, onDone)
  <2>1. inFlight \cup {j} \subseteq Jobs
    BY <1>2
  <2> QED
    BY <1>18, <1>19, <2>1, CoreStarts
<1> QED
  BY <1>1, <1>10, <1>13, <1>19, <1>20 DEF PoolInv

-----------------------------------------------------------------------------
(* join. *)

\* A job leaves the queue from where it stands.
LEMMA UnlinkIs ==
    ASSUME QueueOK(queue, last), NEW j \in Jobs, InQueue(queue, j), Unlink(j)
    PROVE  /\ QueueOK(queue', last')
           /\ \A x \in Jobs : InQueue(queue', x) <=> InQueue(queue, x) /\ x # j
<1> DEFINE n == Len(queue)
           P == Without(queue, j)
           at == CHOOSE i \in DOMAIN queue : queue[i] = j
<1>1. /\ queue \in Seq(Jobs) /\ n \in Nat /\ DOMAIN queue = 1 .. n /\ Len(queue) = n
      /\ \A i, k \in 1 .. n : queue[i] = queue[k] => i = k
      /\ last = IF queue = <<>> THEN None ELSE queue[n]
      /\ \A i \in 1 .. n : queue[i] \in Jobs
  BY DEF QueueOK
<1>2. at \in 1 .. n /\ queue[at] = j
  <2>1. \E i \in DOMAIN queue : queue[i] = j
    BY <1>1 DEF InQueue
  <2> QED
    BY <1>1, <2>1
<1>3. P = [i \in 1 .. n - 1 |-> IF i < at THEN queue[i] ELSE queue[i + 1]]
  BY DEF Without
<1>4. /\ queue' = P
      /\ last' = IF last # j THEN last ELSE IF P = <<>> THEN None ELSE P[Len(P)]
  BY DEF Unlink
<1> HIDE DEF n, P, at
<1>5. last = queue[n] /\ n >= 1 /\ n - 1 \in Nat
  <2>1. n >= 1
    BY <1>1, <1>2
  <2>2. queue # <<>>
    BY <1>1, <2>1
  <2> QED
    BY <1>1, <2>1, <2>2
<1>6. ASSUME NEW i \in 1 .. n - 1
      PROVE  /\ i \in 1 .. n /\ i + 1 \in 1 .. n
             /\ i < at => P[i] = queue[i]
             /\ i >= at => P[i] = queue[i + 1]
             /\ P[i] \in Jobs
  <2>1. i \in 1 .. n /\ i + 1 \in 1 .. n
    BY <1>1
  <2> QED
    BY <1>1, <1>2, <1>3, <2>1
<1>7. P \in Seq(Jobs) /\ Len(P) = n - 1
  <2>1. P \in [1 .. n - 1 -> Jobs]
    BY <1>3, <1>6
  <2> QED
    BY <1>5, <2>1, SeqDef
<1>8. ASSUME NEW i \in 1 .. n - 1, NEW k \in 1 .. n - 1, P[i] = P[k]
      PROVE  i = k
  <2>1. /\ i \in 1 .. n /\ i + 1 \in 1 .. n /\ k \in 1 .. n /\ k + 1 \in 1 .. n
    BY <1>6
  <2>2. CASE i < at /\ k < at
    BY <1>1, <1>6, <1>8, <2>1, <2>2
  <2>3. CASE i < at /\ k >= at
    <3>1. queue[i] = queue[k + 1]
      BY <1>6, <1>8, <2>3
    <3>2. i = k + 1
      BY <1>1, <2>1, <3>1
    <3> QED
      BY <1>2, <2>3, <3>2
  <2>4. CASE i >= at /\ k < at
    <3>1. queue[i + 1] = queue[k]
      BY <1>6, <1>8, <2>4
    <3>2. i + 1 = k
      BY <1>1, <2>1, <3>1
    <3> QED
      BY <1>2, <2>4, <3>2
  <2>5. CASE i >= at /\ k >= at
    <3>1. queue[i + 1] = queue[k + 1]
      BY <1>6, <1>8, <2>5
    <3>2. i + 1 = k + 1
      BY <1>1, <2>1, <3>1
    <3> QED
      BY <3>2
  <2> QED
    BY <1>2, <2>2, <2>3, <2>4, <2>5
<1>9. last' = IF P = <<>> THEN None ELSE P[Len(P)]
  <2>1. CASE last # j
    <3>1. at # n
      BY <1>2, <1>5, <2>1
    <3>2. n - 1 \in 1 .. n - 1 /\ n - 1 >= at /\ (n - 1) + 1 = n
      BY <1>1, <1>2, <3>1
    <3>3. P[n - 1] = queue[n]
      BY <1>6, <3>2
    <3>4. P # <<>>
      BY <1>7, <3>2
    <3> QED
      BY <1>4, <1>5, <1>7, <2>1, <3>3, <3>4
  <2>2. CASE last = j
    BY <1>4, <2>2
  <2> QED
    BY <2>1, <2>2
<1>10. QueueOK(P, last')
  BY <1>7, <1>8, <1>9 DEF QueueOK
<1>11. ASSUME NEW x \in Jobs
       PROVE  InQueue(P, x) <=> InQueue(queue, x) /\ x # j
  <2>1. ASSUME InQueue(P, x)
        PROVE  InQueue(queue, x) /\ x # j
    <3>1. PICK i \in 1 .. n - 1 : P[i] = x
      BY <1>7, <2>1 DEF InQueue
    <3>2. CASE i < at
      <4>1. i \in 1 .. n /\ queue[i] = x /\ i # at
        BY <1>2, <1>6, <3>1, <3>2
      <4> QED
        BY <1>1, <1>2, <4>1 DEF InQueue
    <3>3. CASE i >= at
      <4>1. i + 1 \in 1 .. n /\ queue[i + 1] = x /\ i + 1 # at
        BY <1>2, <1>6, <3>1, <3>3
      <4> QED
        BY <1>1, <1>2, <4>1 DEF InQueue
    <3> QED
      BY <1>2, <3>2, <3>3
  <2>2. ASSUME InQueue(queue, x), x # j
        PROVE  InQueue(P, x)
    <3>1. PICK i \in 1 .. n : queue[i] = x
      BY <1>1, <2>2 DEF InQueue
    <3>2. i # at
      BY <1>2, <2>2, <3>1
    <3>3. CASE i < at
      <4>1. i \in 1 .. n - 1
        BY <1>1, <1>2, <3>3
      <4>2. P[i] = x
        BY <1>6, <3>1, <3>3, <4>1
      <4> QED
        BY <1>7, <4>1, <4>2 DEF InQueue
    <3>4. CASE i > at
      <4> DEFINE k == i - 1
      <4>1. k \in 1 .. n - 1 /\ k >= at /\ k + 1 = i
        BY <1>1, <1>2, <3>4
      <4> HIDE DEF k
      <4>2. P[k] = x
        BY <1>6, <3>1, <4>1
      <4> QED
        BY <1>7, <4>1, <4>2 DEF InQueue
    <3> QED
      BY <1>2, <3>2, <3>3, <3>4
  <2> QED
    BY <2>1, <2>2
<1> QED
  BY <1>4, <1>10, <1>11

\* The state a turn of the loop of a join leaves.
Looked(t) ==
    /\ Core(poolStack', active, taken, finished, queue', inFlight, job', onReady, onDone')
    /\ QueueOK(queue', last') /\ RecordsOK(inFlight, job')
    /\ Others(poolStack, poolStack', t)

\* A join on top of the stack of t: S, where the join may be new.
Looking(S, t, m, j) ==
    /\ Core(S, active, taken, finished, queue, inFlight, job, onReady, onDone)
    /\ QueueOK(queue, last) /\ RecordsOK(inFlight, job)
    /\ DOMAIN poolStack = PoolThreads /\ Others(poolStack, S, t)
    /\ t \notin onReady \cup onDone
    /\ m \in Nat /\ Len(S[t]) = m /\ m >= 1
    /\ S[t][m].kind = "join" /\ S[t][m].job = j

\* A join that looks at its job owns it.
LEMMA LookingIs ==
    ASSUME NEW t \in PoolThreads, NEW S, NEW m, NEW j, Looking(S, t, m, j)
    PROVE  /\ StacksOK(S) /\ inFlight \subseteq Jobs /\ S[t] \in Seq(Frames) /\ ~Odd(m)
           /\ j \in Jobs /\ Owns(S, t, m, j) /\ ~PooledAt(S, t, m) /\ m \in Nat
           /\ onReady \subseteq Workers /\ onDone \subseteq PoolThreads
<1>1. StacksOK(S) /\ inFlight \subseteq Jobs
  BY InFlightJobs DEF Looking, Core
<1>2. m \in Nat /\ m \in 1 .. Len(S[t]) /\ Len(S[t]) = m /\ Len(S[t]) > 0
  BY DEF Looking
<1>3. S[t] \in Seq(Frames) /\ PlaceOK(t, m, S[t][m])
  BY <1>1, <1>2, StackLen
<1>4. S[t][m].kind = "join" /\ S[t][m].job = j
  BY DEF Looking
<1>5. ~Odd(m)
  BY <1>2, <1>3, <1>4 DEF PlaceOK
<1>6. j \in Jobs /\ Owns(S, t, m, j)
  BY <1>1, <1>2, <1>4, TopJoin
<1>7. ~PooledAt(S, t, m)
  BY <1>4 DEF PooledAt, Pooled
<1> QED
  BY <1>1, <1>2, <1>3, <1>5, <1>6, <1>7 DEF Looking, Core, WaitOK

\* What a join frees is nobody else's.
LEMMA OwnersDrop ==
    ASSUME NEW S, NEW R, NEW jb, jb \in [Jobs -> JobRecords \cup {None}], OwnersOK(S, jb),
           NEW j \in Jobs, NEW t \in PoolThreads, NEW m \in Nat, Owns(S, t, m, j),
           FewerOwners(S, R), ~Owns(R, t, m, j)
    PROVE  OwnersOK(R, [jb EXCEPT ![j] = None])
<1>1. OwnersOK(R, jb)
  BY OwnersStay
<1>2. \A u \in PoolThreads : \A i \in Nat : ~Owns(R, u, i, j)
  BY DEF OwnersOK, FewerOwners
<1>3. \A x \in Jobs : x # j => [jb EXCEPT ![j] = None][x] = jb[x]
  OBVIOUS
<1>4. ASSUME NEW x \in Jobs, NEW u \in PoolThreads, NEW i \in Nat, Owns(R, u, i, x)
      PROVE  [jb EXCEPT ![j] = None][x] # None
  <2>1. x # j
    BY <1>2, <1>4
  <2> QED
    BY <1>1, <1>3, <1>4, <2>1 DEF OwnersOK
<1> QED
  BY <1>1, <1>4 DEF OwnersOK

\* A join that finds its job done keeps the invariant.
LEMMA JoinDoneKeeps ==
    ASSUME NEW t \in PoolThreads, NEW S, NEW m, NEW j, Looking(S, t, m, j),
           JoinDone(t, S[t], j)
    PROVE  Looked(t)
<1>1. /\ StacksOK(S) /\ inFlight \subseteq Jobs /\ S[t] \in Seq(Frames) /\ ~Odd(m)
      /\ j \in Jobs /\ Owns(S, t, m, j) /\ ~PooledAt(S, t, m) /\ m \in Nat
      /\ onReady \subseteq Workers /\ onDone \subseteq PoolThreads
  BY LookingIs
<1>2. /\ Core(S, active, taken, finished, queue, inFlight, job, onReady, onDone)
      /\ QueueOK(queue, last) /\ RecordsOK(inFlight, job)
      /\ DOMAIN poolStack = PoolThreads /\ Others(poolStack, S, t)
      /\ t \notin onReady \cup onDone /\ Len(S[t]) = m /\ m >= 1
  BY DEF Looking
<1>3. /\ job[j].done /\ job' = [job EXCEPT ![j] = None]
      /\ poolStack' = [poolStack EXCEPT ![t] = Pop(S[t])]
      /\ queue' = queue /\ last' = last /\ onDone' = onDone
  BY DEF JoinDone
<1>4. Others(poolStack, poolStack', t) /\ poolStack'[t] = Pop(S[t])
  BY <1>2, <1>3, SetIs
<1>5. Others(S, poolStack', t)
  BY <1>2, <1>4 DEF Others
<1>6. ReturnView(S, poolStack', t, m)
  <2>1. Less(S, poolStack', t, m, 1)
    BY <1>1, <1>2, <1>4, PopOne
  <2>2. /\ poolStack'[t] \in Seq(Frames) /\ Len(poolStack'[t]) = m - 1
        /\ Prefix(S, poolStack', t, m - 1)
    BY <2>1 DEF Less
  <2> QED
    BY <1>1, <1>2, <1>5, <2>2, Returns
<1>7. SameParallel(S, poolStack')
  BY <1>1, <1>6 DEF ReturnView, SameParallel
<1>8. FewerOwners(S, poolStack') /\ ~Owns(poolStack', t, m, j)
  BY <1>1, <1>6 DEF ReturnView, FewerOwners
<1>9. StacksOK(poolStack') /\ SameRuns(S, poolStack')
  BY <1>6 DEF ReturnView
<1>10. ParallelOK(poolStack', active, taken, finished)
  BY <1>2, <1>7, ParallelStays DEF Core
<1>11. RunnersOK(poolStack', queue, inFlight)
  BY <1>1, <1>2, <1>9, RunnersStay DEF Core
<1>12. OwnersOK(S, job) /\ job \in [Jobs -> JobRecords \cup {None}]
  BY <1>2 DEF Core, RecordsOK
<1>13. OwnersOK(poolStack', job')
  BY <1>1, <1>3, <1>8, <1>12, OwnersDrop
<1>14. RecordsOK(inFlight, job')
  <2>1. RecordsOK(inFlight \ {j}, job')
    <3>1. None \in JobRecords \cup {None}
      OBVIOUS
    <3> QED
      BY <1>1, <1>2, <1>3, <3>1, RecordsDrop
  <2>2. j \notin inFlight
    BY <1>2, <1>3 DEF RecordsOK
  <2>3. inFlight \ {j} = inFlight
    BY <2>2
  <2> QED
    BY <2>1, <2>3
<1>15. WaitOK(poolStack', queue, active, taken, finished, job', onReady, onDone)
  <2>1. \A u \in onReady \cup onDone : poolStack'[u] = S[u] /\ u \in PoolThreads /\ u # t
    BY <1>1, <1>2, <1>5 DEF Others, PoolThreads
  <2>2. active # None => poolStack'[active[1]][active[2]] = S[active[1]][active[2]]
    BY <1>1, <1>2, <1>7, CallIs DEF SameParallel, Core
  <2>3. ASSUME NEW u \in onDone
        PROVE  /\ Len(S[u]) > 0
               /\ LET f == S[u][Len(S[u])] IN
                  \/ f.kind = "parallel" /\ finished < f.chunks
                  \/ f.kind = "join" /\ ~job'[f.job].done
    <3> DEFINE f == S[u][Len(S[u])]
    <3>1. /\ Len(S[u]) > 0
          /\ \/ f.kind = "parallel" /\ finished < f.chunks
             \/ f.kind = "join" /\ ~job[f.job].done
      BY <1>2 DEF Core, WaitOK
    <3>2. ASSUME f.kind = "join"
          PROVE  f.job \in Jobs /\ f.job # j
      <4>1. f.job \in Jobs /\ Len(S[u]) \in Nat /\ Owns(S, u, Len(S[u]), f.job)
        BY <1>1, <2>1, <3>1, <3>2, TopJoin
      <4>2. f.job = j => u = t
        BY <1>1, <1>12, <2>1, <4>1 DEF OwnersOK
      <4> QED
        BY <2>1, <4>1, <4>2
    <3>3. f.kind = "join" => job'[f.job] = job[f.job]
      BY <1>3, <1>12, <3>2
    <3> QED
      BY <3>1, <3>3
  <2> QED
    BY <1>2, <2>1, <2>2, <2>3 DEF Core, WaitOK
<1>16. Core(poolStack', active, taken, finished, queue, inFlight, job', onReady, onDone)
  BY <1>9, <1>10, <1>11, <1>13, <1>15 DEF Core
<1> QED
  BY <1>2, <1>3, <1>4, <1>14, <1>16 DEF Looked

\* A join that takes its job from the queue keeps the invariant.
LEMMA JoinTakesKeeps ==
    ASSUME NEW t \in PoolThreads, NEW S, NEW m, NEW j, Looking(S, t, m, j),
           JoinTakes(t, S[t], j)
    PROVE  Looked(t)
<1>1. /\ StacksOK(S) /\ inFlight \subseteq Jobs /\ S[t] \in Seq(Frames) /\ ~Odd(m)
      /\ j \in Jobs /\ Owns(S, t, m, j) /\ ~PooledAt(S, t, m) /\ m \in Nat
      /\ onReady \subseteq Workers /\ onDone \subseteq PoolThreads
  BY LookingIs
<1>2. /\ Core(S, active, taken, finished, queue, inFlight, job, onReady, onDone)
      /\ QueueOK(queue, last) /\ RecordsOK(inFlight, job)
      /\ DOMAIN poolStack = PoolThreads /\ Others(poolStack, S, t)
      /\ t \notin onReady \cup onDone /\ Len(S[t]) = m /\ m >= 1
      /\ S[t][m].kind = "join" /\ S[t][m].job = j
  BY DEF Looking
<1>3. /\ Unlink(j) /\ \E i \in DOMAIN queue : queue[i] = j
      /\ poolStack' = [poolStack EXCEPT ![t] = Append(S[t], NewBody)]
      /\ job' = job /\ onDone' = onDone
  BY DEF JoinTakes
<1>4. InQueue(queue, j)
  BY <1>2, <1>3 DEF InQueue, QueueOK
<1>5. /\ QueueOK(queue', last')
      /\ \A x \in Jobs : InQueue(queue', x) <=> InQueue(queue, x) /\ x # j
  BY <1>1, <1>2, <1>3, <1>4, UnlinkIs
<1>6. Others(poolStack, poolStack', t) /\ poolStack'[t] = Append(S[t], NewBody)
  BY <1>2, <1>3, SetIs
<1>7. Others(S, poolStack', t)
  BY <1>2, <1>6 DEF Others
<1>8. /\ poolStack'[t] \in Seq(Frames) /\ Len(poolStack'[t]) = m + 1
      /\ Prefix(S, poolStack', t, m) /\ poolStack'[t][m + 1] = NewBody
  <2>1. More(S, poolStack', t, m, NewBody)
    BY <1>1, <1>2, <1>6, NewBodyIs, PushOne
  <2> QED
    BY <2>1 DEF More
<1>9. ResumeView(S, poolStack', t, m)
  BY <1>1, <1>2, <1>7, <1>8, Resumes
<1>10. SameParallel(S, poolStack')
  <2>1. ASSUME NEW u \in PoolThreads, NEW i \in Nat, PooledAt(S, u, i)
        PROVE  Len(poolStack'[u]) > i <=> Len(S[u]) > i
    <3>1. CASE u # t
      BY <1>7, <3>1 DEF Others
    <3>2. CASE u = t
      <4>1. i # m /\ i \in 1 .. m
        BY <1>1, <1>2, <2>1, <3>2 DEF PooledAt
      <4> QED
        BY <1>1, <1>2, <1>8, <3>2, <4>1
    <3> QED
      BY <3>1, <3>2
  <2> QED
    BY <1>9, <2>1 DEF ResumeView, SameParallel
<1>11. RunnersOK(poolStack', queue', inFlight)
  <2>1. \A u \in PoolThreads : \A i \in Nat : \A x \in Jobs :
           Runs(poolStack', u, i, x) <=> Runs(S, u, i, x) \/ (u = t /\ i = m /\ x = j)
    BY <1>2, <1>9 DEF ResumeView
  <2>2. RunnersOK(S, queue, inFlight)
    BY <1>2 DEF Core
  <2>3. inFlight \subseteq Jobs /\ j \in Jobs /\ m \in Nat
    BY <1>1
  <2>4. \A x \in Jobs : InQueue(queue', x) <=> InQueue(queue, x) /\ x # j
    BY <1>5
  <2> QED
    BY <1>4, <2>1, <2>2, <2>3, <2>4, RunnersTake, SMTT(30)
<1>12. OwnersOK(poolStack', job)
  <2>1. FewerOwners(S, poolStack')
    BY <1>9 DEF ResumeView
  <2> QED
    BY <1>2, <2>1, OwnersStay DEF Core
<1>13. ParallelOK(poolStack', active, taken, finished)
  BY <1>2, <1>10, ParallelStays DEF Core
<1>14. WaitOK(poolStack', queue', active, taken, finished, job, onReady, onDone)
  <2>1. onReady = {}
    <3>1. queue # <<>>
      BY <1>3
    <3> QED
      BY <1>2, <3>1 DEF Core, WaitOK
  <2>2. \A u \in onDone : poolStack'[u] = S[u]
    BY <1>1, <1>2, <1>7 DEF Others
  <2> QED
    BY <1>2, <2>1, <2>2 DEF Core, WaitOK
<1>15. Core(poolStack', active, taken, finished, queue', inFlight, job, onReady, onDone)
  BY <1>9, <1>11, <1>12, <1>13, <1>14 DEF Core, ResumeView
<1> QED
  BY <1>2, <1>3, <1>5, <1>6, <1>15 DEF Looked

\* A join that waits keeps the invariant.
LEMMA JoinWaitsKeeps ==
    ASSUME NEW t \in PoolThreads, NEW S, NEW m, NEW j, Looking(S, t, m, j),
           JoinWaits(t, S[t], j)
    PROVE  Looked(t)
<1>1. inFlight \subseteq Jobs
  BY LookingIs
<1>2. /\ Core(S, active, taken, finished, queue, inFlight, job, onReady, onDone)
      /\ QueueOK(queue, last) /\ RecordsOK(inFlight, job)
      /\ DOMAIN poolStack = PoolThreads /\ Others(poolStack, S, t)
      /\ Len(S[t]) = m /\ m >= 1 /\ m \in Nat
      /\ S[t][m].kind = "join" /\ S[t][m].job = j
  BY DEF Looking
<1>3. /\ ~job[j].done /\ onDone' = onDone \cup {t}
      /\ poolStack' = [poolStack EXCEPT ![t] = S[t]]
      /\ queue' = queue /\ last' = last /\ job' = job
  BY DEF JoinWaits
<1>4. Others(poolStack, poolStack', t) /\ poolStack'[t] = S[t]
  BY <1>2, <1>3, SetIs
<1>5. DOMAIN poolStack' = PoolThreads /\ \A u \in PoolThreads : poolStack'[u] = S[u]
  BY <1>2, <1>4 DEF Others
<1>6. Core(poolStack', active, taken, finished, queue, inFlight, job, onReady, onDone)
  BY <1>1, <1>2, <1>5, CoreEqual
<1>7. WaitOK(poolStack', queue, active, taken, finished, job, onReady, onDone \cup {t})
  <2>1. /\ Len(poolStack'[t]) > 0 /\ poolStack'[t][Len(poolStack'[t])].kind = "join"
        /\ poolStack'[t][Len(poolStack'[t])].job = j
    BY <1>2, <1>4
  <2> QED
    BY <1>3, <1>6, <2>1 DEF Core, WaitOK
<1>8. Core(poolStack', active, taken, finished, queue, inFlight, job, onReady, onDone \cup {t})
  BY <1>6, <1>7 DEF Core
<1> QED
  BY <1>2, <1>3, <1>4, <1>8 DEF Looked

\* One turn of the loop of anti_rt_join.
LEMMA JoinLookKeeps ==
    ASSUME NEW t \in PoolThreads, NEW S, NEW m, NEW j, Looking(S, t, m, j),
           JoinLook(t, S[t], j)
    PROVE  Looked(t)
BY JoinDoneKeeps, JoinTakesKeeps, JoinWaitsKeeps DEF JoinLook

\* A join woken from WORK_DONE keeps the invariant.
LEMMA JoinAgainKeeps ==
    ASSUME PoolInv, NEW t \in PoolThreads, JoinAgain(t)
    PROVE  PoolInv'
<1> DEFINE n == Len(poolStack[t])
           j == TopFrame(t).job
<1>1. /\ StacksOK(poolStack) /\ DOMAIN poolStack = PoolThreads
      /\ Core(poolStack, active, taken, finished, queue, inFlight, job, onReady, onDone)
  BY PoolInvFacts
<1>2. /\ AtKind(t, "join") /\ JoinLook(t, poolStack[t], j)
      /\ UNCHANGED <<poolStarted, active, taken, finished, inFlight, onReady>>
  BY DEF JoinAgain, parallel
<1>3. /\ t \notin onReady \cup onDone /\ n \in Nat \ {0} /\ poolStack[t] # <<>>
      /\ TopFrame(t) = poolStack[t][n] /\ TopFrame(t).kind = "join"
  BY <1>1, <1>2, AtKindIs
<1>4. Others(poolStack, poolStack, t)
  BY <1>1 DEF Others
<1>5. Looking(poolStack, t, n, j)
  <2>1. n \in Nat /\ n >= 1
    BY <1>3
  <2> QED
    BY <1>1, <1>3, <1>4, <2>1 DEF Looking, PoolInv
<1> HIDE DEF n, j
<1>6. Looked(t)
  BY <1>2, <1>5, JoinLookKeeps
<1>7. StartOK(poolStack', poolStarted)
  BY <1>3, <1>6, StartStays DEF PoolInv, Looked
<1> QED
  BY <1>2, <1>6, <1>7 DEF PoolInv, Looked

\* A join keeps the invariant.
LEMMA JoinKeeps ==
    ASSUME PoolInv, NEW t \in PoolThreads, NEW j \in Jobs, Join(t, j)
    PROVE  PoolInv'
<1> DEFINE n == Len(poolStack[t])
           J == TopFrame(t).jobs \ {j}
           g == [Called(t) EXCEPT !.jobs = Called(t).jobs \ {j}]
           f == [kind |-> "join", job |-> j]
           S == [poolStack EXCEPT ![t] = SetTop(poolStack[t], g)]
           R == [poolStack EXCEPT ![t] = Append(SetTop(poolStack[t], g), f)]
<1>1. /\ MayCall(t) /\ j \in TopFrame(t).jobs
      /\ JoinLook(t, Append(SetTop(poolStack[t], g), f), j)
      /\ UNCHANGED <<poolStarted, active, taken, finished, inFlight, onReady>>
  BY DEF Join, parallel
<1>2. /\ StacksOK(poolStack) /\ inFlight \subseteq Jobs /\ DOMAIN poolStack = PoolThreads
      /\ Core(poolStack, active, taken, finished, queue, inFlight, job, onReady, onDone)
  BY PoolInvFacts
<1>3. /\ n \in Nat /\ n >= 1 /\ TopFrame(t) = poolStack[t][n]
      /\ t \notin onReady \cup onDone /\ poolStack[t] # <<>>
      /\ n + 2 <= 2 * MaxLevel + 1
      /\ TopFrame(t) \in Codes /\ TopFrame(t).kind \in {"main", "body"}
      /\ Called(t) \in Codes /\ Called(t).kind = TopFrame(t).kind
      /\ Called(t).jobs = TopFrame(t).jobs
  BY <1>1, <1>2, MayCallIs
<1>4. g \in Codes /\ g.kind = TopFrame(t).kind /\ g.jobs = J
  <2>1. J \in SUBSET Jobs
    BY <1>3 DEF Codes
  <2>2. g = [Called(t) EXCEPT !.jobs = J]
    BY <1>3
  <2> HIDE DEF g, J
  <2> QED
    BY <1>3, <2>1, <2>2, JobsIs
<1> HIDE DEF g
<1>5. Others(poolStack, S, t) /\ S[t] = SetTop(poolStack[t], g)
  BY <1>2, SetIs
<1>6. Others(poolStack, R, t) /\ R[t] = Append(S[t], f)
  BY <1>2, <1>5, SetIs
<1>7. f \in Frames /\ f.kind = "join" /\ f.job = j
  BY DEF Frames, JoinFrames
<1> HIDE DEF S, R, f
<1>8. /\ S[t] \in Seq(Frames) /\ Len(S[t]) = n /\ S[t][n] = g
      /\ StacksOK(S) /\ SameParallel(poolStack, S) /\ SameRuns(poolStack, S)
      /\ \A u \in PoolThreads : \A i \in Nat : \A x \in Jobs :
           Owns(S, u, i, x) <=> IF u = t /\ i = n THEN x \in J ELSE Owns(poolStack, u, i, x)
  <2>1. /\ S[t] \in Seq(Frames) /\ Len(S[t]) = Len(poolStack[t]) /\ S[t][Len(poolStack[t])] = g
        /\ StacksOK(S) /\ SameParallel(poolStack, S) /\ SameRuns(poolStack, S)
        /\ \A u \in PoolThreads : \A i \in Nat : \A x \in Jobs :
             Owns(S, u, i, x) <=> IF u = t /\ i = Len(poolStack[t]) THEN x \in g.jobs
                                  ELSE Owns(poolStack, u, i, x)
    BY <1>1, <1>2, <1>4, <1>5, CodeSet
  <2> QED
    BY <1>4, <2>1
<1>9. Len(poolStack[t]) = n
  OBVIOUS
<1> HIDE DEF n
<1>10. OwnersOK(poolStack, job)
  BY <1>2 DEF Core
<1>11. \A x \in TopFrame(t).jobs : Owns(poolStack, t, n, x)
  <2>1. n \in 1 .. Len(poolStack[t])
    BY <1>3, <1>9
  <2> QED
    BY <1>3, <2>1 DEF Owns
<1>12. FewerOwners(poolStack, S)
  BY <1>8, <1>11 DEF FewerOwners
<1>13. \A u \in PoolThreads : \A i \in Nat : ~Owns(S, u, i, j)
  BY <1>1, <1>3, <1>8, <1>10, <1>11 DEF OwnersOK
<1>14. job[j] # None
  BY <1>1, <1>3, <1>10, <1>11 DEF OwnersOK
<1>15. Core(S, active, taken, finished, queue, inFlight, job, onReady, onDone)
  <2>1. \A u \in onReady \cup onDone : S[u] = poolStack[u]
    BY <1>3, <1>5, AwakeSet
  <2> QED
    BY <1>2, <1>8, <1>12, <2>1, CoreSame
<1>16. Others(S, R, t)
  BY <1>5, <1>6 DEF Others
<1>17. /\ R[t] \in Seq(Frames) /\ Len(R[t]) = n + 1 /\ Prefix(S, R, t, n) /\ R[t][n + 1] = f
  <2>1. More(S, R, t, n, f)
    BY <1>3, <1>6, <1>7, <1>8, PushOne
  <2> QED
    BY <2>1 DEF More
<1>18. AskView(S, R, t, n)
  <2>1. S[t][n].kind \in {"main", "body"} /\ R[t][n + 1].kind = "join"
    BY <1>3, <1>4, <1>7, <1>8, <1>17
  <2> QED
    BY <1>3, <1>8, <1>16, <1>17, <2>1, Asks
<1>19. /\ StacksOK(R) /\ SameParallel(S, R) /\ SameRuns(S, R)
       /\ \A u \in PoolThreads : \A i \in Nat : \A x \in Jobs :
            Owns(R, u, i, x) <=> Owns(S, u, i, x) \/ (u = t /\ i = n + 1 /\ x = j)
  BY <1>7, <1>17, <1>18 DEF AskView
<1>20. OwnersOK(R, job)
  <2>1. OwnersOK(S, job)
    BY <1>15 DEF Core
  <2>2. ASSUME NEW x \in Jobs, NEW u \in PoolThreads, NEW i \in Nat, Owns(R, u, i, x)
        PROVE  job[x] # None
    BY <1>14, <1>19, <2>1, <2>2 DEF OwnersOK
  <2>3. ASSUME NEW x \in Jobs, NEW u \in PoolThreads, NEW v \in PoolThreads,
               NEW i \in Nat, NEW k \in Nat, Owns(R, u, i, x), Owns(R, v, k, x)
        PROVE  u = v /\ i = k
    <3>1. CASE x = j
      BY <1>13, <1>19, <2>3, <3>1
    <3>2. CASE x # j
      <4>1. Owns(S, u, i, x) /\ Owns(S, v, k, x)
        BY <1>19, <2>3, <3>2
      <4> QED
        BY <2>1, <4>1 DEF OwnersOK
    <3> QED
      BY <3>1, <3>2
  <2> QED
    BY <2>2, <2>3 DEF OwnersOK
<1>21. ParallelOK(R, active, taken, finished)
  BY <1>15, <1>19, ParallelStays DEF Core
<1>22. RunnersOK(R, queue, inFlight)
  BY <1>2, <1>15, <1>19, RunnersStay DEF Core
<1>23. WaitOK(R, queue, active, taken, finished, job, onReady, onDone)
  <2>1. \A u \in onReady \cup onDone : R[u] = S[u]
    BY <1>3, <1>15, <1>16 DEF Others, Core, WaitOK, PoolThreads
  <2>2. active # None => R[active[1]][active[2]] = S[active[1]][active[2]]
    BY <1>8, <1>15, <1>19, CallIs DEF SameParallel, Core
  <2>3. WaitOK(S, queue, active, taken, finished, job, onReady, onDone)
    BY <1>15 DEF Core
  <2> QED
    BY <2>1, <2>2, <2>3, WaitStays
<1>24. Core(R, active, taken, finished, queue, inFlight, job, onReady, onDone)
  BY <1>19, <1>20, <1>21, <1>22, <1>23 DEF Core
<1> DEFINE m == n + 1
<1>25. m \in Nat /\ m >= 1 /\ Len(R[t]) = m /\ R[t][m] = f
  BY <1>3, <1>17
<1> HIDE DEF m
<1>26. Looking(R, t, m, j)
  BY <1>2, <1>3, <1>6, <1>7, <1>24, <1>25 DEF Looking, PoolInv
<1>27. JoinLook(t, R[t], j)
  BY <1>1, <1>5, <1>6
<1>28. Looked(t)
  BY <1>26, <1>27, JoinLookKeeps
<1>29. StartOK(poolStack', poolStarted)
  BY <1>3, <1>28, StartStays DEF PoolInv, Looked
<1> QED
  BY <1>1, <1>28, <1>29 DEF PoolInv, Looked

-----------------------------------------------------------------------------
(* The invariant. *)

\* Before the first call nothing is taken, queued or running.
LEMMA PoolInitInv == PoolInit => PoolInv
<1> SUFFICES ASSUME PoolInit
             PROVE  PoolInv
  OBVIOUS
<1> DEFINE main == [kind |-> "main", jobs |-> {}, calls |-> 1]
           S == poolStack
<1>1. main \in Codes /\ main \in Frames /\ main.kind = "main" /\ main.jobs = {}
  BY DEF Codes, Frames
<1>2. /\ active = None /\ taken = 0 /\ finished = 0 /\ queue = <<>> /\ last = None
      /\ inFlight = {} /\ job = [j \in Jobs |-> None] /\ onReady = {} /\ onDone = {}
      /\ poolStarted = FALSE /\ DOMAIN S = PoolThreads
      /\ \A t \in Callers : S[t] = <<main>>
      /\ \A w \in Workers : S[w] = <<>>
      /\ \A t \in PoolThreads : t \in Callers \/ (t \in Workers /\ t \notin Callers)
  BY PoolAssumption DEF PoolInit, PoolThreads
<1> HIDE DEF main, S
<1>3. \A t \in Callers : S[t] \in Seq(Frames) /\ Len(S[t]) = 1 /\ S[t][1] = main
  <2>1. <<main>> \in Seq(Frames) /\ Len(<<main>>) = 1 /\ <<main>>[1] = main
    BY <1>1
  <2> QED
    BY <1>2, <2>1
<1>4. \A w \in Workers : S[w] \in Seq(Frames) /\ Len(S[w]) = 0
  <2>1. <<>> \in Seq(Frames) /\ Len(<<>>) = 0
    OBVIOUS
  <2> QED
    BY <1>2, <2>1
<1>5. MaxLevel \in Nat /\ MaxCount \in Nat /\ 1 <= 2 * MaxLevel + 1
  BY PoolAssumption
<1>6. ASSUME NEW t \in PoolThreads
      PROVE  ThreadOK(t, S[t])
  <2>1. CASE t \in Callers
    <3>1. PlaceOK(t, 1, main)
      BY <1>1, <2>1, OddFacts DEF PlaceOK
    <3>2. \A i \in 1 .. 1 : i = 1
      OBVIOUS
    <3>3. S[t] \in Seq(Frames) /\ Len(S[t]) = 1 /\ S[t][1] = main
      BY <1>3, <2>1
    <3>4. \A i \in 1 .. Len(S[t]) : PlaceOK(t, i, S[t][i])
      BY <3>1, <3>2, <3>3
    <3>5. Odd(Len(S[t]))
      BY <3>3, OddFacts
    <3>6. Len(S[t]) <= 2 * MaxLevel + 1 /\ Len(S[t]) >= 1
      BY <1>5, <3>3
    <3> QED
      BY <3>3, <3>4, <3>5, <3>6 DEF ThreadOK
  <2>2. CASE t \in Workers /\ t \notin Callers
    BY <1>4, <1>5, <2>2 DEF ThreadOK
  <2> QED
    BY <1>2, <2>1, <2>2
<1>7. StacksOK(S)
  BY <1>2, <1>6 DEF StacksOK
<1>8. ASSUME NEW t \in PoolThreads, NEW i \in Nat, i \in 1 .. Len(S[t])
      PROVE  S[t][i] = main /\ i = 1 /\ Len(S[t]) = 1
  BY <1>2, <1>3, <1>4, <1>8
<1>9. \A t \in PoolThreads : \A i \in Nat : ~PooledAt(S, t, i)
  BY <1>1, <1>8 DEF PooledAt, Pooled
<1>10. \A w \in Workers : ~ChunkOn(S, w)
  BY <1>4 DEF ChunkOn
<1>11. \A t \in PoolThreads : \A i \in Nat : \A j \in Jobs : ~Owns(S, t, i, j)
  BY <1>1, <1>8 DEF Owns
<1>12. \A t \in PoolThreads : \A i \in Nat : \A j \in Jobs : ~Runs(S, t, i, j)
  <2>1. ASSUME NEW t \in PoolThreads, NEW i \in Nat, NEW j \in Jobs, Runs(S, t, i, j)
        PROVE  FALSE
    <3>1. Len(S[t]) \in Nat /\ i \in 1 .. Len(S[t]) - 1
      BY <1>7, <2>1, StackLen DEF Runs
    <3>2. i \in 1 .. Len(S[t])
      BY <3>1
    <3> QED
      BY <1>1, <1>8, <2>1, <3>2 DEF Runs
  <2> QED
    BY <2>1
<1>13. ParallelOK(S, None, 0, 0)
  BY <1>5, <1>9, <1>10 DEF ParallelOK
<1>14. \A j \in Jobs : ~InQueue(<<>>, j)
  BY DEF InQueue
<1>15. RunnersOK(S, <<>>, {})
  BY <1>12, <1>14 DEF RunnersOK
<1>16. OwnersOK(S, job)
  BY <1>11 DEF OwnersOK
<1>17. WaitOK(S, <<>>, None, 0, 0, job, {}, {})
  BY DEF WaitOK
<1>18. Core(S, None, 0, 0, <<>>, {}, job, {}, {})
  BY <1>7, <1>13, <1>15, <1>16, <1>17 DEF Core
<1>19. StartOK(S, FALSE)
  BY <1>2 DEF StartOK
<1>20. QueueOK(<<>>, None)
  BY DEF QueueOK
<1>21. RecordsOK({}, job)
  BY <1>2 DEF RecordsOK
<1> QED
  BY <1>2, <1>18, <1>19, <1>20, <1>21 DEF PoolInv, S

\* Every step keeps the invariant.
LEMMA PoolNextInv == PoolInv /\ [PoolNext]_poolVars => PoolInv'
<1> SUFFICES ASSUME PoolInv, [PoolNext]_poolVars
             PROVE  PoolInv'
  OBVIOUS
<1>1. CASE UNCHANGED poolVars
  BY <1>1 DEF poolVars, PoolInv
<1>2. ASSUME NEW t \in PoolThreads, Calls(t)
      PROVE  PoolInv'
  <2>1. ASSUME NEW asked \in 0 .. MaxAsked, NEW count \in 1 .. MaxCount,
               NEW fresh \in SUBSET Workers, Parallel(t, asked, count, fresh)
        PROVE  PoolInv'
    BY <2>1, ParallelKeeps
  <2>2. ASSUME NEW asked \in 0 .. MaxAsked, NEW count \in 1 .. MaxCount,
               ParallelInline(t, asked, count)
        PROVE  PoolInv'
    BY <2>2, ParallelInlineKeeps
  <2>3. ASSUME NEW object \in Objects, NEW j \in Jobs, NEW fresh \in SUBSET Workers,
               Dispatch(t, object, j, fresh)
        PROVE  PoolInv'
    BY <2>3, DispatchKeeps
  <2>4. ASSUME NEW object \in Objects, DispatchNull(t, object)
        PROVE  PoolInv'
    BY <2>4, DispatchNullKeeps
  <2>5. ASSUME NEW j \in Jobs, Join(t, j)
        PROVE  PoolInv'
    BY <2>5, JoinKeeps
  <2> QED
    BY <1>2, <2>1, <2>2, <2>3, <2>4, <2>5 DEF Calls
<1>3. ASSUME NEW t \in PoolThreads, PoolStep(t)
      PROVE  PoolInv'
  BY <1>3, InlineNextKeeps, CallerNextKeeps, CallerLooksKeeps, JoinAgainKeeps,
     JoinRanKeeps, WorkerWaitsKeeps, WorkerTakesJobKeeps, WorkerTakesChunkKeeps,
     WorkerFinishesJobKeeps, WorkerFinishesChunkKeeps DEF PoolStep
<1>4. ASSUME NEW t \in PoolThreads, PoolSpurious(t)
      PROVE  PoolInv'
  BY <1>4, PoolSpuriousKeeps
<1> QED
  BY <1>1, <1>2, <1>3, <1>4 DEF PoolNext

\* The stacks of the threads and the counters, lists and conditions of
\* threads.c agree in every state, whatever calls nest in whatever order.
THEOREM PoolInvariant == PoolSpec => []PoolInv
<1>1. PoolInit => PoolInv
  BY PoolInitInv
<1>2. PoolInv /\ [PoolNext]_poolVars => PoolInv'
  BY PoolNextInv
<1> QED
  BY <1>1, <1>2, PTL DEF PoolSpec

\* The caller of a `parallel` does not return while a worker is in one of its
\* chunks: struct jobs lies in the frame of anti_rt_parallel, and every chunk
\* that runs points at the one struct the pool counts for.
THEOREM CallsOutliveChunks == PoolSpec => []CallOutlivesChunks
<1>1. PoolInv => CallOutlivesChunks
  <2> SUFFICES ASSUME PoolInv, NEW t \in PoolThreads, NEW i \in DOMAIN poolStack[t],
                      poolStack[t][i].kind = "chunk"
               PROVE  poolStack[t][i].call = active
    BY DEF CallOutlivesChunks
  <2>1. StacksOK(poolStack) /\ ParallelOK(poolStack, active, taken, finished)
    BY PoolInvFacts DEF Core
  <2>2. poolStack[t] \in Seq(Frames) /\ Len(poolStack[t]) \in Nat
    BY <2>1, StackLen
  <2>3. i \in 1 .. Len(poolStack[t])
    BY <2>2
  <2>4. PlaceOK(t, i, poolStack[t][i])
    BY <2>1, <2>3, StackLen
  <2>5. t \in Workers /\ i = 2
    <3>1. i = 1 \/ i > 1
      BY <2>3
    <3> QED
      BY <2>4, <3>1 DEF PlaceOK
  <2>6. ChunkOn(poolStack, t)
    BY <2>2, <2>3, <2>5 DEF ChunkOn
  <2> QED
    BY <2>1, <2>5, <2>6 DEF ParallelOK
<1> QED
  BY <1>1, PoolInvariant, PTL

\* The places of Running are the ones of Runs.
LEMMA RunningIs ==
    ASSUME StacksOK(poolStack), NEW j \in Jobs
    PROVE  /\ \A t \in PoolThreads : \A i \in Nat :
                 Runs(poolStack, t, i, j) => <<t, i>> \in Running(j)
           /\ \A p \in Running(j) : /\ p[1] \in PoolThreads /\ p[2] \in Nat
                                    /\ p = <<p[1], p[2]>>
                                    /\ Runs(poolStack, p[1], p[2], j)
<1>1. ASSUME NEW t \in PoolThreads, NEW i \in Nat, Runs(poolStack, t, i, j)
      PROVE  <<t, i>> \in Running(j)
  <2> DEFINE n == Len(poolStack[t])
  <2>1. /\ n \in Nat /\ n <= 2 * MaxLevel + 1 /\ Len(poolStack[t]) = n
        /\ \A k \in 1 .. n : PlaceOK(t, k, poolStack[t][k])
    BY StackLen DEF ThreadOK
  <2>2. /\ i \in 1 .. n - 1 /\ poolStack[t][i].kind \in {"job", "join"}
        /\ poolStack[t][i].job = j
    BY <1>1 DEF Runs
  <2> HIDE DEF n
  <2>3. i \in 1 .. n /\ i + 1 \in 1 .. n /\ i < n /\ i + 1 > 1 /\ i \in 1 .. 2 * MaxLevel
    BY <2>1, <2>2, PoolAssumption
  <2>4. ~Odd(i)
    <3>1. PlaceOK(t, i, poolStack[t][i]) /\ (i = 1 \/ i > 1)
      BY <2>1, <2>3
    <3> QED
      BY <2>2, <3>1 DEF PlaceOK
  <2>5. Odd(i + 1)
    BY <2>4, OddFacts
  <2>6. PlaceOK(t, i + 1, poolStack[t][i + 1])
    BY <2>1, <2>3
  <2>7. poolStack[t][i + 1].kind = "body"
    BY <2>3, <2>5, <2>6 DEF PlaceOK
  <2> DEFINE p == <<t, i>>
  <2>8. p \in PoolThreads \X (1 .. 2 * MaxLevel) /\ p[1] = t /\ p[2] = i
    BY <2>3
  <2> HIDE DEF p
  <2>9. p \in Running(j)
    BY <2>1, <2>2, <2>3, <2>7, <2>8 DEF Running, CallFrame
  <2> QED
    BY <2>9 DEF p
<1>2. ASSUME NEW p \in Running(j)
      PROVE  /\ p[1] \in PoolThreads /\ p[2] \in Nat /\ p = <<p[1], p[2]>>
             /\ Runs(poolStack, p[1], p[2], j)
  <2>1. /\ p \in PoolThreads \X (1 .. 2 * MaxLevel) /\ p[2] < Len(poolStack[p[1]])
        /\ poolStack[p[1]][p[2]].kind \in {"job", "join"}
        /\ poolStack[p[1]][p[2]].job = j
    BY DEF Running, CallFrame
  <2>2. p[1] \in PoolThreads /\ p[2] \in 1 .. 2 * MaxLevel /\ p = <<p[1], p[2]>>
    BY <2>1
  <2>3. Len(poolStack[p[1]]) \in Nat
    BY <2>2, StackLen
  <2>4. p[2] \in 1 .. Len(poolStack[p[1]]) - 1 /\ p[2] \in Nat
    BY <2>1, <2>2, <2>3, PoolAssumption
  <2> QED
    BY <2>1, <2>2, <2>4 DEF Runs
<1> QED
  BY <1>1, <1>2

\* How many threads run a job.
LEMMA RunningCount ==
    ASSUME PoolInv, NEW j \in Jobs
    PROVE  Cardinality(Running(j)) = IF j \in inFlight /\ ~InQueue(queue, j) THEN 1 ELSE 0
<1>1. StacksOK(poolStack) /\ RunnersOK(poolStack, queue, inFlight)
  BY PoolInvFacts DEF Core
<1>2. CASE j \in inFlight /\ ~InQueue(queue, j)
  <2>1. PICK t \in PoolThreads, i \in Nat : Runs(poolStack, t, i, j)
    BY <1>1, <1>2 DEF RunnersOK
  <2>2. <<t, i>> \in Running(j)
    BY <1>1, <2>1, RunningIs
  <2>3. ASSUME NEW p \in Running(j)
        PROVE  p = <<t, i>>
    <3>1. /\ p[1] \in PoolThreads /\ p[2] \in Nat /\ p = <<p[1], p[2]>>
          /\ Runs(poolStack, p[1], p[2], j)
      BY <1>1, <2>3, RunningIs
    <3>2. p[1] = t /\ p[2] = i
      BY <1>1, <2>1, <3>1 DEF RunnersOK
    <3> QED
      BY <3>1, <3>2
  <2>4. Running(j) = {<<t, i>>}
    BY <2>2, <2>3
  <2>5. Cardinality({<<t, i>>}) = 1
    BY FS_Singleton
  <2> QED
    BY <1>2, <2>4, <2>5
<1>3. CASE ~(j \in inFlight /\ ~InQueue(queue, j))
  <2>1. ASSUME NEW p \in Running(j)
        PROVE  FALSE
    <3>1. /\ p[1] \in PoolThreads /\ p[2] \in Nat /\ Runs(poolStack, p[1], p[2], j)
      BY <1>1, <2>1, RunningIs
    <3> QED
      BY <1>1, <1>3, <3>1 DEF RunnersOK
  <2>2. Running(j) = {}
    BY <2>1
  <2> QED
    BY <1>3, <2>2, FS_EmptySet
<1> QED
  BY <1>2, <1>3

\* How often a job stands in the queue.
LEMMA QueuedCount ==
    ASSUME PoolInv, NEW j \in Jobs
    PROVE  Cardinality({i \in DOMAIN queue : queue[i] = j}) = IF InQueue(queue, j) THEN 1 ELSE 0
<1>1. /\ queue \in Seq(Jobs) /\ DOMAIN queue = 1 .. Len(queue)
      /\ \A i, k \in 1 .. Len(queue) : queue[i] = queue[k] => i = k
  BY DEF PoolInv, QueueOK
<1> DEFINE q == {i \in DOMAIN queue : queue[i] = j}
<1>2. CASE InQueue(queue, j)
  <2>1. PICK i \in 1 .. Len(queue) : queue[i] = j
    BY <1>2 DEF InQueue
  <2>2. q = {i}
    BY <1>1, <2>1
  <2>3. Cardinality({i}) = 1
    BY FS_Singleton
  <2> QED
    BY <1>2, <2>2, <2>3
<1>3. CASE ~InQueue(queue, j)
  <2>1. q = {}
    BY <1>1, <1>3 DEF InQueue
  <2> QED
    BY <1>3, <2>1, FS_EmptySet
<1> QED
  BY <1>2, <1>3

\* Two threads never run on one object: anti_rt_dispatch refuses an object on
\* the list in_flight, and a job leaves the list only after its worker returned.
THEOREM ObjectsExclusive == PoolSpec => []ObjectExclusive
<1>1. PoolInv => ObjectExclusive
  <2> SUFFICES ASSUME PoolInv, NEW i \in Jobs, NEW j \in Jobs, Running(i) # {},
                      Running(j) # {}, job[i].object = job[j].object
               PROVE  i = j /\ Cardinality(Running(i)) = 1
    BY DEF ObjectExclusive
  <2>1. StacksOK(poolStack) /\ RunnersOK(poolStack, queue, inFlight)
    BY PoolInvFacts DEF Core
  <2>2. ASSUME NEW x \in Jobs, Running(x) # {}
        PROVE  x \in inFlight /\ ~InQueue(queue, x)
    <3>1. PICK p \in Running(x) : TRUE
      BY <2>2
    <3>2. p[1] \in PoolThreads /\ p[2] \in Nat /\ Runs(poolStack, p[1], p[2], x)
      BY <2>1, <3>1, RunningIs
    <3> QED
      BY <2>1, <3>2 DEF RunnersOK
  <2>3. i \in inFlight /\ j \in inFlight /\ ~InQueue(queue, i)
    BY <2>2
  <2>4. i = j
    BY <2>3 DEF PoolInv, RecordsOK
  <2> QED
    BY <2>3, <2>4, RunningCount
<1> QED
  BY <1>1, PoolInvariant, PTL

\* The types of the variables follow.
LEMMA TypeFollows == PoolInv => PoolTypeOK
<1> SUFFICES ASSUME PoolInv
             PROVE  PoolTypeOK
  OBVIOUS
<1>1. /\ StacksOK(poolStack) /\ ParallelOK(poolStack, active, taken, finished)
      /\ inFlight \subseteq Jobs /\ onReady \subseteq Workers /\ onDone \subseteq PoolThreads
  BY PoolInvFacts DEF Core
<1>2. poolStarted \in BOOLEAN
  BY DEF PoolInv, StartOK
<1>3. active = None \/ CallFrame(active).kind = "parallel"
  BY <1>1 DEF ParallelOK, CallOK, PooledAt, Pooled, CallFrame
<1>4. taken \in 0 .. MaxCount /\ finished \in 0 .. taken
  BY <1>1 DEF ParallelOK
<1>5. queue \in Seq(Jobs) /\ last \in Jobs \cup {None}
  BY DEF PoolInv, QueueOK
<1>6. \A j \in Jobs : job[j] = None \/ job[j].object \in Objects
  BY DEF PoolInv, RecordsOK, JobRecords
<1>7. ASSUME NEW t \in PoolThreads, NEW i \in DOMAIN poolStack[t]
      PROVE  poolStack[t][i].kind \in Kinds
  <2>1. poolStack[t] \in Seq(Frames)
    BY <1>1, StackLen
  <2>2. poolStack[t][i] \in Frames
    BY <1>7, <2>1
  <2> QED
    BY <2>2, FrameKinds
<1> QED
  BY <1>1, <1>2, <1>3, <1>4, <1>5, <1>6, <1>7 DEF PoolTypeOK

\* Each job in flight is queued or runs, and at one place.
LEMMA JobsFollow == PoolInv => NoJobLost
<1> SUFFICES ASSUME PoolInv, NEW j \in Jobs, job[j] # None
             PROVE  LET queued == {i \in DOMAIN queue : queue[i] = j}
                    IN  Cardinality(queued) + Cardinality(Running(j))
                            = IF job[j].done THEN 0 ELSE 1
  BY DEF NoJobLost
<1>1. RunnersOK(poolStack, queue, inFlight)
  BY PoolInvFacts DEF Core
<1>2. InQueue(queue, j) => j \in inFlight
  BY <1>1 DEF RunnersOK
<1>3. j \in inFlight <=> ~job[j].done
  BY DEF PoolInv, RecordsOK
<1> QED
  BY <1>2, <1>3, RunningCount, QueuedCount

\* No place holds a job that was freed.
LEMMA FreedFollow == PoolInv => NoFreedJob
<1> SUFFICES ASSUME PoolInv
             PROVE  NoFreedJob
  OBVIOUS
<1>1. RunnersOK(poolStack, queue, inFlight)
  BY PoolInvFacts DEF Core
<1>2. \A j \in inFlight : j \in Jobs /\ job[j] # None /\ ~job[j].done
  BY DEF PoolInv, RecordsOK
<1>3. /\ queue \in Seq(Jobs) /\ DOMAIN queue = 1 .. Len(queue) /\ Len(queue) \in Nat
      /\ last = IF queue = <<>> THEN None ELSE queue[Len(queue)]
  BY DEF PoolInv, QueueOK
<1>4. ASSUME NEW i \in DOMAIN queue
      PROVE  job[queue[i]] # None
  <2>1. queue[i] \in Jobs /\ InQueue(queue, queue[i])
    BY <1>3 DEF InQueue
  <2> QED
    BY <1>1, <1>2, <2>1 DEF RunnersOK
<1>5. last # None => job[last] # None
  <2>1. queue # <<>> => Len(queue) \in DOMAIN queue
    BY <1>3
  <2> QED
    BY <1>3, <1>4, <2>1
<1> QED
  BY <1>2, <1>4, <1>5 DEF NoFreedJob

\* Nobody waits for what is there.
LEMMA WaitsFollow == PoolInv => NobodyOverlooked
<1> SUFFICES ASSUME PoolInv
             PROVE  NobodyOverlooked
  OBVIOUS
<1>1. WaitOK(poolStack, queue, active, taken, finished, job, onReady, onDone)
  BY PoolInvFacts DEF Core
<1>2. onReady # {} => queue = <<>> /\ ~ChunkLeft
  BY <1>1 DEF WaitOK, ChunkLeft, CallFrame
<1>3. \A t \in onDone :
         \/ TopFrame(t).kind = "parallel" /\ finished < TopFrame(t).chunks
         \/ TopFrame(t).kind = "join" /\ ~job[TopFrame(t).job].done
  BY <1>1 DEF WaitOK, TopFrame
<1> QED
  BY <1>2, <1>3 DEF NobodyOverlooked

\* The queue of threads.c loses no job, keeps none that a join has freed, and no
\* thread sleeps on WORK_READY or WORK_DONE while what it waits for is there.
THEOREM QueueIsSound == PoolSpec => []QueueSound
<1>1. PoolInv => QueueSound
  BY TypeFollows, JobsFollow, FreedFollow, WaitsFollow DEF QueueSound
<1> QED
  BY <1>1, PoolInvariant, PTL

\* A call whose chunks are all finished has no chunk that still runs.
LEMMA AllRun ==
    ASSUME NEW S, NEW t \in PoolThreads, NEW i \in Nat, NEW tk, NEW fin,
           StacksOK(S), ParallelOK(S, <<t, i>>, tk, fin), <<t, i>> # None,
           fin = S[t][i].chunks
    PROVE  ChunksRun(S, t, i, tk) = 0 .. S[t][i].chunks - 1
<1> DEFINE act == <<t, i>>
           d == Cardinality(ChunkWorkers(S))
           o == One(Len(S[t]) > i)
           k == S[t][i].chunks
<1>1. act[1] = t /\ act[2] = i
  OBVIOUS
<1>2. /\ tk \in Nat /\ fin \in Nat /\ tk <= k /\ fin + d + o = tk
      /\ fin = k /\ k \in 1 .. MaxCount /\ MaxCount \in Nat
  <2> HIDE DEF act
  <2>1. ParallelOK(S, act, tk, fin) /\ act # None
    BY DEF act
  <2>2. /\ tk \in Nat /\ fin \in Nat /\ MaxCount \in Nat
        /\ S[act[1]][act[2]].chunks \in 1 .. MaxCount /\ tk <= S[act[1]][act[2]].chunks
        /\ fin + Cardinality(ChunkWorkers(S)) + One(Len(S[act[1]]) > act[2]) = tk
    BY <2>1, CallIs
  <2> QED
    BY <1>1, <2>2
<1>3. d \in Nat /\ o \in Nat /\ (o = 0 => ~(Len(S[t]) > i))
  BY ChunkWorkersFinite DEF One
<1>4. tk = k /\ d = 0 /\ o = 0
  <2> HIDE DEF d, o, k
  <2> QED
    BY <1>2, <1>3
<1>5. ChunkWorkers(S) = {}
  BY <1>4, ChunkWorkersFinite, FS_EmptySet
<1>6. \A w \in Workers : ~ChunkOn(S, w)
  BY <1>5 DEF ChunkWorkers
<1>7. \A c : ~ChunkRuns(S, t, i, c)
  BY <1>3, <1>4, <1>6 DEF ChunkRuns
<1> QED
  BY <1>4, <1>7 DEF ChunksRun

\* anti_rt_parallel hands out each element of its slice exactly once before it
\* returns, and never one twice, however its chunks fall on the caller and the
\* workers: work_take gives no index out twice, and slice_of cuts the slice into
\* pieces that neither overlap nor leave an element out.
THEOREM ElementsHandedOnce == PoolSpec => []ElementsOnce
<1>1. PoolInv => ElementsOnce
  <2> SUFFICES ASSUME PoolInv, NEW t \in PoolThreads, NEW i \in DOMAIN poolStack[t],
                      poolStack[t][i].kind = "parallel",
                      NEW e \in DOMAIN poolStack[t][i].ran
               PROVE  /\ poolStack[t][i].ran[e] <= 1
                      /\ (active = <<t, i>> /\ finished = poolStack[t][i].chunks)
                            => poolStack[t][i].ran[e] = 1
    BY DEF ElementsOnce
  <2> DEFINE f == poolStack[t][i]
  <2>1. StacksOK(poolStack) /\ ParallelOK(poolStack, active, taken, finished)
    BY PoolInvFacts DEF Core
  <2>2. poolStack[t] \in Seq(Frames) /\ Len(poolStack[t]) \in Nat
    BY <2>1, StackLen
  <2>3. i \in 1 .. Len(poolStack[t]) /\ i \in Nat
    BY <2>2
  <2>4. f \in ParallelFrames
    BY <2>1, <2>3, StackLen, FrameKinds
  <2> HIDE DEF f
  <2>5. f.ran \in [0 .. f.count - 1 -> Nat] /\ f.inline \in BOOLEAN /\ (f.inline => InlineOK(f))
    BY <2>4, ParallelIs
  <2>6. e \in 0 .. f.count - 1
    BY <2>5 DEF f
  <2>7. CASE f.inline
    <3>1. Handed(f, 0 .. f.index - 1)
      BY <2>5, <2>7 DEF InlineOK
    <3>2. f.ran[e] <= 1
      BY <2>4, <2>6, <3>1, HandedOnce
    <3>3. active # <<t, i>>
      <4> SUFFICES ASSUME active = <<t, i>>
                   PROVE  FALSE
        OBVIOUS
      <4>1. active # None /\ active[1] = t /\ active[2] = i
        BY <2>3, PoolAssumption
      <4>2. PooledAt(poolStack, t, i)
        BY <2>1, <4>1, CallIs
      <4> QED
        BY <2>7, <4>2 DEF PooledAt, Pooled, f
    <3> QED
      BY <3>2, <3>3 DEF f
  <2>8. CASE ~f.inline
    <3>1. PooledAt(poolStack, t, i)
      BY <2>3, <2>8 DEF PooledAt, Pooled, f
    <3>2. active = <<t, i>> /\ active # None /\ active[1] = t /\ active[2] = i
      BY <2>1, <2>3, <3>1, ActiveIs
    <3> DEFINE X == ChunksRun(poolStack, t, i, taken)
    <3>3. Handed(f, X)
      BY <2>1, <3>2 DEF ParallelOK, ChunksOK, f
    <3> HIDE DEF X
    <3>4. f.ran[e] <= 1 /\ (0 .. f.chunks - 1 \subseteq X => f.ran[e] = 1)
      BY <2>4, <2>6, <3>3, HandedOnce
    <3>5. ASSUME finished = f.chunks
          PROVE  0 .. f.chunks - 1 \subseteq X
      <4>1. ParallelOK(poolStack, <<t, i>>, taken, finished) /\ <<t, i>> # None
        BY <2>1, <3>2
      <4>2. ChunksRun(poolStack, t, i, taken) = 0 .. poolStack[t][i].chunks - 1
        BY <2>1, <2>3, <3>5, <4>1, AllRun DEF f
      <4> QED
        BY <4>2 DEF X, f
    <3> QED
      BY <3>4, <3>5 DEF f
  <2> QED
    BY <2>5, <2>7, <2>8
<1> QED
  BY <1>1, PoolInvariant, PTL
==============================================================================
