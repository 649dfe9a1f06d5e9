------------------------------ MODULE WorkerPool ------------------------------
(***************************************************************************)
(* The worker pool behind `parallel`, `dispatch` and `join`,               *)
(* src/src/rt/threads.c.                                                   *)
(*                                                                         *)
(* All state of the pool is read and written under the monitor POOL, and   *)
(* nothing else is taken under it, so what a thread does from one hold to  *)
(* the next release or wait is one action.  The code of the program runs   *)
(* between those actions, on a stack of frames per thread: a body may call *)
(* the pool again, on whatever thread it runs.                             *)
(*                                                                         *)
(* A job is a heap block, named by its address; an address is free for     *)
(* malloc again once its job was freed.  struct jobs of a `parallel` lies  *)
(* in the frame of its caller, and is named by the place of that frame.    *)
(* Memory that runs out stops the program and is left out.                 *)
(***************************************************************************)
EXTENDS Integers, Sequences, FiniteSets

CONSTANTS
    Callers,    \* the threads the program came with
    Workers,    \* the threads the pool may start, worker_count() - 1 of them
    Objects,    \* the objects the program dispatches
    Jobs,       \* the addresses malloc has for struct one
    MaxCount,   \* bound: elements of the slice of a `parallel`
    MaxAsked,   \* bound: chunks that a `parallel` asks for
    MaxLevel,   \* bound: how deep calls of the pool nest
    MaxCalls,   \* bound: calls of the pool a body makes
    None        \* the null pointer

PoolThreads == Callers \cup Workers

\* What is kept of a job: its object and whether it is done.
JobRecords == [object : Objects, done : BOOLEAN]

\* The threads of the pool are its own, and the null pointer is no address of a
\* job and of no struct.
ASSUME PoolAssumption ==
    /\ Callers \cap Workers = {}
    /\ IsFiniteSet(Workers)
    /\ None \notin Jobs /\ None \notin JobRecords /\ None \notin PoolThreads \X Nat
    /\ {MaxCount, MaxAsked, MaxLevel, MaxCalls} \subseteq Nat
    /\ MaxLevel > 0

VARIABLES
    poolStarted, \* whether start_locked has run
    active,     \* the `parallel` that uses the pool: <<thread, frame>> or None
    taken,      \* chunks of it that were taken
    finished,   \* chunks of it that were run
    queue,      \* the jobs from queued along next
    last,       \* queued_last
    inFlight,   \* the jobs on the list in_flight
    job,        \* job[j]: the object of j and whether it is done, None if free
    poolStack,  \* poolStack[t]: the frames of t, innermost last
    onReady,    \* the workers that wait on WORK_READY
    onDone      \* the threads that wait on WORK_DONE

poolVars == <<poolStarted, active, taken, finished, queue, last, inFlight, job,
              poolStack, onReady, onDone>>
parallel == <<active, taken, finished>>
dispatched == <<queue, last, inFlight, job>>

(* Frames.  "main" and "body" are code of the program: the jobs it has       *)
(* dispatched and not joined, and the calls it may still make.  "loop" is    *)
(* worker_main, "chunk" and "job" what it runs.  "parallel" and "join" are   *)
(* calls; ran counts how often each element of the slice was handed out.     *)

Body(calls) == [kind |-> "body", jobs |-> {}, calls |-> calls]

NewBody == Body(MaxCalls)

TopFrame(t) == poolStack[t][Len(poolStack[t])]

Pop(s) == SubSeq(s, 1, Len(s) - 1)

\* Frame s with its innermost frame replaced.
SetTop(s, frame) == [s EXCEPT ![Len(s)] = frame]

CallFrame(call) == poolStack[call[1]][call[2]]

Awake(t) == t \notin onReady \cup onDone

AtKind(t, kind) == Awake(t) /\ poolStack[t] # <<>> /\ TopFrame(t).kind = kind

\* A body on the stack of t has ended and the frame below it has this kind.
Ended(t, kind) ==
    /\ AtKind(t, "body")
    /\ poolStack[t][Len(poolStack[t]) - 1].kind = kind

\* The levels of calls t is in: every call puts itself and a body on the stack.
Level(t) == Len(poolStack[t]) \div 2

\* The frames of t after the program made a call.
Called(t) ==
    [TopFrame(t) EXCEPT !.calls = IF TopFrame(t).kind = "main" THEN @ ELSE @ - 1]

\* t runs code of the program that may call the pool.
MayCall(t) ==
    /\ AtKind(t, "main") \/ AtKind(t, "body")
    /\ TopFrame(t).calls > 0
    /\ Level(t) < MaxLevel

PoolInit ==
    /\ poolStarted = FALSE
    /\ active = None
    /\ taken = 0
    /\ finished = 0
    /\ queue = <<>>
    /\ last = None
    /\ inFlight = {}
    /\ job = [j \in Jobs |-> None]
    /\ poolStack = [t \in PoolThreads |->
                  IF t \in Callers
                  THEN <<[kind |-> "main", jobs |-> {}, calls |-> 1]>>
                  ELSE <<>>]
    /\ onReady = {}
    /\ onDone = {}

-----------------------------------------------------------------------------
(* Chunks *)

\* The chunks a `parallel` runs: as many as the pool has threads if it names
\* no count, and never more than the slice has elements.
ChunksOf(asked, count) ==
    LET chunks == IF asked <= 0 THEN Cardinality(Workers) + 1 ELSE asked
    IN  IF chunks > count THEN count ELSE chunks

\* Mutant: the chunks after the longer ones start where they would if no chunk
\* were longer.
SliceOfNoShift(count, chunks, index) ==
    LET base == count \div chunks
        extra == count % chunks
        length == base + (IF index < extra THEN 1 ELSE 0)
        first == index * base + (IF index < extra THEN index ELSE 0)
    IN  first .. first + length - 1

\* slice_of: the elements of a chunk.
SliceOf(count, chunks, index) ==
    LET base == count \div chunks
        extra == count % chunks
        length == base + (IF index < extra THEN 1 ELSE 0)
        first == index * base + (IF index < extra THEN index ELSE extra)
    IN  first .. first + length - 1

\* A `parallel` frame after run_chunk ran over one of its chunks.
Ran(frame, index) ==
    [frame EXCEPT !.ran =
        [e \in DOMAIN @ |->
            IF e \in SliceOf(frame.count, frame.chunks, index)
            THEN @[e] + 1 ELSE @[e]]]

ParallelFrame(count, chunks, inline) ==
    [kind |-> "parallel", count |-> count, chunks |-> chunks,
     inline |-> inline, index |-> 0, ran |-> [e \in 0 .. count - 1 |-> 0]]

-----------------------------------------------------------------------------
(* start_locked *)

\* The first call of the pool starts its workers and stops at the first the
\* system does not start.  fresh gets the frames of the threads that run.
Start(fresh, frames) ==
    /\ poolStarted' = TRUE
    /\ IF poolStarted
       THEN fresh = {}
       ELSE fresh \subseteq Workers
    /\ poolStack' = [t \in PoolThreads |->
                   IF t \in fresh THEN <<[kind |-> "loop"]>> ELSE frames[t]]

-----------------------------------------------------------------------------
(* anti_rt_parallel.  A call with no chunk to run returns before the pool.   *)

\* The pool is free: the call becomes the active one, and its caller takes the
\* first chunk before it gives the lock back.
Parallel(t, asked, count, fresh) ==
    LET chunks == ChunksOf(asked, count)
        frame == ParallelFrame(count, chunks, FALSE)
    IN
    /\ MayCall(t) /\ chunks > 0
    /\ active = None
    /\ active' = <<t, Len(poolStack[t]) + 1>>
    /\ taken' = 1
    /\ finished' = 0
    /\ onReady' = {}
    /\ Start(fresh, [poolStack EXCEPT ![t] =
                       SetTop(@, Called(t)) \o <<frame, NewBody>>])
    /\ UNCHANGED <<dispatched, onDone>>

\* Another call uses the pool: this one runs its chunks on its own thread.
ParallelInline(t, asked, count) ==
    LET chunks == ChunksOf(asked, count)
        frame == ParallelFrame(count, chunks, TRUE)
    IN
    /\ MayCall(t) /\ chunks > 0
    /\ active # None
    /\ poolStack' = [poolStack EXCEPT ![t] = SetTop(@, Called(t)) \o <<frame, NewBody>>]
    /\ UNCHANGED <<poolStarted, parallel, dispatched, onReady, onDone>>

\* The chunk of an inline call ended: the next one, or the return.
InlineNext(t) ==
    /\ Ended(t, "parallel")
    /\ LET rest == Pop(poolStack[t])
           frame == Ran(rest[Len(rest)], rest[Len(rest)].index)
       IN
       /\ frame.inline
       /\ poolStack' = [poolStack EXCEPT ![t] =
             IF frame.index + 1 < frame.chunks
             THEN SetTop(rest, [frame EXCEPT !.index = @ + 1]) \o <<NewBody>>
             ELSE Pop(rest)]
    /\ UNCHANGED <<poolStarted, parallel, dispatched, onReady, onDone>>

\* Mutant: the call returns once every chunk was taken.
SettleTaken(t, frames, done) ==
    /\ active' = None
    /\ poolStack' = [poolStack EXCEPT ![t] = Pop(frames)]
    /\ UNCHANGED onDone

\* The end of a call that uses the pool, with its frame on top of frames and
\* done chunks finished: a chunk still runs on a worker and the caller waits, or
\* every chunk is done and the pool is free.
Settle(t, frames, done) ==
    IF done < frames[Len(frames)].chunks
    THEN /\ onDone' = onDone \cup {t}
         /\ poolStack' = [poolStack EXCEPT ![t] = frames]
         /\ UNCHANGED active
    ELSE /\ active' = None
         /\ poolStack' = [poolStack EXCEPT ![t] = Pop(frames)]
         /\ UNCHANGED onDone

\* The caller's own chunk ended: it counts the chunk and takes another, or goes
\* on to the end of the call.
CallerNext(t) ==
    /\ Ended(t, "parallel")
    /\ LET rest == Pop(poolStack[t])
           frame == Ran(rest[Len(rest)], rest[Len(rest)].index)
       IN
       /\ ~frame.inline
       /\ finished' = finished + 1
       /\ \/ /\ taken < frame.chunks
             /\ taken' = taken + 1
             /\ poolStack' = [poolStack EXCEPT ![t] =
                    SetTop(rest, [frame EXCEPT !.index = taken]) \o <<NewBody>>]
             /\ UNCHANGED <<active, onDone>>
          \/ /\ taken >= frame.chunks
             /\ Settle(t, SetTop(rest, frame), finished + 1)
             /\ UNCHANGED taken
    /\ UNCHANGED <<poolStarted, dispatched, onReady>>

\* The caller woke up and looks again.
CallerLooks(t) ==
    /\ AtKind(t, "parallel")
    /\ Settle(t, poolStack[t], finished)
    /\ UNCHANGED <<poolStarted, taken, finished, dispatched, onReady>>

-----------------------------------------------------------------------------
(* anti_rt_dispatch *)

\* The job goes behind the one that queued_last points at.  What that pointer
\* does not reach from queued is not in the queue.
Enqueue(j) ==
    /\ last' = j
    /\ queue' = IF last = None
                THEN <<j>>
                ELSE IF \E i \in DOMAIN queue : queue[i] = last
                THEN Append(SubSeq(queue, 1,
                       CHOOSE i \in DOMAIN queue : queue[i] = last), j)
                ELSE queue

\* Whether a job in flight holds the object.
Flying(object) == \E j \in inFlight : job[j].object = object

\* Mutant: an object in flight is given to the pool again.
DispatchAgain(t, object, j, fresh) ==
    /\ MayCall(t)
    /\ job[j] = None
    /\ job' = [job EXCEPT ![j] = [object |-> object, done |-> FALSE]]
    /\ inFlight' = inFlight \cup {j}
    /\ Enqueue(j)
    /\ onReady' = {}
    /\ Start(fresh, [poolStack EXCEPT ![t] =
                       SetTop(@, [Called(t) EXCEPT !.jobs = @ \cup {j}])])
    /\ UNCHANGED <<parallel, onDone>>

Dispatch(t, object, j, fresh) ==
    /\ MayCall(t)
    /\ ~Flying(object)
    /\ job[j] = None
    /\ job' = [job EXCEPT ![j] = [object |-> object, done |-> FALSE]]
    /\ inFlight' = inFlight \cup {j}
    /\ Enqueue(j)
    /\ onReady' = {}
    /\ Start(fresh, [poolStack EXCEPT ![t] =
                       SetTop(@, [Called(t) EXCEPT !.jobs = @ \cup {j}])])
    /\ UNCHANGED <<parallel, onDone>>

\* The object is in flight: the answer is the null job, whose join does nothing.
DispatchNull(t, object) ==
    /\ MayCall(t)
    /\ Flying(object)
    /\ poolStack' = [poolStack EXCEPT ![t] = SetTop(@, Called(t))]
    /\ UNCHANGED <<poolStarted, parallel, dispatched, onReady, onDone>>

-----------------------------------------------------------------------------
(* anti_rt_join, and anti_rt_join_all job by job *)

\* finish_one: off the list of the ones in flight, and done.
FinishOne(j) ==
    /\ job' = [job EXCEPT ![j].done = TRUE]
    /\ inFlight' = inFlight \ {j}

\* The queue without j, which stands in it: the jobs behind it move up.
Without(jobs, j) ==
    LET at == CHOOSE i \in DOMAIN jobs : jobs[i] = j
    IN  [i \in 1 .. Len(jobs) - 1 |-> IF i < at THEN jobs[i] ELSE jobs[i + 1]]

\* Mutant: the end of the queue is lost with its last job.
UnlinkForgetsTail(j) ==
    /\ queue' = Without(queue, j)
    /\ last' = IF last = j THEN None ELSE last

\* The job leaves the queue, wherever it stands, and queued_last is found anew
\* when it pointed at the job.
Unlink(j) ==
    LET rest == Without(queue, j) IN
    /\ queue' = rest
    /\ last' = IF last # j THEN last
               ELSE IF rest = <<>> THEN None ELSE rest[Len(rest)]

\* The job is done: its result is copied out and the block freed.
JoinDone(t, frames, j) ==
    /\ job[j].done
    /\ job' = [job EXCEPT ![j] = None]
    /\ poolStack' = [poolStack EXCEPT ![t] = Pop(frames)]
    /\ UNCHANGED <<queue, last, onDone>>

\* No worker has taken the job: the caller runs it.
JoinTakes(t, frames, j) ==
    /\ ~job[j].done
    /\ \E i \in DOMAIN queue : queue[i] = j
    /\ Unlink(j)
    /\ poolStack' = [poolStack EXCEPT ![t] = Append(frames, NewBody)]
    /\ UNCHANGED <<job, onDone>>

\* A worker runs the job: the caller waits.
JoinWaits(t, frames, j) ==
    /\ ~job[j].done
    /\ \A i \in DOMAIN queue : queue[i] # j
    /\ onDone' = onDone \cup {t}
    /\ poolStack' = [poolStack EXCEPT ![t] = frames]
    /\ UNCHANGED <<queue, last, job>>

\* Mutant: a join leaves the job to the workers.
JoinLookLeaves(t, frames, j) ==
    \/ JoinDone(t, frames, j)
    \/ /\ ~job[j].done
       /\ onDone' = onDone \cup {t}
       /\ poolStack' = [poolStack EXCEPT ![t] = frames]
       /\ UNCHANGED <<queue, last, job>>

\* One turn of the loop of anti_rt_join, with its frame on top of frames.
JoinLook(t, frames, j) ==
    \/ JoinDone(t, frames, j)
    \/ JoinTakes(t, frames, j)
    \/ JoinWaits(t, frames, j)

\* A body joins a job that it dispatched and has not joined.
Join(t, j) ==
    /\ MayCall(t)
    /\ j \in TopFrame(t).jobs
    /\ JoinLook(t, Append(SetTop(poolStack[t], [Called(t) EXCEPT !.jobs = @ \ {j}]),
                          [kind |-> "join", job |-> j]), j)
    /\ UNCHANGED <<poolStarted, parallel, inFlight, onReady>>

\* The caller of the join woke up and looks again.
JoinAgain(t) ==
    /\ AtKind(t, "join")
    /\ JoinLook(t, poolStack[t], TopFrame(t).job)
    /\ UNCHANGED <<poolStarted, parallel, inFlight, onReady>>

\* The job that the caller ran itself ended: it is finished, everybody who
\* waits hears of it, and the block is freed.
JoinRan(t) ==
    /\ Ended(t, "join")
    /\ LET rest == Pop(poolStack[t])
           j == rest[Len(rest)].job
       IN  /\ inFlight' = inFlight \ {j}
           /\ job' = [job EXCEPT ![j] = None]
           /\ poolStack' = [poolStack EXCEPT ![t] = Pop(rest)]
    /\ onDone' = {}
    /\ UNCHANGED <<poolStarted, parallel, queue, last, onReady>>

-----------------------------------------------------------------------------
(* worker_main *)

\* Whether the active `parallel` has a chunk that nobody took.
ChunkLeft == active # None /\ taken # CallFrame(active).chunks

WorkerWaits(w) ==
    /\ AtKind(w, "loop")
    /\ queue = <<>> /\ ~ChunkLeft
    /\ onReady' = onReady \cup {w}
    /\ UNCHANGED <<poolStarted, parallel, dispatched, poolStack, onDone>>

\* A dispatched job comes before a chunk.
WorkerTakesJob(w) ==
    /\ AtKind(w, "loop")
    /\ queue # <<>>
    /\ queue' = Tail(queue)
    /\ last' = IF Tail(queue) = <<>> THEN None ELSE last
    /\ poolStack' = [poolStack EXCEPT ![w] =
                   @ \o <<[kind |-> "job", job |-> Head(queue)], NewBody>>]
    /\ UNCHANGED <<poolStarted, parallel, inFlight, job, onReady, onDone>>

WorkerTakesChunk(w) ==
    /\ AtKind(w, "loop")
    /\ queue = <<>> /\ ChunkLeft
    /\ taken' = taken + 1
    /\ poolStack' = [poolStack EXCEPT ![w] =
          @ \o <<[kind |-> "chunk", call |-> active, index |-> taken], NewBody>>]
    /\ UNCHANGED <<poolStarted, active, finished, dispatched, onReady, onDone>>

WorkerFinishesJob(w) ==
    /\ Ended(w, "job")
    /\ FinishOne(Pop(poolStack[w])[Len(poolStack[w]) - 1].job)
    /\ poolStack' = [poolStack EXCEPT ![w] = Pop(Pop(@))]
    /\ onDone' = {}
    /\ UNCHANGED <<poolStarted, parallel, queue, last, onReady>>

WorkerFinishesChunk(w) ==
    /\ Ended(w, "chunk")
    /\ LET chunk == Pop(poolStack[w])[Len(poolStack[w]) - 1]
           caller == chunk.call[1]
           place == chunk.call[2]
       IN  poolStack' = [poolStack EXCEPT ![w] = Pop(Pop(@)),
                                  ![caller][place] = Ran(@, chunk.index)]
    /\ finished' = finished + 1
    /\ onDone' = {}
    /\ UNCHANGED <<poolStarted, active, taken, dispatched, onReady>>

-----------------------------------------------------------------------------
\* A wait on a condition may end without a wake.
PoolSpurious(t) ==
    /\ t \in onReady \cup onDone
    /\ onReady' = onReady \ {t}
    /\ onDone' = onDone \ {t}
    /\ UNCHANGED <<poolStarted, parallel, dispatched, poolStack>>

\* A call of the pool by code of the program.
Calls(t) ==
    \/ \E asked \in 0 .. MaxAsked, count \in 1 .. MaxCount :
          \/ \E fresh \in SUBSET Workers : Parallel(t, asked, count, fresh)
          \/ ParallelInline(t, asked, count)
    \/ \E object \in Objects :
          \/ \E j \in Jobs, fresh \in SUBSET Workers :
                Dispatch(t, object, j, fresh)
          \/ DispatchNull(t, object)
    \/ \E j \in Jobs : Join(t, j)

\* What a thread does from then on.
PoolStep(t) ==
    \/ InlineNext(t) \/ CallerNext(t) \/ CallerLooks(t)
    \/ JoinAgain(t) \/ JoinRan(t)
    \/ WorkerWaits(t) \/ WorkerTakesJob(t) \/ WorkerTakesChunk(t)
    \/ WorkerFinishesJob(t) \/ WorkerFinishesChunk(t)

PoolNext == \E t \in PoolThreads : Calls(t) \/ PoolStep(t) \/ PoolSpurious(t)

PoolSpec == PoolInit /\ [][PoolNext]_poolVars

\* A thread that is not asleep keeps running, and the code of the program comes
\* to its end.  No wait ends by itself, and nobody has to call the pool.
PoolFairness == \A t \in PoolThreads : WF_poolVars(PoolStep(t))

-----------------------------------------------------------------------------
(* Properties *)

Kinds == {"main", "body", "loop", "chunk", "job", "parallel", "join"}

\* The counters stay within the active call and the lists hold jobs.
PoolTypeOK ==
    /\ poolStarted \in BOOLEAN
    /\ active = None \/ CallFrame(active).kind = "parallel"
    /\ taken \in 0 .. MaxCount /\ finished \in 0 .. taken
    /\ queue \in Seq(Jobs)
    /\ last \in Jobs \cup {None}
    /\ inFlight \subseteq Jobs
    /\ \A j \in Jobs : job[j] = None \/ job[j].object \in Objects
    /\ \A t \in PoolThreads : \A i \in DOMAIN poolStack[t] : poolStack[t][i].kind \in Kinds
    /\ onReady \subseteq Workers
    /\ onDone \subseteq PoolThreads

\* The places where a thread runs the worker of job j, on the pool or in a join.
Running(j) ==
    {p \in PoolThreads \X (1 .. 2 * MaxLevel) :
        /\ p[2] < Len(poolStack[p[1]])
        /\ CallFrame(p).kind \in {"job", "join"}
        /\ CallFrame(p).job = j
        /\ poolStack[p[1]][p[2] + 1].kind = "body"}

\* Two threads never run on one object, the promise of `dispatch`, even when
\* the object is dispatched again from its own worker.
ObjectExclusive ==
    \A i, j \in Jobs :
        (Running(i) # {} /\ Running(j) # {} /\ job[i].object = job[j].object)
            => i = j /\ Cardinality(Running(i)) = 1

\* No job is lost and none runs twice: until a job is done it stands in the
\* queue once or one thread runs it, through every unlink in the middle of the
\* queue and at its end.
NoJobLost ==
    \A j \in Jobs : job[j] # None =>
        LET queued == {i \in DOMAIN queue : queue[i] = j}
        IN  Cardinality(queued) + Cardinality(Running(j))
                = IF job[j].done THEN 0 ELSE 1

\* No list of the pool points at a job that a join has freed, whose address a
\* later dispatch may get.
NoFreedJob ==
    /\ \A i \in DOMAIN queue : job[queue[i]] # None
    /\ last # None => job[last] # None
    /\ \A j \in inFlight : job[j] # None /\ ~job[j].done

\* A thread that runs a chunk runs it for a call that has not returned, and
\* the call is the one the pool counts for.
CallOutlivesChunks ==
    \A t \in PoolThreads : \A i \in DOMAIN poolStack[t] :
        poolStack[t][i].kind = "chunk" => poolStack[t][i].call = active

\* A call of `parallel` hands out each element of its slice exactly once before
\* it returns, and never one twice.
ElementsOnce ==
    \A t \in PoolThreads : \A i \in DOMAIN poolStack[t] :
        LET frame == poolStack[t][i] IN
        frame.kind = "parallel" =>
            \A e \in DOMAIN frame.ran :
                /\ frame.ran[e] <= 1
                /\ (active = <<t, i>> /\ finished = frame.chunks)
                      => frame.ran[e] = 1

\* Nobody sleeps past what it waits for: no worker while there is a job or a
\* chunk to take, no caller whose chunks or whose job is done.
NobodyOverlooked ==
    /\ onReady # {} => queue = <<>> /\ ~ChunkLeft
    /\ \A t \in onDone :
          \/ TopFrame(t).kind = "parallel" /\ finished < TopFrame(t).chunks
          \/ TopFrame(t).kind = "join" /\ ~job[TopFrame(t).job].done

\* The queue and the conditions of threads.c agree with the calls: no job is
\* dropped from the queue, named after its free or left while a thread sleeps.
QueueSound == PoolTypeOK /\ NoJobLost /\ NoFreedJob /\ NobodyOverlooked

\* Every call returns, with any number of workers, none among them, and with
\* calls made inside jobs and chunks.
CallsReturn ==
    \A t \in PoolThreads : Len(poolStack[t]) > 1 ~> Len(poolStack[t]) = 1
==============================================================================
