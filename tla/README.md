# Verification of Anti: runtime, collections, compiler and builds

The repository holds the Anti language: the compiler `antic`, the build tool
`anti`, the runtime that every program links, and the standard library. This
directory models the parts where a test says least: the concurrent core of the
runtime and of the collections, the start of a program and its signals, the
checks of the compiler that reason over every path, what it writes where a block
is left, and builds that are cut off.
The models are TLA+, checked by TLC on small instances, and the theorems are
proved by TLAPS for every value of the constants.

All paths below are under `src/src/` of this workspace's copy of the repository,
except `docs/`, which is `src/docs/`.

## Inventory

| Part | State it keeps | Operations | What makes it correct |
| --- | --- | --- | --- |
| Word lock, `rt/platform_posix.c` | one futex word: 0 free, 1 held, 2 held with a waiter | lock, unlock | exclusion, no lost wake-up |
| Monitors, `rt/platform_*.c` | a lock and two conditions | hold, release, wait, wake one, wake all | those of pthread and Windows; waits may end by themselves |
| Channels, `rt/sync.c` | a ring (head, count, values), closed; the count `waiting` of selects; `turn` per thread | new, send, recv, close, held, delete, select | bounded FIFO, nobody stranded on a condition, no arm of a select hidden |
| Worker pool, `rt/threads.c` | the active `parallel` with `taken` and `finished`; the queue with `queued_last`; the list in flight | parallel, dispatch, join, join_all, the loop of a worker | each element once, each job once, one thread per object, no use of freed memory, every call returns |
| Locks, `rt/lock.c` | owner and depth of an object lock; the stack of held locks per thread; the table of lock orders | lock and unlock of a Mutex, an object, a pair; destroy | re-entry is exact, pairs never deadlock, a deadlock of two locks is reported first, once and truly |
| Plugins, `rt/loaded.c`, `rt/plugin.c`, `rt/registry.c` | 16 slots with live objects and loads, the count of open ones | load, unload, instance, count, registry search | no unload under a live object, loads and closes match |
| Signals, `rt/signal.c`, `rt/platform_posix.c` | handlers, the pending signal, the pipe, its reader | on_signal, route, catch, deliver, pending | the function a thread registered is the one that runs, every signal is delivered |
| Start and configuration, `rt/init.c`, `start.c`, `conf.c`, `inject.c`, `hash.c` | started, ready, the seed; the keys with their layers; the stack of files being read; the providers | init, options, reading of files with includes, injections, configure, get | one start, the strongest layer wins, cycles are refused, values given out stay |
| Concurrent collections, `std/anti/collection/concurrent.anti` | 16 parts with a Mutex, versions and a clock; the counters of a ring for two threads | set, update, set_if_version, walks, whole-map operations, copy, equal; push, pop, removal | versions never repeat, sizes are exact, whole-map operations are atomic, the ring is FIFO |
| Path checks, `antic/sema_free.c`, `antic/sema_uninit.c` | what each pointer or element is on the paths to here | walk of a body | what is refused is wrong on a path, what is wrong on a path is refused |
| Lock-order check, `antic/sema_lock.c` | the graph of locks held and taken, of the module and of its libraries | reading of functions, fixpoints, search for cycles | a program that is accepted makes no cycle of locks |
| Exits of blocks, `antic/lower_stmt.c`, `lower_error.c`, `lower_sync.c`, `lower_function.c` | the scopes with their exit actions, the loops, handlers and `try` blocks around, the temporaries of statements, the value that is moved out | lowering of each statement that opens or leaves a block | on every path each deferred statement runs once, each value, lock and error ends once, and nothing is used after its end |
| Build tool, `anti/` | outputs and their keys in the build directory, `dist/` | order, key, compile, store, deliver; resolve, fetch | keys tell inputs apart, a build delivers what the sources say |
| Pool of slots, other collections | generations, links, tables | claim, free, look up | sequential |
| Rest of the compiler, `antic/` | trees, types, IR | passes | translation, sequential |

How they interact: `sync` blocks lower to `rt/lock.c`, which stands on the word
lock; `send`, `recv` and `select` on `rt/sync.c` and `dispatch`, `join` and
`parallel` on `rt/threads.c` stand on monitors. Code of the program runs
between the calls, on program threads and on workers, and may call any of them
again. Nothing under the monitors of a channel or the pool takes another lock;
`select` takes channel monitors under the monitor SELECT. The collections take
a Mutex per part. `main` of the runtime starts the process, reads the options
and files, makes the providers and calls the program, whose threads then
register signals. The lock-order check of the compiler states for every run of
the program what `rt/lock.c` reports for one. The lowerer writes the calls of
`rt/lock.c` and `rt/sync.c` that a `sync` block, a `recv` or a `select` stands
for, and ends what they hold on each exit. The build tool calls the compiler
through `driver_run` and judges its outputs by the keys beside them.

The hard behaviours are interleavings, wake-ups that reach the wrong waiter,
reads that are stale when used (the second look of a select, `struct jobs` on
the caller's stack, freed jobs, the owner of an object lock, the counters of the
other side of a ring, a digest taken before the compile), limits (capacity,
HELD_MAX, the depth of includes), failures halfway (a library that is refused, a
reader that does not start, a build that is killed) and sequences of legal calls
(unlinking in the queue, orders recorded, reported and forgotten, a key removed
and added again), and exits that start while another is under way. `PROJECT.json` lists each one as a hazard at its line.

## Modules

Runtime:

- `MutexSpec`: the contract of the word of `platform.h`, one variable.
- `WordLock`: the futex code that implements it. One action per atomic
  operation and per system call. `pc` replaces the local `c`, which is compared
  and forgotten at once.
- `FifoSpec`: what `chan T` promises, a bounded FIFO per channel.
- `Channels`: `rt/sync.c`. One action per critical section of a channel, since a
  section touches that channel alone; a select that waits goes in single steps,
  and the monitor SELECT is held from `"look"` to the wait. Values are named by
  their place in the order of the sends. `SendFatal` is the abort of a send on a
  closed channel, after which nothing runs.
- `SelectProgram`: threads that loop over a list of selects, beside threads that
  send and close. It composes `Channels` with a program, so that what a select
  owes over time can be stated.
- `WorkerPool`: `rt/threads.c`. One action per critical section of the pool.
  Each thread has a stack of frames, so bodies of jobs and chunks call the pool
  again. A job is an address that `malloc` reuses after the free; `struct jobs`
  is named by its place on the caller's stack; `queued_last` is a variable of
  its own and an append goes where it points.
- `ObjectLocks`: `rt/lock.c` in a dev build, over words that keep `MutexSpec`.
  A thread nests `sync` blocks and leaves them innermost first, as the language
  makes it. Writes of owner and word are actions of their own.
- `Plugins`: `rt/loaded.c`, the loader of `rt/plugin.c`, and the callers that
  count objects: `registry.c`, `object.c`, `hooks.c`, `std/anti/plugin.anti`. A
  section under the lock of the slots is one action; opening and closing a
  library, code of a library and the question for an image are steps outside it.
  The platform (`Open`, `Close`, `ImageAt`) is external: it counts opens and maps
  a library at any free base, so a base and a slot may come to serve another
  library. The program calls load and unload of one `Library` from one thread at
  a time, but other threads may use its handle meanwhile, and no thread ends an
  object another one is copying or ending. Tables of stubs live and die with the
  image.
- `Startup`: the start up to `main` and `rt.configure` after it. A name is a key
  or an interface, a value is the layer and the file that gave it and the block
  of its bytes. A file is read as a stack of the files that include each other,
  a step per include and per key. The constructor of a library for C calls
  `anti_rt_init` too: before `main`, while the call of `main` is under way, or later
  on another thread.
- `Signals`: `rt/signal.c` over the pipe of `rt/platform_posix.c`. Threads
  register functions, the system raises signals at any time, the handler writes
  a byte, the reader takes it, looks the function up under the lock and calls it
  after the lock; a function may register another.

Collections:

- `ConcurrentMap`: each body that runs under the Mutex of a part is one step;
  calls that go over the parts take a step per part, and calls that hold them
  all take the Mutexes one by one. What walks and version tokens ought to see is
  kept as history.
- `SpscRing`: one step per load, store and move of an element, by the producer
  and by the consumer; `inside` is what the ring should hold.

Toolchain:

- `PathChecks`: the walks of `sema_free.c` (use after `delete`) and
  `sema_uninit.c` (read of an element before it is written), which share their
  shape: a state per path, joins, loops walked twice, exits that run `defer` and
  `undo`. Beside them stands the set of paths of the same body, and the checks
  are compared with it. For a read the reference takes over the rules of
  `docs/decisions.md:3206` and `:3230` on what counts as a write; see "Left out".
  Recursive over the body.
- `LockOrder`: `sema_lock.c` over a program of several modules, with what a
  library file carries of its own edges, and the threads of the program that
  take the locks. The checks are computed when a module is built, and the
  program runs when all are accepted.
- `Exits`: what the lowerer writes at the exits of blocks, followed along one path
  of the function it lowers. `low` is `struct lowerer` where the path stands: the
  chain of scopes with their exit actions, the loops, handlers and `try` blocks,
  the temporaries, `moved`, and what is lowered next. A jump goes to the lowerer
  as it stands at the target, which is how a block of the IR is reached. A *duty*
  is a value, a lock, an error or a deferred statement that the path gave rise to
  and that has to come to its end. Conditions are free, so each branch, arm, turn
  and failing call is a path. `phase` becomes `"crashed"` where
  `lower_run_defers_to` would read past the end of the chain.
- `BuildCache`: a dev build by `anti build`. A digest is what it is of, so a key
  and an output have one form, and an output carries all it was made from. A
  build may be killed or fail at every step, and what it writes in place stays
  torn.

Proofs: `ChannelsProofs`, `WorkerPoolProofs`, `ObjectLocksProofs`,
`ConcurrentMapProofs`, `SpscRingProofs`, `PluginsProofs` and `BuildCacheProofs` each
extend the module they are named after, and `ProcessProofs` extends `WordLock`,
`Startup` and `Signals`.

The `MC*` modules give the constants values; `MCProcess`, `MCProgress`,
`MCConcurrent` and `MCToolchain` put parts of the system in one run, with a
`subject` that says which of them a behaviour is of. `MCExits` holds the functions
that are lowered: two of thirteen kinds of block, one in the other, around each
exit the text allows there, and deferred statements with exits of their own; its
other families are the functions of the findings. In `MCProcess` the signals
and the lock come after the start. Operators marked *Mutant* change one
definition the way a bug would; no specification uses them, and `PROJECT.json`
names the property each one breaks.

The properties of a module are conjunctions of named parts. The runs check
`WordSound`, `SettingsRight`, `HandedOutStays`, `SignalsRight`, `NobodyStranded`,
`QueueSound`, `RecordSound`, `CountsExact`, `MapSound`, `RingSound`, `FreesExact`,
`FillsExact`, `LockCheckExact` and `CacheSound` as one invariant each; the type
invariant of a module, where it has one, is a conjunct of one of them.

## Runs

| Run | Instance | What it shows |
| --- | --- | --- |
| `process` | start: 4 files of 48 include graphs, 2 names, depth 2, 4 files; signals: 2 signals, 2 registering threads and the reader, 3 registrations, 3 raises; word: 4 threads | strongest layer wins, providers fixed at start, cycles refused, bytes given out stay, ready means seeded whoever starts the runtime beside or after `main`; the newest function answers, every signal arrives; exclusion, the word tells its holder, no lost wake-up, refinement of `MutexSpec`, sleepers progress |
| `channels` | 3 threads, capacities 1 and 2, 3 sends per channel | nobody stranded on NOT_EMPTY, NOT_FULL or SELECT_READY; refinement of `FifoSpec` |
| `progress` | 2 selecting threads, 1 feeder, 2 channels; 1 caller, up to 1 worker, calls inside bodies | a select with a ready channel returns, and no arm is hidden for good; every call of the pool returns, where a body calls the pool too |
| `select_hidden` | 1 thread on two selects of 2 channels | **violated**, see Findings |
| `pool` | 2 callers, up to 2 workers, 3 jobs, slices up to 3 | the safety properties of the pool |
| `locks` | deep: 2 of 3 threads at a time, 2 objects, 1 Mutex, HELD_MAX 2, 3 blocks deep; wide: 3 threads, 3 objects, one block each, memory reused | locks match blocks, the record is true, a deadlock of two is reported, once, truly; `sync a, b` makes no cycle of waits |
| `lock_reuse` | 1 thread, 2 objects, memory reused | **violated**, see Findings |
| `plugins` | 2 threads, 3 libraries and a refused one, 2 slots, 3 owners, 2 objects | no library closes under its objects or its code; live objects, loads and opens are exact |
| `plugin_arena` | 1 thread, 1 library, an arena | **violated**, see Findings |
| `concurrent` | 2 threads, 2 maps of 2 parts, 2 keys, 2 changes, 1 token; a ring of 3 slots, 6 pushes | versions tell every change, sizes are exact, a walk shows each key that stayed, `*_one` acts on the only match, no ring of threads waits for each other's parts; the two sides never touch one slot, the ring is FIFO under removals, no element has two places |
| `toolchain` | some 80000 bodies up to 4 statements with nesting; 5 functions in 2 libraries and a program, 3 locks, 2 threads; 3 modules of every import graph, 2 edits, 1 kill or failure of the system; functions of two nested blocks around each exit, with up to 22 places that owe an end, 2 turns of a loop | what the path checks refuse is wrong on a path and the reverse, for reads by the rules of C1 on loops; accepted programs make no lock cycle and refused ones have one; keys tell outputs, a build delivers what a clean one would, and does nothing twice; every path out of a function ends what it owes once, and deferred statements see what they name alive |
| `exit_undo` | one function with `undo`, `defer` and two calls that fail | **violated**, see Findings |

Bounds. Four threads on the word give a holder, a thread on the fast path and
two sleepers at once. Capacity 1 puts full and empty one step apart, capacity 2
with three sends wraps the ring. `turn` counts modulo `TurnWrap`, 2 or 4 in
place of 2^32, a power of two like it. Two workers beside two callers let a wake
reach the wrong waiter; three job addresses let `malloc` give one that was freed or
another. With two objects at most two jobs are queued, and no body of a job
dispatches, so a job unlinked from the middle of the queue and a dispatch from the
worker of the object itself are covered by the theorems `QueueIsSound` and
`ObjectsExclusive` only. `progress` has one caller, so two that wait on WORK_DONE
rest on `QueueSound`. HELD_MAX
is 2 in place of 32, and three blocks, pairs among them, cross it by more than
one lock. ANTI_PLUGIN_MAX is 2 in place of 16, so that slots fill up and are
used again; three owners give a library that closes, one that shares its slot
and one that comes after it. `ArenaLive` stops the count that finding 3 lets
grow. Include depth 2 and 4 files stand for 32 and 256: a chain of four is
deeper, and a file that is included twice reaches the count. Three registrations
let a function be replaced while a signal is under way, twice. Two parts with
two keys in any placement give keys that share a part and keys that do not, and
two changes per part give a version that could repeat. A ring of three slots
with six pushes wraps twice. A third version of a source is one that does not
compile; two edits change a source and put it back; the one kill falls anywhere
in a build, before, in or after an output or its key. Two blocks around an exit give an inner and an outer scope with a scope
between, and two turns of a loop a value that lives on from the turn before;
`Sites` numbers the places of the longest text. Three modules hold every shape of a cycle beside an ordered module.
Where threads, jobs or objects differ in nothing but the name, the safety runs
use symmetry; the runs with liveness do not.

Deadlock is checked where the system cannot rightly stop: `pool` and `plugins`.
A program of channels whose threads all wait for a value nobody sends stands
still, and so does one that aborted or exited; nested `sync` blocks of opposite
orders deadlock, which is what the report is for; the bounds stop the others.

Fairness. A thread inside a function of the runtime keeps running (weak
fairness per thread): the operating system schedules it, and the monitors are
held for a bounded number of steps. No thread has to call anything, except the
loops of `SelectProgram`, whose premise is that they go on; no wait ends by
itself; the holder of a word need never release it. In `WorkerPool` bodies end,
and make at most `MaxCalls` calls; a body that never ends keeps its caller in
`join` by design. The system runs the handler of a raised signal, and the reader and
a thread inside `on_signal` go on; no thread has to register or raise anything,
and a function called for a signal returns.

## Findings

1. `select_hidden`. `turn` (`rt/sync.c:258`) is one counter per thread for all
   selects. A loop with two selects of two arms advances it by two per turn, so
   each select starts at the same arm for ever, and a channel that is always
   ready there hides the other. The comment at `rt/sync.c:56` and
   `docs/decisions.md:1516` say it does not. With one select in the loop they
   are right: `progress`.
2. `lock_reuse`. `order_forget` runs in `anti_rt_mutex_destroy` alone. An object
   made where another was freed inherits the orders of its hidden lock, and the
   dev build reports a conflict of two locks that never were taken in opposite
   orders. Without nesting at reused addresses every report is true: run `locks`.
3. `plugin_arena`. `Object.deserialize` runs the `init` of the class, whose
   `created` hook counts the object against its library. `destroy(p, from)`, which
   `rt/registry.c:889` names as the end of such an object, runs the teardown and
   counts nothing off (`rt/object.c:1140`); only `delete(p, from)` does. After it
   `unload` fails with `IN_USE` for good, where `std/anti/plugin.anti:97` says that
   it does so while an object is alive. Nothing unsafe follows: `CodeStays` holds
   with arenas too.
4. `exit_undo`. `run_deferred_stmt` gives a deferred statement a scope with the
   actions that have not run yet, so that an error of it leaves from there
   (`antic/lower_stmt.c:1860`). In the second pass of a failing exit that scope
   still holds the `undo` statements declared before it, which the first pass ran.
   In `try { undo f(); defer g(); h(); } catch { }` an error of `h` runs `f`, then
   `g`, and an error of `g` runs `f` again.

Other disagreements were met and are not runs of their own. The first three are
seen by TLC in the models here, with the constant that is named:

- A source edited during a build and put back later (`EditsWhileBuilding = TRUE`).
  `cache_key` reads the source for its digest (`anti/build.c:311`) and
  `driver_run` reads it again for the compile. An edit between the two leaves an
  output under the key of a text it was not made from, and the next build reuses
  it and delivers a program that is not made from the sources, against
  `anti/cache.c:4`. Without edits during a build `DeliversFresh` holds, whatever
  fails or is killed.
- Temporaries (`Family = "temps"`). `forward_to_try_block` (`antic/lower_error.c:95`)
  and a `yield` out of a `switch` end no temporary of the statement they leave, so
  in `try { f(Box.make(i).n); } catch { }` the box is never torn down when `f`
  fails. `antic/lower_stmt.c:1379` says that it lives to the end of the statement
  and is then torn down.
- A received value (`Family = "recv"`). `lower_loop` lowers the body of a `do`
  before its condition, so the exits of the body do not have the exit action of a
  `recv` in the condition: in `do { if n == 3 { return; } } while f(recv(c))` a
  return in the second turn leaks the value of the first test.
  `antic/lower_stmt.c:64` says that it is torn down on every exit.
- A deferred call inside the body of a `try` within another `try` that holds the
  `defer`: the call is lowered with the inner `try` as the one that takes its
  error, whose scope is not on the chain of the deferred statement, and
  `lower_run_defers_to` walks past its end. antic itself stops with a bad access
  on `try { defer g(); try { h(); return; } catch { } } catch { }`, where
  `tests/matrix/flow_defer_failing_call_in_try.anti:1` says that the handler of
  the block takes the error.
- When a deferred call fails while an error is on its way to a `try` block, its
  error takes the place of the first one, which nothing deletes. When a deferred
  call fails during `return x`, the block's handler runs and `x` is neither
  returned nor torn down, since `moved` passes over it. A `recv` in a deferred
  statement leaves its exit action in the scope that is dropped after it.
- `std/anti/os.anti:42` says that a loop reads each signal once from `pending`,
  and the runtime keeps one word, so a second signal without a function replaces
  the first (`rt/signal.c:24`).
- The uninitialized-read check refuses the read of a computed index after every
  index was written by a constant, since it follows constant and named indices
  apart.

The functions of `Family = "sound"`, over which `EndsExact` is checked, keep away from
the shapes of finding 4 and of this list: `LosesTemp` names those with a
temporary, a `recv` stands in the condition of a `while` only, and a deferred
statement that fails does so at the end of its block, at a `break` or at a
`continue`, where none of them arises. `EndsExact` says nothing of a deferred call
that fails while an error or a `return` is under way.

## Proofs

Each theorem holds for every value of the constants that meets the named
assumption of its module, those the runs use as bounds among them. The runs
check the same properties on small instances, and TLC checked each inductive
invariant before it was proved.

`ProcessProofs`, the part on `WordLock`. The only assumption is that `NoThread` is no thread.

- `AlwaysSound` (`WordSound`: the type invariant, and the word is 0 exactly while
  nobody holds it) and `Exclusive`: from the inductive invariant
  `TypeOK /\ MutualExclusion /\ WordTells`. Mutual exclusion alone is not
  inductive, because a state with a holder and the word at 0 satisfies it and
  the next compare-and-swap breaks it; `WordTells` rules that state out.
- `WakeupNotLost`: `NoLostWakeup` is inductive with `TypeOK`. The step that
  matters is the exchange: it leaves the mark on the word also when it takes it.
- `KeepsContract`: the futex code implements `MutexSpec`. Each step that changes
  the set of holders is a take of a free word or a give by the holder, by the
  same invariant, and every other step is a stutter.

`ProcessProofs`, the part on `Signals`. Signals are positive numbers, the reader
registers nothing from outside a function.

- `SignalsAlwaysRight`: a signal that is caught finds a function, at least as new
  as the last registration that had returned when it was raised. `SigInv` follows
  a raise on its whole way, through the handler, the pipe and the reader: what it
  must find is never newer than the table (`TableLeads`, `CallsBehind`,
  `WayBehind`), and a signal is routed only once its function is in the table
  (`CaughtRouted`).

`ProcessProofs`, the part on `Startup`. The key of the seed is a name and no
interface; the files and their includes are any.

- `HandedOutAlwaysStays`, `CycleNeverEntered`, `OptionsAlwaysWin`. `StartInv` says
  which bytes a name has and that no two names share them (`CellsOK`), that the
  seed is drawn by one call before anything is set and before `ready` (`OrderOK`), that what was handed out came
  after the start (`HeldLate`), and that a file is read below others only
  (`ReadingOK`). `BytesStay` alone is not inductive, because a key that shared its
  bytes with another would change it.
- `SettingsAlwaysRight` (`SettingsRight`): each name has the value of its strongest
  layer, and no cycle of includes passes. The layers speak of whole files (`Giver`,
  a solution of one equation per file that is reached), while `read_file` stands in
  the middle of several. `LayerInv` adds to `StartInv` that the open files are a path
  of includes (`ChainOK`) and what they have given so far (`Told`): the innermost that
  gave a name gave its value, each frame by its keys that are set, else by the last of
  the includes behind it. `Told` speaks of the files `D` that were read to their end.
  `D` is closed under includes, and every part of it has a file none of whose includes
  is in the part (`Ended`); a file joins `D` only after its includes, so this is kept.
  From it follow, by a least counterexample in place of an induction over data, that
  `D` has no cycle (`NoLoop`) and that the equations of the layers have one solution
  on it (`SolveOne`). When a file ends, what it gave as the innermost is what it gives
  as an include (`ToldEnd`).

`ChannelsProofs`. Threads are finitely many, capacities are at least 1 and a
select has an arm.

- `NobodyIsStranded`: with `RingOK`, `CallOK` and `WaitingExact`. A woken receiver
  may find its value taken by another, so the invariant counts the values against
  those awake.
- `SelectNotStranded`: `SelectSeen` says that an arm a select passed in its second
  look became ready only by a thread that is yet to tell the selects; the
  condition on the sleeping select alone says nothing of a select that still
  looks.
- `KeepsFifo`: the ring implements `FifoSpec`. By `RingOK` a send writes the slot
  behind the values that are held, and none of those; a receive shifts the sequence
  by one place round the end of the ring.

`WorkerPoolProofs`. Workers are finitely many and no callers; the null pointer is no
job, no record of one and no place of a call; calls may nest one deep at least.

- `PoolInvariant`: `PoolInv` relates the stacks of the threads to the state that the
  monitor of the pool guards. On a stack code and calls take turns (`StacksOK`). A
  chunk taken is finished, or runs on one worker, or is the caller's own, so
  `taken = finished + workers at a chunk + the caller's own` (`CallOK`); the chunks
  that run have different indices, and the elements handed out are those of the
  chunks that were taken and run no more (`ChunksOK`). A job in flight is in the
  queue or runs at exactly one place (`RunnersOK`) and one place will free it
  (`OwnersOK`). Who sleeps has nothing to take (`WaitOK`).
- `CallsOutliveChunks`: the caller leaves when `finished` is the number of chunks;
  by the count no worker is at a chunk then. The property alone is not inductive: a
  state with a chunk on a worker that is not in the count satisfies it, and the
  caller's next look breaks it.
- `ObjectsExclusive`, `QueueIsSound`: by the places of `RunnersOK` and `OwnersOK`,
  which say what a free and a `join` that takes its own job from the queue leave
  behind, and by `QueueOK`, that `queued_last` is the end of the queue.
- `ElementsHandedOnce`: `slice_of` cuts a slice of any length into any number of
  pieces that do not overlap and leave nothing out (`SlicesApart`, `SlicesCover`, by
  arithmetic on quotient and rest), and by `ChunksOK` no chunk is counted twice.

`ObjectLocksProofs`. Threads are finitely many; a lock is the number of its address,
and no Mutex is the lock of an object.

- `LocksAlwaysMatch`: words, owners and depths are what the blocks of a thread say,
  less or more what is under way.
- `NeverWaitInCycle`: along any ring of waiting threads the locks would strictly
  rise in the order of their addresses.
- `RecordAlwaysTrue`: the stack of held locks is layered block by block and lacks
  only what did not fit.
- `DeadlockAlwaysReported` and `RecordAlwaysSound` assume `Reuse = FALSE`: with
  memory reused they are false, which is finding 2. `TableInv` says that the orders
  on record were taken, that both orders of two locks are there only with a report,
  and that a thread that waits has put its order on record.

`ConcurrentMapProofs`. Callers and keys are finitely many, a map is a number, and
there is one.

- `MapAlwaysSound`, `WalkAlwaysTrue`, `OnlyMatchAlways`, `NeverPartCycle`,
  `CasAlwaysExact`, all from `MapInv`: the clock of a part is past every version it
  gave and a token is never from the future, so no version comes twice (`PartsOK`,
  `TokenOK`); a copy fills a map nobody else can reach (`CopyOK`); Mutexes are taken
  in one order of maps and parts (`LockOK`); a walk has seen what stayed, but for
  what is still ahead of it (`WalkOK`); an `_one` form holds the parts it counted
  (`OneOK`). `StampsMatch` alone says nothing of a call that holds some parts only.

`SpscRingProofs`. The ring has a slot at least; the pushes are bounded by any number.

- `RingAlwaysSound`, from `RingInv`. `RingSound` speaks of the slots alone and is not
  inductive: what a side does next hangs on its copy of the other's counter. The copies
  lag on one side only, `takenSeen <= taken <= givenSeen <= given <= takenSeen + N`
  (`CountsOK`), so the positions in use span at most N and by `PlaceApart` share no
  slot: the producer's next slot is none of them, and a move within the view leaves
  the others alone (`ChangeKeeps`). The loop of `remove_all` has an invariant of its
  own (`Looped`): below the elements that stay is empty room, and above the loop's
  position the row is what it was without those that go. That the loop keeps it for
  any number of turns, and that the recursive function for the turns exists, is shown
  by the least turn at which it would fail (`LeastOf`).

`PluginsProofs`. Threads, owners and objects are finitely many; `None` is no
library, base, image or slot.

- `CodeAlwaysStays`: from `PluginInv` by the lemma `NothingAlive`, that a live count
  of 0 leaves no object of the library and no thread in its code. The sum of
  `LiveExact` has a part that is subtracted, the objects whose hook is yet to run,
  so the lemma needs that each of them is an object of its own, named by one thread
  (`HoldOK`), and that one who copies counts on the object that is copied.
- `CountsAlwaysExact`: live objects by a balance that each step keeps
  (`LiveMoves`), loads by the owner whose handle the step moves (`OwnMoves`), opens
  by the slot and the call that hold the library (`OpenMoves`).

`BuildCacheProofs`. There is at least one module; imports are any relation between
modules, cycles among them.

- `NeverAgain` (`NothingAgain`), from `BuildInv`. The property alone is not inductive:
  it says nothing of the keys on which the next build decides. `BuildInv` follows a
  build through its plan. Each module stands after those it imports (`OrderOK`),
  what is to do is the rest of the plan (`TodoOK`), and in a build that no edit
  disturbed each output before the current one has the key a run would ask for now
  (`DoneOK`), as all outputs have while `same` (`SameOK`). What makes it inductive is
  that a key takes its parts from earlier places of the plan only (`KeyStays`, by
  `ClosureBefore`), so that a compile changes no key that was settled. Edits during a
  build are allowed.
- `CacheAlwaysSound` (`CacheSound`) assumes `EditsWhileBuilding = FALSE`: with an edit
  between the read for the key and the read for the compile it is false, which is the
  hazard at `build.c:311`. `FreshInv` adds that a whole key is what its output was
  made from. The clean build that the delivered program is compared with is a
  recursive function over the imports; `CleanOne` shows by the least place at which two
  would differ that along an order of the modules there is only one, so the library
  files of a finished build are it.

Only model-checked:

- Liveness, which this prover does not reach: no theorem is about fairness.
- `PathChecks`, `LockOrder` and `Exits`, which are recursive over programs and
  compare what is computed with what paths do.

## Left out of the models

- Memory that runs out and null handles stop the program and appear nowhere. The
  hash table behind the lock orders is a set, the bytes of values and results are
  names. Cycles of three locks are not reported by `rt/lock.c` and no property
  says they are. A job captured by a closure is joined by the body that
  dispatched it here.
- `Plugins`: the checks of the table of a library are one outcome, and discovery
  in directories is left out. The open of a library runs no code of it: its
  constructors may make objects before the slot is claimed (`rt/plugin.c:958`,
  `rt/loaded.c:27`), and `CodeStays` and `CountsExact` say nothing of those.
- `Startup`: values are opaque, so the parsing of TOML, numbers and booleans is
  one refusal. A constructor that comes before the call of `main` runs on the thread of
  `main`, as `rt/init.c:10` requires ("before the program starts a thread"): were it
  still at work on another thread, the call of `main` would return, and the seed drawn
  after an option had set the key would replace it. `Signals`: a full pipe, and the console thread of Windows.
- `ConcurrentMap`: the growth of a part's table; callbacks only read or change
  the value they are given.
- `PathChecks`: conditions are free, so both branches of each are paths;
  expressions are statements of their own; closures, parts of literals, fields of
  `own` values, bindings of `for` and the wording of a refusal are left out. What
  a deferred statement frees is gone after the exit that ran it, as the code runs
  it on a copy (`docs/decisions.md:3233`). A read before a write is judged by the rules
  of `docs/decisions.md:3230`, which the check and the reference share: a loop every turn
  of which writes at a computed index, or lets the buffer leave, writes the whole range,
  and the path that leaves a loop at its head or tail has taken a turn. So the path on
  which a loop that fills takes no turn is not followed, and a body that reads unwritten
  memory only there, or only where the loop left indices out, is accepted by the check
  and passes `FillsExact`. The rule takes every such loop for one over the range.
- `LockOrder`: generic functions of other modules, the text of a message and the
  choice of the shortest path to name. `unchecked(lock-order)` drops the message
  and nothing else. `sync a, b` orders its locks at run time and adds no edge
  (`docs/decisions.md:3209`).
- `Exits`: the stages of the base part of a constructor, temporaries of the
  condition of an `if` or a loop, ends of lifetimes (which tell LLVM about a slot
  and end nothing), the chain of values of an expression, and blocks that are
  never reached. The hooks `failed` and `leave` are one duty.
- `BuildCache`: an edit changes the text of a module and never what it imports, so the
  key taken from the imports of the library file that stands and the one taken again
  after the compile (`anti/build.c:315`) are over the same modules. A release build, a library for C, packages and the archive of the
  runtime. `cache_drop` ignores a remove that fails; the model has it succeed. Two
  builds at once in one directory take no lock and are not modelled.

## Not modelled

The lexer, the parser, the type checks, the lowering of expressions, the emission of LLVM text, the
formats of library and object files, the linker, the binding generator, the
formatter and the documentation writer are sequential translations of text and
trees. A model of them would repeat the code in another language, and what can go
wrong there is data, which their tests feed. They are two thirds and more of the
lines of the repository, so the share of lines that the map names stays small.
The readers of TOML, JSON, regular expressions, zip and hashes, and the calls of
files and clocks are pure functions over bytes or the system. The collections
other than the concurrent ones are sequential. `PROJECT.json` lists each part
with its reason.

## Plan

1. Done: the word lock with proofs, channels and select, the pool, the locks,
   the plugins, the start, signals, the concurrent collections, two path checks,
   the lock-order check, the exits of blocks, builds and their cache.
2. Done: the theorems above, for every safety invariant of the runtime and of the
   build cache that a run checks.
3. Left: the compiler's checks (`PathChecks`, `LockOrder`, `Exits`) stay with TLC, as
   their properties compare recursive walks over programs.
