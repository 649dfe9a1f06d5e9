-------------------------------- MODULE Startup --------------------------------
(* The start of a program: anti_rt_init, the options under --anti., the         *)
(* configuration file with its includes, the injections and rt.configure.       *)
(* A name is a key of [runtime] or an interface of [injections], a value the    *)
(* place that gave it.  Reading a file is a stack of the files that include     *)
(* each other.                                                                  *)
EXTENDS Integers, Sequences

CONSTANTS
    Files,          \* files that may be named or included
    Root,           \* the file the command line or rt.configure names
    Graphs,         \* the includes of each file, in order: functions of Files
    Contents,       \* the names each file sets: functions of Files
    Names,          \* keys and interfaces
    Interface,      \* the name of Names that is an interface
    SeedKey,        \* the key hash_seed
    IncludeDepth,   \* ANTI_CONF_INCLUDE_DEPTH
    IncludeFiles,   \* ANTI_CONF_INCLUDE_FILES
    Mains,          \* the threads of main that configure and read keys
    NoFile

ASSUME StartupAssumption ==
    /\ Root \in Files /\ NoFile \notin Files
    /\ Graphs \subseteq [Files -> Seq(Files)]
    /\ Contents \subseteq [Files -> SUBSET Names]
    /\ Interface \in Names /\ SeedKey \in Names \ {Interface}
    /\ IncludeDepth \in Nat /\ IncludeFiles \in Nat \ {0}

VARIABLES
    graph, sets,   \* what stands in the files: includes, and the names each sets
    command,       \* the names that options set
    atStart,       \* --anti.conf or ANTI_CONF names the file
    stage,         \* init, options, read, inject, main, and exit
    why,           \* what ended the program
    started, ready, initing,   \* the flags of anti_rt_init and its next step
    late,          \* the constructor of a library for C: it came not yet, runs, is done
    seed,          \* of the hashes: the constant, drawn, or the block of the key
    stack,         \* the files being read, the innermost last
    files,         \* the files read so far
    fileRead,      \* the atomic of the same name
    value,         \* of each name: its layer, the file of it and its bytes
    cells, live,   \* blocks made so far, and those not freed
    provider,      \* the layer that gave the interface its object
    held           \* the bytes each thread has from anti_rt_conf_get

input == <<graph, sets, command, atStart>>
initVars == <<started, ready, initing, late>>
keyVars == <<value, cells, live, seed>>
startVars == <<input, initVars, keyVars, stage, why, stack, files, fileRead,
               provider, held>>

\* enum layer.
BUILD == 0
FILE == 1
COMMAND == 2

\* A seed that no key set.
CONSTANT_SEED == 0
DRAWN == -1

Unset == [layer |-> BUILD, from |-> NoFile, cell |-> 0]

StartInit ==
    /\ graph \in Graphs
    /\ sets \in Contents
    /\ command \in SUBSET Names
    /\ atStart \in BOOLEAN
    /\ stage = "init" /\ why = "none"
    /\ started = FALSE /\ ready = FALSE /\ initing = "no" /\ late = "no"
    /\ seed = CONSTANT_SEED
    /\ stack = <<>> /\ files = 0 /\ fileRead = FALSE
    /\ value = [n \in Names |-> Unset]
    /\ cells = 0 /\ live = {}
    /\ provider = -1
    /\ held = [t \in Mains |-> 0]

\* startup_error, and the end of --anti.help and --anti.inspect.
Exit(reason) == stage' = "exit" /\ why' = reason

-----------------------------------------------------------------------------
(* anti_rt_init. *)

\* Mutant: the flag is up before the seed is drawn.
InitBeginReady ==
    IF started THEN UNCHANGED <<started, ready, initing>>
    ELSE started' = TRUE /\ ready' = TRUE /\ initing' = "seed"

\* The compare-and-swap of started.  A second call returns at once.
InitBegin ==
    IF started THEN UNCHANGED <<started, ready, initing>>
    ELSE started' = TRUE /\ initing' = "seed" /\ UNCHANGED ready

\* The call of main, which a constructor on its own thread comes before.
InitMain ==
    /\ stage = "init" /\ initing = "no"
    /\ InitBegin
    /\ stage' = IF started THEN "options" ELSE stage
    /\ UNCHANGED <<input, keyVars, late, why, stack, files, fileRead, provider,
                   held>>

\* anti_rt_hash_seed_start.
SeedStart ==
    /\ initing = "seed"
    /\ seed' = DRAWN
    /\ initing' = "ready"
    /\ UNCHANGED <<input, started, ready, late, value, cells, live, stage, why,
                   stack, files, fileRead, provider, held>>

\* The flag goes up and the call returns, to the constructor or to main.
InitReady ==
    /\ initing = "ready"
    /\ ready' = TRUE /\ initing' = "no"
    /\ late' = IF late = "runs" THEN "done" ELSE late
    /\ stage' = IF stage = "init" /\ late # "runs" THEN "options" ELSE stage
    /\ UNCHANGED <<input, keyVars, started, why, stack, files, fileRead, provider,
                   held>>

\* The constructor of a library for C: before main, while the call of main is under
\* way, or on another thread while the program starts or runs.
InitLate ==
    /\ stage # "exit" /\ late = "no"
    /\ late' = IF started THEN "done" ELSE "runs"
    /\ InitBegin
    /\ UNCHANGED <<input, keyVars, stage, why, stack, files, fileRead, provider,
                   held>>

-----------------------------------------------------------------------------
(* The layers. *)

Taken(n, layer, from) ==
    /\ value' = [value EXCEPT ![n] = [layer |-> layer, from |-> from,
                                      cell |-> cells + 1]]
    /\ seed' = IF n = SeedKey THEN cells + 1 ELSE seed

\* Mutant: of two values of one layer the first stays.
SetKeyFirst(n, layer, from) ==
    /\ cells' = cells + 1
    /\ IF value[n].layer < layer
       THEN Taken(n, layer, from) /\ live' = live \cup {cells + 1}
       ELSE UNCHANGED <<value, live, seed>>

\* set_key: a higher layer keeps its value, an equal one gives way, and the
\* bytes replaced go to retired, which keeps them.  Bytes not taken are freed.
SetKey(n, layer, from) ==
    /\ cells' = cells + 1
    /\ IF value[n].layer <= layer
       THEN Taken(n, layer, from) /\ live' = live \cup {cells + 1}
       ELSE UNCHANGED <<value, live, seed>>

\* anti_rt_inject_line: the same order of layers, and the bytes replaced are
\* freed, since nothing reads a line before the start is over.
InjectLine(layer, from) ==
    IF value[Interface].layer > layer THEN UNCHANGED keyVars
    ELSE /\ cells' = cells + 1
         /\ Taken(Interface, layer, from)
         /\ live' = (live \ {value[Interface].cell}) \cup {cells + 1}

SetName(n, layer, from) ==
    IF n = Interface THEN InjectLine(layer, from) ELSE SetKey(n, layer, from)

\* anti_rt_conf_option for one argument of runtime_options.
Option(n) ==
    /\ stage = "options"
    /\ n \in command /\ value[n] = Unset
    /\ SetName(n, COMMAND, NoFile)
    /\ UNCHANGED <<input, initVars, stage, why, stack, files, fileRead, provider,
                   held>>

\* unknown_option, or a value the key does not take.
OptionRefused ==
    /\ stage = "options"
    /\ Exit("refused")
    /\ UNCHANGED <<input, initVars, keyVars, stack, files, fileRead, provider, held>>

\* anti_rt_conf_start: --anti.help ends the program, else the file that was
\* named is read, if any.
ConfStart ==
    /\ stage = "options"
    /\ \A n \in command : value[n] # Unset
    /\ \/ Exit("asked")
       \/ stage' = (IF atStart THEN "read" ELSE "inject") /\ UNCHANGED why
    /\ UNCHANGED <<input, initVars, keyVars, stack, files, fileRead, provider, held>>

-----------------------------------------------------------------------------
(* read_file. *)

FileFrame(f) == [file |-> f, next |-> 1, todo |-> sets[f]]

\* The checks of read_file and its frame, on the files `below` that include f.
ReadFile(f, below) ==
    IF (\E i \in DOMAIN below : below[i].file = f) \/ Len(below) > IncludeDepth
    THEN Exit("cycle") /\ UNCHANGED <<stack, files>>
    ELSE IF files = IncludeFiles
    THEN Exit("many") /\ UNCHANGED <<stack, files>>
    ELSE /\ files' = files + 1
         /\ stack' = Append(below, FileFrame(f))
         /\ UNCHANGED <<stage, why>>

ReadRoot ==
    /\ stage = "read" /\ stack = <<>> /\ files = 0
    /\ ReadFile(Root, <<>>)
    /\ UNCHANGED <<input, initVars, keyVars, fileRead, provider, held>>

Reading == stack[Len(stack)]

\* read_includes: the includes come before the keys, in their order.
ReadInclude ==
    /\ stage \in {"read", "main"} /\ stack # <<>>
    /\ Reading.next <= Len(graph[Reading.file])
    /\ ReadFile(graph[Reading.file][Reading.next],
                [stack EXCEPT ![Len(stack)].next = @ + 1])
    /\ UNCHANGED <<input, initVars, keyVars, fileRead, provider, held>>

\* read_keys, and read_key of one of them.  rt.configure refuses an injection.
ReadKey(n) ==
    /\ stage \in {"read", "main"} /\ stack # <<>>
    /\ Reading.next > Len(graph[Reading.file])
    /\ n \in Reading.todo
    /\ IF stage = "main" /\ n = Interface
       THEN Exit("injection") /\ UNCHANGED <<stack, keyVars>>
       ELSE /\ SetName(n, FILE, Reading.file)
            /\ stack' = [stack EXCEPT ![Len(stack)].todo = @ \ {n}]
            /\ UNCHANGED <<stage, why>>
    /\ UNCHANGED <<input, initVars, files, fileRead, provider, held>>

\* A file that cannot be read or is no TOML, a key that is none, a bad value.
ReadRefused ==
    /\ stage \in {"read", "main"} /\ stack # <<>>
    /\ Exit("refused")
    /\ UNCHANGED <<input, initVars, keyVars, stack, files, fileRead, provider, held>>

\* The end of a file.
ReadEnd ==
    /\ stage \in {"read", "main"} /\ stack # <<>>
    /\ Reading.next > Len(graph[Reading.file]) /\ Reading.todo = {}
    /\ stack' = SubSeq(stack, 1, Len(stack) - 1)
    /\ fileRead' = TRUE
    /\ stage' = IF stage = "read" /\ Len(stack) = 1 THEN "inject" ELSE stage
    /\ UNCHANGED <<input, initVars, keyVars, why, files, provider, held>>

\* anti_rt_inject_start: the object comes from the library of the highest layer.
\* --anti.inspect then ends the program.
InjectStart ==
    /\ stage = "inject"
    /\ provider' = value[Interface].layer
    /\ Exit("asked") \/ (stage' = "main" /\ UNCHANGED why)
    /\ UNCHANGED <<input, initVars, keyVars, stack, files, fileRead, held>>

\* A library that does not open or has no provider.
InjectRefused ==
    /\ stage = "inject"
    /\ Exit("refused")
    /\ UNCHANGED <<input, initVars, keyVars, stack, files, fileRead, provider, held>>

-----------------------------------------------------------------------------
(* main. *)

\* anti_rt_conf_configure by the thread that wins the compare-and-swap.  A call
\* that loses it returns at once.
Configure(t) ==
    /\ stage = "main"
    /\ ~fileRead
    /\ fileRead' = TRUE
    /\ ReadFile(Root, <<>>)
    /\ UNCHANGED <<input, initVars, keyVars, provider, held>>

\* anti_rt_conf_get gives the bytes and lets the lock go.
Get(t, n) ==
    /\ stage = "main" /\ held[t] = 0
    /\ n # Interface /\ value[n].cell # 0
    /\ held' = [held EXCEPT ![t] = value[n].cell]
    /\ UNCHANGED <<input, initVars, keyVars, stage, why, stack, files, fileRead,
                   provider>>

-----------------------------------------------------------------------------
Read == ReadRoot \/ ReadInclude \/ (\E n \in Names : ReadKey(n)) \/ ReadEnd

StartNext ==
    \/ InitMain \/ SeedStart \/ InitReady \/ InitLate
    \/ (\E n \in Names : Option(n)) \/ OptionRefused \/ ConfStart
    \/ Read \/ ReadRefused
    \/ InjectStart \/ InjectRefused
    \/ \E t \in Mains : Configure(t) \/ \E n \in Names : Get(t, n)

StartSpec == StartInit /\ [][StartNext]_startVars

-----------------------------------------------------------------------------
(* Properties *)

StartTypeOK ==
    /\ stage \in {"init", "options", "read", "inject", "main", "exit"}
    /\ \A n \in Names : /\ value[n].layer \in {BUILD, FILE, COMMAND}
                        /\ value[n].from \in Files \cup {NoFile}
    /\ files \in 0 .. IncludeFiles
    /\ Len(stack) <= IncludeDepth + 1
    /\ live \subseteq 1 .. cells

Includes(f) == {graph[f][i] : i \in DOMAIN graph[f]}

\* The files that can be reached from f by a path of at least one include: those in
\* every set that has the includes of f and, with a file, the includes of it.
Below(f) ==
    {g \in Files : \A S \in SUBSET Files :
                      Includes(f) \cup UNION {Includes(h) : h \in S} \subseteq S => g \in S}

Reached(f) == {f} \cup Below(f)

\* x is what the last of the includes of g gives that gives something, when each
\* gives what F says.
LastGiven(F, g, x) ==
    \/ /\ x = NoFile
       /\ \A i \in DOMAIN graph[g] : F[graph[g][i]] = NoFile
    \/ \E i \in DOMAIN graph[g] :
          /\ x = F[graph[g][i]] /\ x # NoFile
          /\ \A j \in DOMAIN graph[g] : j > i => F[graph[g][j]] = NoFile

\* For each file that is reached from f the file that gives name n when it is read, by
\* the words of the layers: itself, or the last of its includes that gives one.
Gives(f, n) ==
    {F \in [Reached(f) -> {g \in Reached(f) : n \in sets[g]} \cup {NoFile}] :
        \A g \in Reached(f) :
            IF n \in sets[g] THEN F[g] = g ELSE LastGiven(F, g, F[g])}

Giver(f, n) == (CHOOSE F \in Gives(f, n) : TRUE)[f]

\* Nothing is being read, and the program runs.
Settled == stage = "main" /\ stack = <<>>

\* Once the configuration is read, each key has the value of the highest layer:
\* the option, else the file, where an including file wins over its includes and
\* a later include over an earlier one, however often a file is included.
LayersRight ==
    Settled => \A n \in Names :
        value[n].from = IF n \in command \/ files = 0 THEN NoFile ELSE Giver(Root, n)

\* The provider taken before main is the one of the layers as they stood then,
\* and no later file changes the name it came from.
ProviderFixed ==
    stage = "main" => provider = value[Interface].layer

\* A file is never read below itself, by the walk over the including files in
\* read_file.
NeverBelowItself ==
    \A i, j \in DOMAIN stack : stack[i].file = stack[j].file => i = j

\* A file is never read below itself.  The program ends over a cycle only when
\* there is one or a file stands below too many, and no configuration with a
\* cycle is ever taken.
CyclesFound ==
    LET looped == \E f \in Reached(Root) : f \in Below(f)
    IN /\ NeverBelowItself
       /\ why = "cycle" => looped \/ Len(stack) > IncludeDepth
       /\ Settled /\ files > 0 => ~looped

\* The bytes that a thread got from a key stay, whatever is configured later.
BytesStay == \A t \in Mains : held[t] # 0 => held[t] \in live

\* A thread of a host that sees the runtime ready sees a drawn seed, though a call
\* of anti_rt_init beside the first one returns before the seed is drawn.
ReadyMeansSeeded == ready => seed # CONSTANT_SEED

\* The seed is the one of the key hash_seed once a layer has set it: no library
\* that starts the runtime again draws another.
SeedFollowsKey == value[SeedKey].cell # 0 => seed = value[SeedKey].cell

\* The settings of conf.c over any order of files, includes and calls: the
\* strongest layer wins and no cycle of includes passes.
SettingsRight == LayersRight /\ CyclesFound

\* What the start gave out stays good, whatever is started or configured later
\* (init.c, conf.c, inject.c): who sees the runtime ready sees a drawn seed, the
\* key hash_seed decides it, no provider changes under its objects, and no bytes
\* that a thread has are freed.
HandedOutStays ==
    StartTypeOK /\ ReadyMeansSeeded /\ SeedFollowsKey /\ ProviderFixed /\ BytesStay
==============================================================================
