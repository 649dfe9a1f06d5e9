-------------------------------- MODULE Signals --------------------------------
(***************************************************************************)
(* Signals of the system for anti.os: the table of src/src/rt/signal.c and *)
(* the route of src/src/rt/platform_posix.c, a handler that writes one     *)
(* byte into a pipe and a thread that reads it and calls the function of   *)
(* the program.  That function may register another.                       *)
(*                                                                         *)
(* Every registration has a number, which stands for its function.  The    *)
(* system keeps one raise of each signal until a handler runs, so raises   *)
(* merge.  The pipe is longer than the raises of an instance.              *)
(***************************************************************************)
EXTENDS Integers, Sequences, FiniteSets

CONSTANTS
    Sigs,           \* signal numbers the program registers for
    Registrars,     \* threads of the program that call on_signal
    Reader,         \* the thread of the route
    MaxRegister,    \* bound: registrations
    MaxRaise        \* bound: raises

ASSUME SignalsAssumption ==
    /\ Sigs \subseteq Nat \ {0}
    /\ Reader \notin Registrars
    /\ MaxRegister \in Nat /\ MaxRaise \in Nat

VARIABLES
    handlers,   \* handlers[s]: the registration for s, 0 for none
    pending,    \* the last signal delivered and not read, or 0
    lock,       \* the holder of ANTI_RT_LOCK_SIGNALS, or 0
    routed,     \* deliver_signal is set and the reader runs
    caught,     \* the signals whose handler is on_raise
    raised,     \* raised[s]: what the system keeps of s, or NoRaise
    pipe,       \* the bytes of the pipe, each with its raise
    reader,     \* where the reader is, its signal and the function it has
    register,   \* register[t]: the call of on_signal t is in
    made, raises,   \* registrations and raises so far
    settled     \* settled[s]: history, the last registration that returned

sigVars == <<handlers, pending, lock, routed, caught, raised, pipe, reader, register,
             made, raises, settled>>

NoRaise == -1
Out == [at |-> "out", sig |-> 0, f |-> 0]

SigThreads == Registrars \cup {Reader}

SigInit ==
    /\ handlers = [s \in Sigs |-> 0]
    /\ pending = 0 /\ lock = 0
    /\ routed = FALSE /\ caught = {}
    /\ raised = [s \in Sigs |-> NoRaise]
    /\ pipe = <<>>
    /\ reader = Out
    /\ register = [t \in SigThreads |-> Out]
    /\ made = 0 /\ raises = 0
    /\ settled = [s \in Sigs |-> 0]

-----------------------------------------------------------------------------
(* anti_rt_on_signal. *)

\* A thread of the program calls it, and so does the function the reader runs.
MayRegister(t) ==
    /\ register[t] = Out /\ made < MaxRegister
    /\ t = Reader => reader.at = "call"

\* Mutant: the first function of a signal stays.
OnSignalFirst(t, s) ==
    /\ MayRegister(t) /\ lock = 0
    /\ lock' = t
    /\ made' = made + 1
    /\ handlers' = [handlers EXCEPT ![s] = IF @ = 0 THEN made + 1 ELSE @]
    /\ register' = [register EXCEPT ![t] = [at |-> "route", sig |-> s, f |-> made + 1]]
    /\ UNCHANGED <<pending, routed, caught, raised, pipe, reader, raises, settled>>

\* hold, and the function goes in the table.
OnSignal(t, s) ==
    /\ MayRegister(t) /\ lock = 0
    /\ lock' = t
    /\ made' = made + 1
    /\ handlers' = [handlers EXCEPT ![s] = made + 1]
    /\ register' = [register EXCEPT ![t] = [at |-> "route", sig |-> s, f |-> made + 1]]
    /\ UNCHANGED <<pending, routed, caught, raised, pipe, reader, raises, settled>>

\* anti_rt_signal_route once, and release.  Without a pipe or a thread the signal
\* stays uncaught, and a later call tries again.
Route(t) ==
    /\ register[t].at = "route"
    /\ lock' = 0
    /\ \/ /\ routed' = TRUE
          /\ register' = [register EXCEPT ![t].at = "catch"]
       \/ /\ ~routed
          /\ register' = [register EXCEPT ![t].at = "failed"]
          /\ UNCHANGED routed
    /\ UNCHANGED <<handlers, pending, caught, raised, pipe, reader, made, raises,
                   settled>>

\* anti_rt_signal_catch when there is a route, and the return.
Catch(t) ==
    /\ register[t].at \in {"catch", "failed"}
    /\ caught' = IF register[t].at = "catch" THEN caught \cup {register[t].sig}
                 ELSE caught
    /\ settled' = [settled EXCEPT ![register[t].sig] =
                      IF register[t].f > @ THEN register[t].f ELSE @]
    /\ register' = [register EXCEPT ![t] = Out]
    /\ UNCHANGED <<handlers, pending, lock, routed, raised, pipe, reader, made,
                   raises>>

-----------------------------------------------------------------------------
(* The system and the handler. *)

\* A raise carries the registration that had returned, and merges with the raise
\* of its signal that the system still keeps.  A signal with no handler ends the
\* program.
Raise(s) ==
    /\ s \in caught /\ raises < MaxRaise
    /\ raises' = raises + 1
    /\ raised' = [raised EXCEPT ![s] = settled[s]]
    /\ UNCHANGED <<handlers, pending, lock, routed, caught, pipe, reader, register,
                   made, settled>>

\* on_raise writes one byte.
OnRaise(s) ==
    /\ raised[s] # NoRaise
    /\ pipe' = Append(pipe, [sig |-> s, since |-> raised[s]])
    /\ raised' = [raised EXCEPT ![s] = NoRaise]
    /\ UNCHANGED <<handlers, pending, lock, routed, caught, reader, register, made,
                   raises, settled>>

-----------------------------------------------------------------------------
(* signal_reader and deliver. *)

\* read, and the store of pending.
ReadByte ==
    /\ routed /\ reader.at = "out" /\ pipe # <<>>
    /\ pipe' = Tail(pipe)
    /\ pending' = Head(pipe).sig
    /\ reader' = [at |-> "look", sig |-> Head(pipe).sig, f |-> 0,
                  since |-> Head(pipe).since]
    /\ UNCHANGED <<handlers, lock, routed, caught, raised, register, made, raises,
                   settled>>

\* Mutant: the lock is held over the call.
LookHolds ==
    /\ reader.at = "look" /\ lock = 0
    /\ lock' = Reader
    /\ reader' = [reader EXCEPT !.at = "call", !.f = handlers[reader.sig]]
    /\ UNCHANGED <<handlers, pending, routed, caught, raised, pipe, register, made,
                   raises, settled>>

\* The function is copied under the lock, and called after it.
Look ==
    /\ reader.at = "look" /\ lock = 0
    /\ reader' = [reader EXCEPT !.at = "call", !.f = handlers[reader.sig]]
    /\ UNCHANGED <<handlers, pending, lock, routed, caught, raised, pipe, register,
                   made, raises, settled>>

\* The function returns.
Return ==
    /\ reader.at = "call" /\ register[Reader] = Out
    /\ reader' = Out
    /\ UNCHANGED <<handlers, pending, lock, routed, caught, raised, pipe, register,
                   made, raises, settled>>

\* anti_rt_signal_pending.
SignalPending ==
    /\ pending # 0
    /\ pending' = 0
    /\ UNCHANGED <<handlers, lock, routed, caught, raised, pipe, reader, register,
                   made, raises, settled>>
-----------------------------------------------------------------------------
Deliver == ReadByte \/ Look \/ Return

SigNext ==
    \/ \E t \in SigThreads : (\E s \in Sigs : OnSignal(t, s)) \/ Route(t) \/ Catch(t)
    \/ \E s \in Sigs : Raise(s) \/ OnRaise(s)
    \/ Deliver \/ SignalPending

\* The scheduler runs the reader and the threads in a call, the system runs a
\* handler that is due, and a function of the program returns.
SigFairness ==
    /\ WF_sigVars(Deliver)
    /\ \A t \in SigThreads : WF_sigVars(Route(t) \/ Catch(t))
    /\ \A s \in Sigs : WF_sigVars(OnRaise(s))

SigSpec == SigInit /\ [][SigNext]_sigVars /\ SigFairness

-----------------------------------------------------------------------------
(* Properties *)

SigTypeOK ==
    /\ handlers \in [Sigs -> 0 .. MaxRegister]
    /\ pending \in Sigs \cup {0}
    /\ lock \in SigThreads \cup {0}
    /\ reader.sig \in Sigs \cup {0}
    /\ caught # {} => routed

\* The function that the reader of signal_reader calls is at least as new as the
\* last registration of its signal that had returned when the signal was raised,
\* so a handler that was replaced is never called for a later signal, and every
\* signal that is caught finds a function.
HandlerFresh ==
    reader.at = "call" => reader.f # 0 /\ reader.f >= reader.since

\* The route of signals from the handler of the platform to the reader is whole
\* or not there, and the newest function answers (anti_rt_on_signal, on_raise).
SignalsRight == SigTypeOK /\ HandlerFresh

\* Every signal that on_raise is to handle reaches the function of the program,
\* though functions register others and threads register at once.
RaiseArrives ==
    \A s \in Sigs : raised[s] # NoRaise ~> reader.at = "call" /\ reader.sig = s
==============================================================================
