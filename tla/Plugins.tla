-------------------------------- MODULE Plugins --------------------------------
(***************************************************************************)
(* The open libraries of a program and the count of their objects:         *)
(* src/src/rt/loaded.c, the loader of src/src/rt/plugin.c, and the callers *)
(* that count: registry.c, object.c, hooks.c and std/anti/plugin.anti.     *)
(*                                                                         *)
(* A section under the lock of the slots is one action.  What happens      *)
(* outside it goes in steps of its own: the platform opens and closes a    *)
(* library, code of a library runs, a hook asks for the image of a table.  *)
(* The platform counts the opens of a library and maps it at a base that   *)
(* is free; after the last close the base may serve another library.       *)
(*                                                                         *)
(* The tables of stubs live and die with the image, in the same step.      *)
(***************************************************************************)
EXTENDS Integers, FiniteSets

CONSTANTS
    Threads,    \* the threads of the program
    Libs,       \* the files of its libraries
    Refused,    \* those whose table or version the checks refuse
    Bases,      \* where the platform maps an image
    PluginMax,  \* ANTI_PLUGIN_MAX, 16 in the code
    Owners,     \* the objects of anti.plugin.Library
    Objects,    \* bound: the objects of libraries that exist at once
    ArenaLive,  \* bound: the program deserializes into an arena only objects of
                \* a library with fewer live ones than this; 0 if it never does
    None

Images == [lib : Libs, base : Bases, arena : BOOLEAN]

\* struct anti_plugin: the library and its base, its live objects and its loads.
Structs == [lib : Libs, base : Bases, live : Int, loads : Nat \ {0}]

ASSUME PluginsAssumption ==
    /\ IsFiniteSet(Threads) /\ IsFiniteSet(Owners) /\ IsFiniteSet(Objects)
    /\ Refused \subseteq Libs
    /\ PluginMax \in Nat
    /\ ArenaLive \in Nat
    /\ None \notin Libs \cup Bases \cup Owners \cup Objects \cup Nat
    /\ None \notin Images /\ None \notin Structs

Slots == 1 .. PluginMax

VARIABLES
    refs,       \* refs[f]: how often the platform holds library f open
    base,       \* base[f]: where f is mapped, or None
    slots,      \* slots[s]: the struct anti_plugin at s, or None when unused
    openCount,  \* open_count
    handle,     \* handle[w]: the field handle of the Library w, or None
    object,     \* object[o]: the image o came from, with its library and
                \* whether o lies in an arena, or None
    at,         \* where a thread is
    my,         \* my[t]: the arguments and locals of the call t is in
    left        \* history: left[s]: the objects of s that destroy ended

pluginVars == <<refs, base, slots, openCount, handle, object, at, my, left>>
platform == <<refs, base>>
loaded == <<slots, openCount>>

\* "claim"     the library is open and passed or failed the checks
\* "closeLoad" the load gives back the handle of the platform
\* "reserve"   in instance, about to take the lock
\* "find"      in registry_find, about to take the lock
\* "init"      counted against a slot, in code of the library
\* "hook"      in `count`, about to read open_count
\* "image"     in `count`, about to ask for the image of the table
\* "count"     in `count`, about to take the lock
\* "give"      about to give the count of the reservation back
\* "teardown"  in the teardown of an object, which is code of the library
\* "unload"    about to take the lock
\* "closeGone" gave the load back, about to close the library if it is gone
Places == {"idle", "claim", "closeLoad", "reserve", "find", "init", "hook",
           "image", "count", "give", "teardown", "unload", "closeGone"}

\* owner: the Library; lib: the file to close; slot: the slot given or counted
\* against; image: the library and the base of the table or code in use; found:
\* what the platform answered; made: the object being made or ended; source: the
\* object being copied; delta, after: of count.
NoCall == [owner |-> None, lib |-> None, slot |-> None, image |-> None,
           found |-> None, made |-> None, source |-> None, delta |-> 0,
           after |-> "idle"]

\* Thread t goes to a place with its locals.
Go(t, place, locals) ==
    /\ at' = [at EXCEPT ![t] = place]
    /\ my' = [my EXCEPT ![t] = locals]

Return(t) == Go(t, "idle", NoCall)

PluginInit ==
    /\ refs = [f \in Libs |-> 0]
    /\ base = [f \in Libs |-> None]
    /\ slots = [s \in Slots |-> None]
    /\ openCount = 0
    /\ handle = [w \in Owners |-> None]
    /\ object = [o \in Objects |-> None]
    /\ at = [t \in Threads |-> "idle"]
    /\ my = [t \in Threads |-> NoCall]
    /\ left = [s \in Slots |-> 0]

Used == {s \in Slots : slots[s] # None}

-----------------------------------------------------------------------------
(* The platform *)

\* dlopen: a library that is open gives the same image again.
Open(f) ==
    /\ refs' = [refs EXCEPT ![f] = @ + 1]
    /\ IF refs[f] > 0 THEN UNCHANGED base
       ELSE \E b \in Bases \ {base[g] : g \in Libs} :
               base' = [base EXCEPT ![f] = b]

\* dlclose: the last one takes the image away.
Close(f) ==
    /\ refs' = [refs EXCEPT ![f] = @ - 1]
    /\ base' = [base EXCEPT ![f] = IF refs[f] = 1 THEN None ELSE @]

\* dladdr: the base of the image that lies there now, if any.
ImageAt(b) == IF \E f \in Libs : base[f] = b THEN b ELSE None

-----------------------------------------------------------------------------
(* load *)

\* No other call of load or unload is at work on the Library.
Owned(w) == \A t \in Threads : my[t].owner # w

\* anti_rt_plugin_load opens the library and runs the checks.
Load(t, w, f) ==
    /\ at[t] = "idle"
    /\ handle[w] = None /\ Owned(w)
    /\ Open(f)
    /\ Go(t, IF f \in Refused THEN "closeLoad" ELSE "claim",
          [NoCall EXCEPT !.owner = w, !.lib = f])
    /\ UNCHANGED <<loaded, left, handle, object>>

\* claim finds the library in a slot, counts the load and gives the slot.
ClaimSame(t) ==
    /\ at[t] = "claim"
    /\ \E s \in Used :
          /\ slots[s].base = base[my[t].lib]
          /\ slots' = [slots EXCEPT ![s].loads = @ + 1]
          /\ Go(t, "closeLoad", [my[t] EXCEPT !.slot = s])
    /\ UNCHANGED <<platform, openCount, left, handle, object>>

\* Whether claim finds the library of t in a slot.
IsOpen(t) == \E s \in Used : slots[s].base = base[my[t].lib]

\* claim takes the first free slot.  The handle of the platform stays open.
ClaimFree(t) ==
    /\ at[t] = "claim"
    /\ ~IsOpen(t)
    /\ \E s \in Slots \ Used :
          /\ \A r \in Slots \ Used : s <= r
          /\ slots' = [slots EXCEPT ![s] =
                [lib |-> my[t].lib, base |-> base[my[t].lib], live |-> 0,
                 loads |-> 1]]
          /\ handle' = [handle EXCEPT ![my[t].owner] = s]
    /\ openCount' = openCount + 1
    /\ Return(t)
    /\ UNCHANGED <<platform, left, object>>

\* claim finds every slot taken.
ClaimFull(t) ==
    /\ at[t] = "claim"
    /\ ~IsOpen(t)
    /\ Used = Slots
    /\ Go(t, "closeLoad", my[t])
    /\ UNCHANGED <<platform, loaded, left, handle, object>>

\* The load gives back what it opened, and gives the slot of the open library
\* or nothing.
CloseLoad(t) ==
    /\ at[t] = "closeLoad"
    /\ Close(my[t].lib)
    /\ handle' = [handle EXCEPT ![my[t].owner] = my[t].slot]
    /\ Return(t)
    /\ UNCHANGED <<loaded, left, object>>

-----------------------------------------------------------------------------
(* Objects of a library: instance, reflect.new, deserialize, dup, delete *)

\* One object is counted against slot s before the lock is given back.
Reserved(t, s, arena) ==
    /\ slots' = [slots EXCEPT ![s].live = @ + 1]
    /\ Go(t, "init", [NoCall EXCEPT !.slot = s, !.image =
             [lib |-> slots[s].lib, base |-> slots[s].base, arena |-> arena]])

\* anti_rt_plugin_instance with the handle of a Library, which another thread
\* may be giving back.
Instance(t, w) ==
    /\ at[t] = "idle"
    /\ handle[w] # None
    /\ Go(t, "reserve", [NoCall EXCEPT !.slot = handle[w]])
    /\ UNCHANGED <<platform, loaded, left, handle, object>>

\* reserve: the library is open and provides the interface, or the call fails.
Reserve(t) ==
    /\ at[t] = "reserve"
    /\ \/ /\ my[t].slot \in Used
          /\ Reserved(t, my[t].slot, FALSE)
       \/ UNCHANGED slots /\ Return(t)
    /\ UNCHANGED <<platform, openCount, left, handle, object>>

\* registry_find reads the count of open libraries first.
FindClass(t) ==
    /\ at[t] = "idle"
    /\ openCount > 0
    /\ Go(t, "find", NoCall)
    /\ UNCHANGED <<platform, loaded, left, handle, object>>

\* registry_find, for reflect.new or for deserialize: a library has the class and
\* is counted, or none has it.
Find(t) ==
    /\ at[t] = "find"
    /\ \/ \E s \in Used, arena \in BOOLEAN :
             /\ arena => slots[s].live < ArenaLive
             /\ Reserved(t, s, arena)
       \/ UNCHANGED slots /\ Return(t)
    /\ UNCHANGED <<platform, openCount, left, handle, object>>

\* The object o begins with its table in the image, and its hook counts it.
Made(t, o, image, place, locals) ==
    /\ object[o] = None
    /\ object' = [object EXCEPT ![o] = image]
    /\ Go(t, place, [locals EXCEPT !.image = image, !.made = o, !.delta = 1])

\* build runs `init` of the class up to the hook `created`.
Build(t) ==
    /\ at[t] = "init"
    /\ \E o \in Objects :
          Made(t, o, my[t].image, "hook", [my[t] EXCEPT !.after = "give"])
    /\ UNCHANGED <<platform, loaded, left, handle>>

\* Mutant: a build that comes to nothing keeps its reservation.
BuildNotKeeps(t) ==
    /\ at[t] = "init"
    /\ Return(t)
    /\ UNCHANGED <<platform, loaded, left, handle, object>>

\* build refuses a class that takes arguments, or the reader one that does not
\* descend from what it expects.
BuildNot(t) ==
    /\ at[t] = "init"
    /\ Go(t, "give", my[t])
    /\ UNCHANGED <<platform, loaded, left, handle, object>>

\* built, and given of registry.c: the count of the reservation goes back.
Give(t) ==
    /\ at[t] = "give"
    /\ slots' = [slots EXCEPT ![my[t].slot].live = @ - 1]
    /\ Return(t)
    /\ UNCHANGED <<platform, openCount, left, handle, object>>

\* The program has object o and no call is at work on it.
Idle(o) ==
    object[o] # None /\ \A t \in Threads : o \notin {my[t].made, my[t].source}

\* anti_rt_dup copies o and counts the copy; so does code of o that makes an
\* object of its library on the heap.
Dup(t, o) ==
    /\ at[t] = "idle"
    /\ Idle(o)
    /\ \E p \in Objects : Made(t, p, [object[o] EXCEPT !.arena = FALSE], "hook",
                                 [NoCall EXCEPT !.source = o])
    /\ UNCHANGED <<platform, loaded, left, handle>>

\* anti_rt_delete_from reads the table and calls the teardown.
Delete(t, o) ==
    /\ at[t] = "idle"
    /\ Idle(o)
    /\ Go(t, "teardown", [NoCall EXCEPT !.image = object[o], !.made = o,
                                        !.delta = -1])
    /\ UNCHANGED <<platform, loaded, left, handle, object>>

\* The teardown returned and the object is freed; its library counts it off.
Freed(t) ==
    /\ at[t] = "teardown"
    /\ object' = [object EXCEPT ![my[t].made] = None]
    /\ Go(t, "hook", [my[t] EXCEPT !.made = None])
    /\ UNCHANGED <<platform, loaded, left, handle>>

\* destroy(p, from), and the arena goes: anti_rt_destroy_from runs the teardown
\* and counts nothing.
Destroy(t, o) ==
    /\ at[t] = "idle"
    /\ Idle(o) /\ object[o].arena
    /\ object' = [object EXCEPT ![o] = None]
    /\ left' = [s \in Slots |->
          IF s \in Used /\ slots[s].base = object[o].base
          THEN left[s] + 1 ELSE left[s]]
    /\ UNCHANGED <<platform, loaded, handle, at, my>>

\* count: nothing to do while no library is open.
CountOpen(t) ==
    /\ at[t] = "hook"
    /\ Go(t, IF openCount = 0 THEN my[t].after ELSE "image",
          IF openCount = 0 /\ my[t].after = "idle" THEN NoCall ELSE my[t])
    /\ UNCHANGED <<platform, loaded, left, handle, object>>

\* count asks for the image of the table before it takes the lock.
CountImage(t) ==
    /\ at[t] = "image"
    /\ Go(t, "count", [my[t] EXCEPT !.found = ImageAt(my[t].image.base)])
    /\ UNCHANGED <<platform, loaded, left, handle, object>>

\* count adds to the first slot of that image.
CountSlot(t) ==
    LET those == {s \in Used : slots[s].base = my[t].found} IN
    /\ at[t] = "count"
    /\ slots' = [s \in Slots |->
          IF s \in those /\ \A r \in those : s <= r
          THEN [slots[s] EXCEPT !.live = @ + my[t].delta] ELSE slots[s]]
    /\ IF my[t].after = "give" THEN Go(t, "give", my[t]) ELSE Return(t)
    /\ UNCHANGED <<platform, openCount, left, handle, object>>

-----------------------------------------------------------------------------
(* unload *)

\* Library.unload reads its handle.
Unload(t, w) ==
    /\ at[t] = "idle"
    /\ handle[w] # None /\ Owned(w)
    /\ Go(t, "unload", [NoCall EXCEPT !.owner = w, !.slot = handle[w]])
    /\ UNCHANGED <<platform, loaded, left, handle, object>>

\* anti_rt_plugin_unload under the lock, refused: the slot is in no use, or an
\* object is alive.
UnloadNot(t) ==
    /\ at[t] = "unload"
    /\ my[t].slot \in Used => slots[my[t].slot].live # 0
    /\ Return(t)
    /\ UNCHANGED <<platform, loaded, left, handle, object>>

\* anti_rt_plugin_unload under the lock: one load goes back.
UnloadOne(t) ==
    LET s == my[t].slot IN
    /\ at[t] = "unload"
    /\ s \in Used /\ slots[s].live = 0 /\ slots[s].loads > 1
    /\ slots' = [slots EXCEPT ![s].loads = @ - 1]
    /\ Go(t, "closeGone", my[t])
    /\ UNCHANGED <<platform, openCount, left, handle, object>>

\* Mutant: the last unload does not ask for live objects.
UnloadLastUnchecked(t) ==
    LET s == my[t].slot IN
    /\ at[t] = "unload"
    /\ s \in Used /\ slots[s].loads <= 1
    /\ slots' = [slots EXCEPT ![s] = None]
    /\ openCount' = openCount - 1
    /\ Go(t, "closeGone", [my[t] EXCEPT !.lib = slots[s].lib])
    /\ UNCHANGED <<platform, left, handle, object>>

\* anti_rt_plugin_unload under the lock: the last load goes back, and the slot
\* is cleared.
UnloadLast(t) ==
    LET s == my[t].slot IN
    /\ at[t] = "unload"
    /\ s \in Used /\ slots[s].live = 0 /\ slots[s].loads <= 1
    /\ slots' = [slots EXCEPT ![s] = None]
    /\ openCount' = openCount - 1
    /\ Go(t, "closeGone", [my[t] EXCEPT !.lib = slots[s].lib])
    /\ UNCHANGED <<platform, left, handle, object>>

\* Outside the lock the library is closed, and Library.unload clears its handle.
CloseGone(t) ==
    /\ at[t] = "closeGone"
    /\ IF my[t].lib = None THEN UNCHANGED platform ELSE Close(my[t].lib)
    /\ handle' = [handle EXCEPT ![my[t].owner] = None]
    /\ Return(t)
    /\ UNCHANGED <<loaded, left, object>>

-----------------------------------------------------------------------------
Step(t) ==
    \/ \E w \in Owners, f \in Libs : Load(t, w, f)
    \/ ClaimSame(t) \/ ClaimFree(t) \/ ClaimFull(t) \/ CloseLoad(t)
    \/ \E w \in Owners : Instance(t, w) \/ Unload(t, w)
    \/ Reserve(t) \/ FindClass(t) \/ Find(t)
    \/ Build(t) \/ BuildNot(t) \/ Give(t)
    \/ \E o \in Objects : Dup(t, o) \/ Delete(t, o) \/ Destroy(t, o)
    \/ Freed(t) \/ CountOpen(t) \/ CountImage(t) \/ CountSlot(t)
    \/ UnloadNot(t) \/ UnloadOne(t) \/ UnloadLast(t) \/ CloseGone(t)

PluginNext == \E t \in Threads : Step(t)

PluginSpec == PluginInit /\ [][PluginNext]_pluginVars

-----------------------------------------------------------------------------
(* Properties *)

\* The fields have their types; no count of loads or opens goes below zero.
PluginTypeOK ==
    /\ refs \in [Libs -> Nat]
    /\ base \in [Libs -> Bases \cup {None}]
    /\ slots \in [Slots -> {None} \cup Structs]
    /\ openCount \in Nat
    /\ handle \in [Owners -> Slots \cup {None}]
    /\ object \in [Objects -> Images \cup {None}]
    /\ at \in [Threads -> Places]
    /\ \A t \in Threads : my[t].image \in Images \cup {None}

\* The library of an image is mapped, where it was when the image was taken.
Mapped(image) == base[image.lib] = image.base /\ refs[image.lib] > 0

\* Where thread t runs code of a library or reads its tables.
InLibrary(t) == at[t] \in {"init", "hook", "image", "count", "give", "teardown"}

\* No library is closed under an object of it, nor under a thread in its code:
\* one that builds, copies or tears down an object.
CodeStays ==
    /\ \A o \in Objects : object[o] # None => Mapped(object[o])
    /\ \A t \in Threads : InLibrary(t) => Mapped(my[t].image)

\* A count of the hook that thread t still owes to the image at b.
Owes(t, b, delta) ==
    /\ at[t] \in {"hook", "image", "count"}
    /\ my[t].image.base = b /\ my[t].delta = delta

\* The reservation that thread t holds of slot s.
Reserves(t, s) ==
    /\ my[t].slot = s
    /\ at[t] \in {"init", "give"} \/ my[t].after = "give"

\* live counts the objects of the library, those whose teardown returned a
\* moment ago until the hook ran, the reservations, and those that destroy
\* ended: never another library's, never one twice, and none is forgotten, so
\* an unload is refused for no object that was deleted.
LiveExact ==
    \A s \in Used :
        LET b == slots[s].base IN
        slots[s].live =
            Cardinality({o \in Objects : object[o] # None /\ object[o].base = b})
            - Cardinality({t \in Threads : Owes(t, b, 1)})
            + Cardinality({t \in Threads : Owes(t, b, -1)})
            + Cardinality({t \in Threads : Reserves(t, s)})
            + left[s]

\* An unload is refused only while an object of the library is alive, or while
\* one is being made or ended.
RefusedForAlive ==
    \A s \in Used : slots[s].live # 0 =>
        \/ \E o \in Objects : object[o] # None /\ object[o].base = slots[s].base
        \/ \E t \in Threads : InLibrary(t) /\ my[t].image.base = slots[s].base

\* Library w counts as a load of slot s.
Loads(w, s) ==
    \/ /\ handle[w] = s
       /\ \A t \in Threads : my[t].owner = w => at[t] # "closeGone"
    \/ \E t \in Threads : my[t].owner = w /\ at[t] = "closeLoad" /\ my[t].slot = s

\* A handle stays valid for every owner that has not given it back, though the
\* slots are used again and again: the loads of a slot are its owners, and an
\* unused slot has none.
LoadsAreOwners ==
    \A s \in Slots :
        Cardinality({w \in Owners : Loads(w, s)}) =
            IF s \in Used THEN slots[s].loads ELSE 0

\* The platform holds a library open once for its slot and once for each call
\* that has yet to claim or to close it: nothing is left open and nothing is
\* closed twice, refusals and second loads included.
OpensMatch ==
    /\ openCount = Cardinality(Used)
    /\ \A f \in Libs :
          /\ refs[f] = Cardinality({s \in Used : slots[s].lib = f})
                + Cardinality({t \in Threads : my[t].lib = f})
          /\ Cardinality({s \in Used : slots[s].lib = f}) <= 1

\* The three counts of a library, of its objects, its loads and its opens, are
\* exact (plugin.c, loaded.c), through refusals, second loads and slots used again.
CountsExact == PluginTypeOK /\ LiveExact /\ LoadsAreOwners /\ OpensMatch
==============================================================================
