------------------------------ MODULE MCToolchain ------------------------------
(* The checks of the compiler over small bodies, those of the lock order over   *)
(* small programs, the exits it lowers, and the build tool over small projects, *)
(* one of them in each behaviour.  What a behaviour is not of stays as one of   *)
(* its initial states.                                                          *)
EXTENDS MCPathChecks, MCLockOrder, MCBuildCache, MCExits

VARIABLE subject    \* what the behaviour is of

NoPathCheck == CheckBegins("free", <<>>)
NoOrderCheck == OrderBegins([f \in Fns |-> Fn(NoLock, <<>>)], <<{}, {}, {}>>)
NoProject == BuildBegins([m \in Modules |-> {}], [m \in Modules |-> 1])
NoFunction == ExitBegins(<<>>, {})

ToolchainInit ==
    \/ subject = "paths" /\ CheckInit /\ NoOrderCheck /\ NoFunction /\ NoProject
    \/ subject = "order" /\ NoPathCheck /\ OrderInit /\ NoFunction /\ NoProject
    \/ subject = "exits" /\ NoPathCheck /\ NoOrderCheck /\ ExitInit /\ NoProject
    \/ subject = "build" /\ NoPathCheck /\ NoOrderCheck /\ NoFunction /\ SmallProjects

ToolchainNext ==
    /\ \/ subject = "paths" /\ CheckNext /\ UNCHANGED <<orderVars, exitVars, buildVars>>
       \/ subject = "order" /\ OrderNext /\ UNCHANGED <<checkVars, exitVars, buildVars>>
       \/ subject = "exits" /\ ExitNext /\ UNCHANGED <<checkVars, orderVars, buildVars>>
       \/ subject = "build" /\ BuildNext /\ UNCHANGED <<checkVars, orderVars, exitVars>>
    /\ UNCHANGED subject

ToolchainSpec ==
    /\ ToolchainInit
    /\ [][ToolchainNext]_<<subject, checkVars, orderVars, exitVars, buildVars>>
==============================================================================
