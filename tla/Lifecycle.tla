------------------------------ MODULE Lifecycle ------------------------------
(***************************************************************************)
(* What the operator promises the owner of an Observability CR, without    *)
(* passes, stages in progress, caches, resource versions or processes: how *)
(* the CR comes and goes, when its stack may be installed and taken down,  *)
(* and when its status may say that the stack is complete.                 *)
(*                                                                         *)
(* The promise is conditional.  It holds as long as the operator can be    *)
(* trusted with the finalizer, which it cannot once it acted without       *)
(* having read the no-init ConfigMap.                                      *)
(***************************************************************************)
CONSTANT Stages     \* the stages that leave something in the cluster

VARIABLES
    phase,      \* of the CR: absent, live or deleting
    protected,  \* does the CR carry the finalizer?
    installed,  \* the stages that left something in the cluster
    reported,   \* does the CR's status say that the stack is complete?
    trusted     \* has the operator only ever acted in no-init mode?

vars == << phase, protected, installed, reported, trusted >>

Init ==
    /\ phase = "absent" /\ protected = FALSE
    /\ installed = {}
    /\ reported = FALSE
    /\ trusted = TRUE

Create ==
    /\ phase = "absent" /\ phase' = "live"
    /\ protected' = FALSE /\ reported' = FALSE
    /\ UNCHANGED << installed, trusted >>

Protect ==
    /\ phase = "live" /\ ~protected /\ protected' = TRUE
    /\ UNCHANGED << phase, installed, reported, trusted >>

Install(s) ==
    /\ trusted => protected
    /\ installed' = installed \cup {s}
    /\ UNCHANGED << phase, protected, reported, trusted >>

Report ==
    /\ phase = "live" /\ Stages \subseteq installed
    /\ reported' = TRUE
    /\ UNCHANGED << phase, protected, installed, trusted >>

Retract ==
    /\ reported' = FALSE
    /\ UNCHANGED << phase, protected, installed, trusted >>

\* Without the finalizer the CR is gone at once.
Delete ==
    /\ phase = "live"
    /\ phase' = IF protected THEN "deleting" ELSE "absent"
    /\ reported' = FALSE
    /\ UNCHANGED << protected, installed, trusted >>

\* Nothing is taken from under a stack whose status says it is complete.
CleanUp(s) ==
    /\ ~reported
    /\ installed' = installed \ {s}
    /\ UNCHANGED << phase, protected, reported, trusted >>

\* The CR goes away; a trusted operator has cleaned up before.
Release ==
    /\ phase = "deleting" /\ phase' = "absent"
    /\ protected' = FALSE
    /\ trusted' \in {trusted, FALSE}
    /\ trusted' => installed = {}
    /\ UNCHANGED << installed, reported >>

\* Only an operator that is no longer trusted takes the finalizer off.
Unprotect ==
    /\ phase = "live" /\ protected /\ protected' = FALSE
    /\ trusted' = FALSE
    /\ UNCHANGED << phase, installed, reported >>

Distrust ==
    /\ trusted' = FALSE
    /\ UNCHANGED << phase, protected, installed, reported >>

Next ==
    \/ Create \/ Protect \/ Delete \/ Release
    \/ \E s \in Stages : Install(s) \/ CleanUp(s)
    \/ Report \/ Retract
    \/ Unprotect \/ Distrust

Spec == Init /\ [][Next]_vars
=============================================================================
