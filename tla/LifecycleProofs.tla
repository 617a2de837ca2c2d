--------------------------- MODULE LifecycleProofs ---------------------------
(***************************************************************************)
(* ObservabilityController implements Lifecycle, for every choice of its   *)
(* constants: its initial states are initial states of Lifecycle, and in   *)
(* states that satisfy Inductive every step is, under the mapping of       *)
(* Promise, a step of Lifecycle or none.  One lemma per group of actions.  *)
(***************************************************************************)
EXTENDS ControllerProofs

\* The owner of the CR sees nothing of a step that keeps these four.
LEMMA InvisibleStep ==
    ASSUME UNCHANGED << cr, dirty, unguarded >>
    PROVE  UNCHANGED Promise!vars
BY DEF Promise!vars, Reported

\* Users create, edit and delete the CR as Lifecycle says.
LEMMA UsersRefine ==
    ASSUME Inductive, Users
    PROVE  Promise!Next \/ UNCHANGED Promise!vars
<1> USE DEF Inductive, TypeOK
<1>1. ASSUME NEW s \in Specs, NEW m \in BOOLEAN, UserCreate(s, m)
      PROVE  Promise!Create
    <2>1. /\ cr' = NewObject(s, m) /\ cr.phase = "absent"
          /\ UNCHANGED << dirty, unguarded >>
        BY <1>1 DEF UserCreate, User, Write, NewObject
    <2>2. cr'.phase = "live" /\ cr'.finalizer = FALSE /\ ~Reported'
        BY <2>1, NoStatusLemma DEF NewObject, Reported, Complete
    <2>. QED  BY <2>1, <2>2 DEF Promise!Create, Reported
<1>2. ASSUME NEW s \in Specs, UserUpdate(s)
      PROVE  UNCHANGED Promise!vars
    <2>1. cr' = [cr EXCEPT !.spec = s] /\ UNCHANGED << dirty, unguarded >>
        BY <1>2 DEF UserUpdate, User, Write, CopiesAgree, WellFormed,
                    ObjectsTyped, Objects
    <2>2. /\ cr'.phase = cr.phase /\ cr'.finalizer = cr.finalizer
          /\ cr'.status = cr.status
        BY <2>1 DEF ObjectsTyped, Objects
    <2>. QED  BY <2>1, <2>2 DEF Promise!vars, Reported
<1>3. ASSUME UserDelete PROVE Promise!Delete
    <2>1. cr.phase = "live" /\ UNCHANGED << dirty, unguarded >>
        BY <1>3 DEF UserDelete, User
    <2>2. CASE cr.finalizer
        <3>1. cr'.phase = "deleting" /\ cr'.finalizer = cr.finalizer
            BY <1>3, <2>2 DEF UserDelete, Write, ObjectsTyped, Objects
        <3>. QED  BY <2>1, <2>2, <3>1 DEF Promise!Delete, Reported
    <2>3. CASE ~cr.finalizer
        <3>1. cr' = Absent
            BY <1>3, <2>3 DEF UserDelete, Write, ObjectsTyped, Objects
        <3>2. cr'.phase = "absent" /\ cr'.finalizer = cr.finalizer
            BY <2>3, <3>1 DEF Absent, ObjectsTyped, Objects
        <3>. QED  BY <2>1, <2>3, <3>2 DEF Promise!Delete, Reported
    <2>. QED  BY <2>2, <2>3
<1>4. UserToggleNoInit => UNCHANGED Promise!vars
    BY InvisibleStep DEF UserToggleNoInit, User
<1>. QED  BY <1>1, <1>2, <1>3, <1>4 DEF Users, Promise!Next

\* The initializer creates the CR, or costs the operator its trust.
LEMMA InitializerRefines ==
    ASSUME Inductive, Initializer
    PROVE  Promise!Next \/ UNCHANGED Promise!vars
<1> USE DEF Inductive, TypeOK
<1>1. InitReadConfigMap => Promise!Distrust \/ UNCHANGED Promise!vars
    <2> SUFFICES ASSUME InitReadConfigMap
                 PROVE  Promise!Distrust \/ UNCHANGED Promise!vars
        OBVIOUS
    <2>1. UNCHANGED << cr, dirty >> /\ (unguarded' = unguarded \/ unguarded')
        BY DEF InitReadConfigMap, FlagsTyped
    <2>. QED  BY <2>1, InvisibleStep DEF Promise!Distrust, Reported
<1>2. InitList => UNCHANGED Promise!vars
    BY InvisibleStep DEF InitList
<1>3. ASSUME NEW c \in BOOLEAN, InitCreate(c)
      PROVE  Promise!Create \/ UNCHANGED Promise!vars
    <2>1. CASE InitFails
        BY <2>1, InvisibleStep DEF InitFails, Exit
    <2>2. CASE cr.phase = "absent" /\ Write(NewObject(Instance(c), TRUE))
                   /\ InitDone
        <3>1. /\ cr' = NewObject(Instance(c), TRUE)
              /\ UNCHANGED << dirty, unguarded >>
            BY <2>2 DEF InitDone, Write, NewObject
        <3>2. cr'.phase = "live" /\ cr'.finalizer = FALSE /\ ~Reported'
            BY <3>1, NoStatusLemma DEF NewObject, Reported, Complete
        <3>. QED  BY <2>2, <3>1, <3>2 DEF Promise!Create, Reported
    <2>. QED  BY <1>3, <2>1, <2>2 DEF InitCreate
<1>4. ASSUME NEW c \in BOOLEAN, InitUpdateOperand(c)
      PROVE  Promise!Unprotect \/ Promise!Release \/ UNCHANGED Promise!vars
    <2> DEFINE o == [cr EXCEPT !.spec = Instance(c), !.managed = TRUE,
                               !.finalizer = FALSE]
    <2>1. unguarded = TRUE
        BY <1>4 DEF InitUpdateOperand, GuardedMode, FlagsTyped
    <2>2. CASE InitFails
        BY <2>2, InvisibleStep DEF InitFails, Exit
    <2>3. CASE "listed" \in fresh /\ Write(o) /\ InitDone
        <3>1. UNCHANGED << dirty, unguarded >>
            BY <2>3 DEF InitDone
        <3>2. /\ o.phase = cr.phase /\ o.status = cr.status
              /\ o.finalizer = FALSE
            BY DEF ObjectsTyped, Objects
        <3>3. cr.phase # "absent"
            BY <1>4, <2>3 DEF InitUpdateOperand, CopiesAgree, Listing
        <3>4. CASE cr.phase = "deleting"
            <4>1. cr'.phase = "absent" /\ cr'.finalizer = FALSE
                BY <2>3, <3>2, <3>4 DEF Write, Absent
            <4>. QED  BY <2>1, <3>1, <3>4, <4>1 DEF Promise!Release, Reported
        <3>5. CASE cr.phase = "live"
            <4>1. cr' = o
                BY <2>3, <3>2, <3>5 DEF Write
            <4>2. cr.finalizer \in BOOLEAN
                BY DEF ObjectsTyped, Objects
            <4>. QED  BY <2>1, <3>1, <3>2, <3>5, <4>1, <4>2
                      DEF Promise!Unprotect, Promise!vars, Reported
        <3>. QED  BY <3>3, <3>4, <3>5 DEF ObjectsTyped, Objects
    <2>. QED  BY <1>4, <2>2, <2>3 DEF InitUpdateOperand
<1>5. \A c \in BOOLEAN : InitKeep(c) => UNCHANGED Promise!vars
    BY InvisibleStep DEF InitKeep, InitDone
<1>. QED  BY <1>1, <1>2, <1>3, <1>4, <1>5 DEF Initializer, Promise!Next

\* Starting a pass adds the finalizer, or uses noInit as it stands.
LEMMA StartRefines ==
    ASSUME Inductive, AddFinalizer \/ StartStages
    PROVE  Promise!Next \/ UNCHANGED Promise!vars
<1> USE DEF Inductive, TypeOK
<1>1. AddFinalizer => Promise!Protect
    <2> SUFFICES ASSUME AddFinalizer PROVE Promise!Protect
        OBVIOUS
    <2>1. cache = cr /\ cr.phase = "live" /\ cr.finalizer = FALSE
        BY DEF AddFinalizer, NeedsFinalizer, CopiesAgree, ObjectsTyped, Objects
    <2>2. /\ cr' = [cr EXCEPT !.finalizer = TRUE]
          /\ UNCHANGED << dirty, unguarded >>
        BY <2>1 DEF AddFinalizer, Write, ObjectsTyped, Objects
    <2>3. /\ cr'.phase = cr.phase /\ cr'.finalizer = TRUE
          /\ cr'.status = cr.status
        BY <2>2 DEF ObjectsTyped, Objects
    <2>. QED  BY <2>1, <2>2, <2>3 DEF Promise!Protect, Reported
<1>2. StartStages => Promise!Distrust \/ UNCHANGED Promise!vars
    <2> SUFFICES ASSUME StartStages
                 PROVE  Promise!Distrust \/ UNCHANGED Promise!vars
        OBVIOUS
    <2>1. UNCHANGED << cr, dirty >> /\ (unguarded' = unguarded \/ unguarded')
        BY DEF StartStages, FlagsTyped
    <2>. QED  BY <2>1, InvisibleStep DEF Promise!Distrust, Reported
<1>. QED  BY <1>1, <1>2 DEF Promise!Next

\* A trusted pass installs only under the finalizer, and what it cleans up
\* belongs to no CR that reports a complete stack.
LEMMA StageRefines ==
    ASSUME Inductive, NEW r \in Results, RunStage(r)
    PROVE  Promise!Next \/ UNCHANGED Promise!vars
<1> USE DEF Inductive, TypeOK
<1>1. CASE ReconcileStage(r)
    <2> DEFINE s == InstallStages[rec.idx]
    <2>1. UNCHANGED << cr, unguarded >> /\ dirty' = dirty \cup ({s} \ {Migration})
        BY <1>1 DEF ReconcileStage
    <2>2. ~unguarded => cr.finalizer
        BY <1>1 DEF ReconcileStage, GuardedMode
    <2>3. s \in InstallSet
        BY <1>1, StagesLemma
        DEF ReconcileStage, ControlTyped, ObjectsTyped, Passes, StagesOf
    <2>4. CASE s = Migration
        BY <2>1, <2>4, InvisibleStep
    <2>5. CASE s # Migration
        <3>1. s \in InstallSet \ {Migration} /\ dirty' = dirty \cup {s}
            BY <2>1, <2>3, <2>5
        <3>2. Promise!Install(s)
            BY <2>1, <2>2, <3>1 DEF Promise!Install, Reported
        <3>. QED  BY <3>1, <3>2 DEF Promise!Next
    <2>. QED  BY <2>4, <2>5
<1>2. CASE CleanupStage(r)
    <2> DEFINE s == CleanupStages[rec.idx]
    <2>1. /\ UNCHANGED << cr, unguarded >>
          /\ dirty' \in {dirty, dirty \ {s}}
        BY <1>2 DEF CleanupStage
    <2>2. ~Reported
        BY <1>2, NoStatusLemma
        DEF CleanupStage, StatusIsYoung, Reported, Complete
    <2>3. CASE dirty' = dirty
        BY <2>1, <2>3, InvisibleStep
    <2>4. CASE dirty' = dirty \ {s} /\ dirty' # dirty
        <3>1. s \in InstallSet \ {Migration}
            BY <2>4 DEF ControlTyped
        <3>2. Promise!CleanUp(s)
            BY <2>1, <2>2, <2>4 DEF Promise!CleanUp, Reported
        <3>. QED  BY <3>1, <3>2 DEF Promise!Next
    <2>. QED  BY <2>1, <2>3, <2>4
<1>. QED  BY <1>1, <1>2 DEF RunStage

\* The requests that end a pass: the finalizer of a deleted CR is released
\* when nothing is installed, other finalizers only without trust, and a
\* status that reports a complete stack is true.
LEMMA EndRefines ==
    ASSUME Inductive, Inductive', EndOfPass
    PROVE  Promise!Next \/ UNCHANGED Promise!vars
<1> USE DEF Inductive, TypeOK
<1>0. rec.obs \in Objects /\ cr \in Objects
    BY DEF ObjectsTyped, Passes
<1>1. CASE ReleaseFinalizer \/ DropFinalizer
    <2> DEFINE o == [rec.obs EXCEPT !.finalizer = FALSE]
    <2>1. EndPass(o) /\ unguarded' \in {unguarded, TRUE}
        BY <1>1 DEF ReleaseFinalizer, DropFinalizer
    <2>2. dirty' = dirty
        BY <2>1 DEF EndPass
    <2>3. CASE "obs" \notin fresh
        <3>1. cr' = cr
            BY <2>1, <2>3 DEF EndPass
        <3>2. unguarded' = unguarded \/ unguarded'
            BY <2>1
        <3>. QED  BY <2>2, <3>1, <3>2, InvisibleStep
                  DEF Promise!Next, Promise!Distrust, Reported
    <2>4. CASE "obs" \in fresh
        <3>1. /\ o.phase = cr.phase /\ o.status = cr.status
              /\ o.finalizer = FALSE
            BY <1>0, <2>4 DEF CopiesAgree, SameButLabel, Objects
        <3>2. Write(o) /\ cr.phase # "absent"
            BY <1>1, <2>1, <2>4, <3>1
            DEF EndPass, CopiesAgree, SameButLabel, PassProgress,
                ReleaseFinalizer, DropFinalizer
        <3>3. CASE cr.phase = "deleting"
            <4>1. cr'.phase = "absent" /\ cr'.finalizer = FALSE
                BY <3>1, <3>2, <3>3 DEF Write, Absent
            <4>2. ~unguarded' => dirty = {}
                BY <1>1, CleanedUpLemma DEF ReleaseFinalizer, DropFinalizer,
                                            CleanedUp
            <4>3. (~unguarded)' \in {~unguarded, FALSE}
                <5>1. CASE unguarded' = unguarded
                    BY <5>1
                <5>2. CASE unguarded' = TRUE
                    BY <5>2
                <5>. QED  BY <2>1, <5>1, <5>2
            <4>4. Reported = FALSE /\ Reported' = FALSE
                BY <3>3, <4>1 DEF Reported
            <4>5. Promise!Release
                BY <2>2, <3>3, <4>1, <4>2, <4>3, <4>4 DEF Promise!Release
            <4>. QED  BY <4>5 DEF Promise!Next
        <3>4. CASE cr.phase = "live"
            <4>1. DropFinalizer /\ rec.obs.finalizer
                BY <1>1, <2>4, <3>4
                DEF ReleaseFinalizer, CleanedUp, DropFinalizer, CopiesAgree,
                    SameButLabel
            <4>2. cr' = o /\ cr.finalizer /\ unguarded' = TRUE
                BY <2>4, <3>1, <3>2, <3>4, <4>1
                DEF Write, DropFinalizer, CopiesAgree, SameButLabel
            <4>. QED  BY <2>2, <3>1, <3>4, <4>2
                      DEF Promise!Next, Promise!Unprotect, Reported
        <3>. QED  BY <1>0, <3>2, <3>3, <3>4 DEF Objects
    <2>. QED  BY <2>3, <2>4
<1>2. CASE UpdateStatus
    <2>1. UNCHANGED << dirty, unguarded >>
        BY <1>2 DEF UpdateStatus, EndPass
    <2>2. CASE cr' = cr
        BY <2>1, <2>2, InvisibleStep
    <2>3. CASE cr' # cr
        <3> DEFINE o == [cr EXCEPT !.status = rec.next]
        <3>1. /\ o.phase = cr.phase /\ o.finalizer = cr.finalizer
            BY <1>0 DEF Objects
        <3>2. Write(o)
            BY <1>2, <2>3 DEF UpdateStatus, EndPass
        <3>3. cr' = o
            BY <3>1, <3>2 DEF Write, CopiesAgree, WellFormed
        <3>4. Reported' => Promise!Report
            BY <2>1, <3>1, <3>3 DEF Promise!Report, Reported, StatusIsHonest
        <3>5. ~Reported' => Promise!Retract
            BY <2>1, <3>1, <3>3 DEF Promise!Retract, Reported
        <3>. QED  BY <3>4, <3>5 DEF Promise!Next
    <2>. QED  BY <2>2, <2>3
<1>3. CASE PassFails
    <2>1. UNCHANGED << cr, dirty >> /\ (unguarded' = unguarded \/ unguarded')
        BY <1>3 DEF PassFails, FlagsTyped
    <2>. QED  BY <2>1, InvisibleStep DEF Promise!Next, Promise!Distrust, Reported
<1>. QED  BY <1>1, <1>2, <1>3 DEF EndOfPass

\* Every step of the control loop is one that Lifecycle allows, or none.
LEMMA StepRefines ==
    Inductive /\ Inductive' /\ [Next]_vars => [Promise!Next]_(Promise!vars)
<1> SUFFICES ASSUME Inductive, Inductive', [Next]_vars
             PROVE  Promise!Next \/ UNCHANGED Promise!vars
    OBVIOUS
<1>1. CASE SyncCache \/ Restart \/ Crash
    BY <1>1, InvisibleStep DEF SyncCache, Restart, Crash, Exit
<1>2. CASE Pass
    BY <1>2, StartRefines, StageRefines, EndRefines DEF Pass
<1>3. CASE UNCHANGED vars
    BY <1>3, InvisibleStep DEF vars
<1>. QED  BY <1>1, <1>2, <1>3, UsersRefine, InitializerRefines DEF Next

\* For any stage lists, specs and bounds: the control loop implements
\* Lifecycle (the finalizer guards the stack, the status is true, and a
\* trusted operator lets a CR go only when nothing of it is left).
THEOREM LifecycleRefined == Spec => KeepsPromise
<1>1. Init => Promise!Init
    BY DEF Init, Promise!Init, Reported, Absent
<1>. QED  BY <1>1, StepRefines, InductiveInvariant, PTL
          DEF Spec, KeepsPromise, Promise!Spec
=============================================================================
