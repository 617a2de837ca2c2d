----------------------- MODULE ObservabilityController -----------------------
(***************************************************************************)
(* The control loop of the operator: the Reconcile pass over one           *)
(* Observability CR, the InitializeOperand runnable that starts beside it,  *)
(* the API server that holds the CR, the informer cache the pass reads     *)
(* from, users, and the death and restart of the operator process.         *)
(*                                                                         *)
(* A stage is one call of its reconciler; what the reconcilers do to the   *)
(* cluster is the subject of StackStages.  Here a stage is dirty from the  *)
(* moment its Reconcile runs until its Cleanup returns success.            *)
(***************************************************************************)
EXTENDS Naturals, Sequences, StageNames

CONSTANTS
    InstallStages,  \* the stages of an installation pass, in order
    CleanupStages,  \* the stages of a cleanup pass, in order
    Specs,          \* the specs a CR may have
    CloudSpec,      \* spec of observabilityInstanceWithStorage
    LocalSpec,      \* spec of observabilityInstanceWithoutStorage
    Unstored,       \* the specs without storage or without retention
    NameOf,         \* the component names a spec asks for
    MaxUserOps,     \* bound on what users do
    MaxFaults       \* bound on process deaths and failed API writes

InstallSet == {InstallStages[i] : i \in DOMAIN InstallStages}
CleanupSet == {CleanupStages[i] : i \in DOMAIN CleanupStages}

ASSUME StagesAssumption ==
    /\ InstallStages \in Seq(STRING) /\ InstallStages # << >>
    /\ CleanupStages \in Seq(STRING) /\ CleanupStages # << >>

\* Every stage that leaves something behind has a cleanup stage.
ASSUME CleanupCoversInstall == InstallSet \subseteq CleanupSet \cup {Migration}

ASSUME SpecsAssumption ==
    /\ CloudSpec \in Specs \ Unstored
    /\ LocalSpec \in Specs \cap Unstored

ASSUME BoundsAssumption == MaxUserOps \in Nat /\ MaxFaults \in Nat

VARIABLES
    cr,         \* the Observability object as the API server holds it
    cache,      \* the object as the informer cache holds it
    listed,     \* what InitializeOperand looks at of the object it listed
    fresh,      \* copies of cr whose resourceVersion is still the current one
    noInitCM,   \* does the no-init ConfigMap exist?
    up,         \* is the operator process running?
    noInit,     \* the field of the same name of ObservabilityReconciler
    init,       \* where InitializeOperand stands
    rec,        \* the pass in progress
    dirty,      \* stages installed and not cleaned up since
    unguarded,  \* history: noInit was FALSE when a pass or the initializer used it
    userOps, faults

vars == << cr, cache, listed, fresh, noInitCM, up, noInit, init, rec, dirty,
           unguarded, userOps, faults >>

NoStatus == [stage |-> "", result |-> ""]

Statuses ==
    [stage : InstallSet \cup CleanupSet, result : Results] \cup {NoStatus}

\* finalizer stands for len(Finalizers) > 0, managed for the managed-by label.
Objects ==
    [phase : {"absent", "live", "deleting"}, finalizer : BOOLEAN,
     managed : BOOLEAN, spec : Specs, status : Statuses]

Absent ==
    [phase |-> "absent", finalizer |-> FALSE, managed |-> FALSE,
     spec |-> LocalSpec, status |-> NoStatus]

Listings ==
    [phase : {"absent", "live", "deleting"}, managed : BOOLEAN, spec : Specs]

Listing(o) == [phase |-> o.phase, managed |-> o.managed, spec |-> o.spec]

NewObject(s, m) ==
    [phase |-> "live", finalizer |-> FALSE, managed |-> m, spec |-> s,
     status |-> NoStatus]

NoPass == [pc |-> "idle", obs |-> Absent, idx |-> 1, next |-> NoStatus]

StagesOf(o) == IF o.phase = "deleting" THEN CleanupStages ELSE InstallStages

Passes ==
    [pc : {"idle", "stage", "done"}, obs : Objects,
     idx : Nat \ {0}, next : Statuses]

ObjectsTyped ==
    /\ cr \in Objects /\ cache \in Objects /\ listed \in Listings
    /\ rec \in Passes

FlagsTyped == {noInitCM, up, noInit, unguarded} \subseteq BOOLEAN

ControlTyped ==
    /\ fresh \subseteq {"cache", "obs", "listed"}
    /\ init \in {"config", "list", "apply", "done"}
    /\ dirty \subseteq InstallSet
    /\ rec.pc = "stage" => rec.idx <= Len(StagesOf(rec.obs))

CountersTyped == userOps \in 0 .. MaxUserOps /\ faults \in 0 .. MaxFaults

\* The types of the state; a pass that is to run a stage has one to run.
TypeOK == ObjectsTyped /\ FlagsTyped /\ ControlTyped /\ CountersTyped

Init ==
    /\ cr = Absent /\ cache = Absent /\ listed = Listing(Absent)
    /\ fresh = {"cache"}
    /\ noInitCM \in BOOLEAN
    /\ up = TRUE /\ noInit = FALSE /\ init = "config"
    /\ rec = NoPass
    /\ dirty = {}
    /\ unguarded = FALSE
    /\ userOps = 0 /\ faults = 0

-----------------------------------------------------------------------------
(***************************************************************************)
(* The API server.  A write gives the object a new resourceVersion, so no  *)
(* copy is current any more; an object that is being deleted goes away     *)
(* when its last finalizer does.                                           *)
(***************************************************************************)
Write(o) ==
    /\ cr' = IF o.phase = "deleting" /\ ~o.finalizer THEN Absent ELSE o
    /\ fresh' = {}

\* The admission webhook refuses to set, unset or change a component name.
ValidateUpdate(old, new) == NameOf[old] = NameOf[new]

User ==
    /\ userOps < MaxUserOps
    /\ userOps' = userOps + 1
    /\ UNCHANGED << cache, listed, up, noInit, init, rec, dirty, unguarded,
                    faults >>

UserCreate(s, m) ==
    /\ User
    /\ cr.phase = "absent"
    /\ Write(NewObject(s, m))
    /\ UNCHANGED noInitCM

\* The webhook is served by the operator, and its failurePolicy is Fail.
UserUpdate(s) ==
    /\ User
    /\ up
    /\ cr.phase # "absent" /\ cr.spec # s /\ ValidateUpdate(cr.spec, s)
    /\ Write([cr EXCEPT !.spec = s])
    /\ UNCHANGED noInitCM

UserDelete ==
    /\ User
    /\ cr.phase = "live"
    /\ Write([cr EXCEPT !.phase = "deleting"])
    /\ UNCHANGED noInitCM

\* The ConfigMap is read once per process; changing it later is not noticed.
UserToggleNoInit ==
    /\ User
    /\ noInitCM' = ~noInitCM
    /\ UNCHANGED << cr, fresh >>

SyncCache ==
    /\ up /\ "cache" \notin fresh
    /\ cache' = cr
    /\ fresh' = fresh \cup {"cache"}
    /\ UNCHANGED << cr, listed, noInitCM, up, noInit, init, rec, dirty,
                    unguarded, userOps, faults >>

-----------------------------------------------------------------------------
(***************************************************************************)
(* The process.  Everything in memory is lost when it ends; the cache is   *)
(* filled again before the workers of the next process start.              *)
(***************************************************************************)
Exit ==
    /\ up' = FALSE /\ noInit' = FALSE /\ init' = "config"
    /\ rec' = NoPass
    /\ cache' = Absent /\ listed' = Listing(Absent)
    /\ fresh' = {}
    /\ UNCHANGED << cr, noInitCM, dirty, userOps >>

Crash ==
    /\ up
    /\ faults < MaxFaults
    /\ faults' = faults + 1
    /\ Exit
    /\ UNCHANGED unguarded

Restart ==
    /\ ~up
    /\ up' = TRUE
    /\ cache' = cr
    /\ fresh' = {"cache"}
    /\ UNCHANGED << cr, listed, noInitCM, noInit, init, rec, dirty, unguarded,
                    userOps, faults >>

-----------------------------------------------------------------------------
(***************************************************************************)
(* InitializeOperand.  It runs in a goroutine of its own, started together *)
(* with the controller's workers, and reads and writes past the cache.  An *)
(* error it returns stops the manager, and with it the process.            *)
(***************************************************************************)
InitReadConfigMap ==
    /\ up /\ init = "config"
    /\ noInit' = noInitCM
    /\ init' = IF noInitCM THEN "done" ELSE "list"
    /\ unguarded' = (unguarded \/ ~noInitCM)
    /\ UNCHANGED << cr, cache, listed, fresh, noInitCM, up, rec, dirty,
                    userOps, faults >>

InitList ==
    /\ up /\ init = "list"
    /\ listed' = Listing(cr)
    /\ fresh' = fresh \cup {"listed"}
    /\ init' = "apply"
    /\ UNCHANGED << cr, cache, noInitCM, up, noInit, rec, dirty, unguarded,
                    userOps, faults >>

\* Is the listed operand to be overwritten with the default instance?
Outdated(o, onCloud) == ~o.managed \/ (o.spec \in Unstored /\ onCloud)

Instance(onCloud) == IF onCloud THEN CloudSpec ELSE LocalSpec

InitDone ==
    /\ init' = "done"
    /\ listed' = Listing(Absent)
    /\ UNCHANGED << cache, noInitCM, up, noInit, rec, dirty, unguarded,
                    userOps, faults >>

InitFails == Exit /\ UNCHANGED << unguarded, faults >>

\* The default operand is created when none was listed.
InitCreate(onCloud) ==
    /\ up /\ init = "apply" /\ listed.phase = "absent"
    /\ \/ /\ cr.phase = "absent"
          /\ Write(NewObject(Instance(onCloud), TRUE))
          /\ InitDone
       \/ cr.phase # "absent" /\ InitFails

\* UpdateOperand replaces spec and metadata: the finalizers go too.
InitUpdateOperand(onCloud) ==
    /\ up /\ init = "apply" /\ listed.phase # "absent"
    /\ Outdated(listed, onCloud)
    /\ LET accepted == /\ "listed" \in fresh
                       /\ ValidateUpdate(listed.spec, Instance(onCloud))
       IN \/ /\ accepted
             /\ Write([cr EXCEPT !.spec = Instance(onCloud),
                                 !.managed = TRUE, !.finalizer = FALSE])
             /\ InitDone
          \/ ~accepted /\ InitFails

InitKeep(onCloud) ==
    /\ up /\ init = "apply" /\ listed.phase # "absent"
    /\ ~Outdated(listed, onCloud)
    /\ InitDone
    /\ fresh' = fresh \ {"listed"}
    /\ UNCHANGED cr

Initializer ==
    \/ InitReadConfigMap
    \/ InitList
    \/ \E onCloud \in BOOLEAN : \/ InitCreate(onCloud)
                                \/ InitUpdateOperand(onCloud)
                                \/ InitKeep(onCloud)

-----------------------------------------------------------------------------
(***************************************************************************)
(* The Reconcile pass.  There is one worker, so passes do not overlap.     *)
(***************************************************************************)
NeedsFinalizer(o) == o.phase = "live" /\ ~o.finalizer /\ noInit

\* The pass ends here: adding the finalizer is all it does.  A stale copy is
\* refused by the API server, which changes nothing.
AddFinalizer ==
    /\ up /\ rec.pc = "idle"
    /\ NeedsFinalizer(cache)
    /\ "cache" \in fresh
    /\ Write([cache EXCEPT !.finalizer = TRUE])
    /\ UNCHANGED << cache, listed, noInitCM, up, noInit, init, rec, dirty,
                    unguarded, userOps, faults >>

\* Mutant: the loop starts at the second stage.
StartStages_SkipsFirst ==
    /\ up /\ rec.pc = "idle"
    /\ cache.phase # "absent" /\ ~NeedsFinalizer(cache)
    /\ rec' = [pc |-> "stage", obs |-> cache, idx |-> 2, next |-> cache.status]
    /\ fresh' = IF "cache" \in fresh THEN fresh \cup {"obs"} ELSE fresh
    /\ unguarded' = (unguarded \/ ~noInit)
    /\ UNCHANGED << cr, cache, listed, noInitCM, up, noInit, init, dirty,
                    userOps, faults >>

StartStages ==
    /\ up /\ rec.pc = "idle"
    /\ cache.phase # "absent" /\ ~NeedsFinalizer(cache)
    /\ rec' = [pc |-> "stage", obs |-> cache, idx |-> 1, next |-> cache.status]
    /\ fresh' = IF "cache" \in fresh THEN fresh \cup {"obs"} ELSE fresh
    /\ unguarded' = (unguarded \/ ~noInit)
    /\ UNCHANGED << cr, cache, listed, noInitCM, up, noInit, init, dirty,
                    userOps, faults >>

Finished == rec.idx > Len(StagesOf(rec.obs))

\* Mutant: the loop runs on after the last stage.
StageAnswers_NoEnd(s, result, obs) ==
    rec' = [pc |-> IF result = ResultSuccess THEN "stage" ELSE "done",
            obs |-> obs, next |-> [stage |-> s, result |-> result],
            idx |-> IF result = ResultSuccess THEN rec.idx + 1 ELSE rec.idx]

\* What the loop does with the answer of stage s.
StageAnswers(s, result, obs) ==
    LET idx == IF result = ResultSuccess THEN rec.idx + 1 ELSE rec.idx
        over == result # ResultSuccess \/ idx > Len(StagesOf(rec.obs))
    IN  rec' = [pc |-> IF over THEN "done" ELSE "stage", obs |-> obs,
                idx |-> idx, next |-> [stage |-> s, result |-> result]]

\* Reconcile of a stage.  The configuration stage may overwrite the labels of
\* the CR in memory (reconcilePrometheus assigns cr.Labels).
ReconcileStage(result) ==
    /\ up /\ rec.pc = "stage" /\ rec.obs.phase = "live"
    /\ LET s == InstallStages[rec.idx]
       IN  /\ \E m \in IF s = Configuration THEN {rec.obs.managed, FALSE}
                                            ELSE {rec.obs.managed} :
                 StageAnswers(s, result, [rec.obs EXCEPT !.managed = m])
           /\ dirty' = dirty \cup ({s} \ {Migration})
    /\ UNCHANGED << cr, cache, listed, fresh, noInitCM, up, noInit, init,
                    unguarded, userOps, faults >>

CleanupStage(result) ==
    /\ up /\ rec.pc = "stage" /\ rec.obs.phase = "deleting"
    /\ LET s == CleanupStages[rec.idx]
       IN  /\ StageAnswers(s, result, rec.obs)
           /\ dirty' = IF result = ResultSuccess THEN dirty \ {s} ELSE dirty
    /\ UNCHANGED << cr, cache, listed, fresh, noInitCM, up, noInit, init,
                    unguarded, userOps, faults >>

\* The last request of a pass writes o, unless obs is stale.
EndPass(o) ==
    /\ rec' = NoPass
    /\ IF "obs" \in fresh THEN Write(o)
                          ELSE UNCHANGED << cr, fresh >>
    /\ UNCHANGED << cache, listed, noInitCM, up, noInit, init, dirty, userOps,
                    faults >>

\* Mutant: the finalizer is released whatever the stages answered.
CleanedUp_Unfinished == rec.obs.phase = "deleting"

CleanedUp == rec.obs.phase = "deleting" /\ Finished

\* Mutant: the list of finalizers is not emptied before the update.
ReleaseFinalizer_Kept ==
    /\ up /\ rec.pc = "done" /\ CleanedUp
    /\ EndPass(rec.obs)
    /\ UNCHANGED unguarded

ReleaseFinalizer ==
    /\ up /\ rec.pc = "done" /\ CleanedUp
    /\ EndPass([rec.obs EXCEPT !.finalizer = FALSE])
    /\ UNCHANGED unguarded

\* Mutant: finalizers are removed from existing CRs only after a full pass.
DropFinalizer_OnlyFinished ==
    /\ up /\ rec.pc = "done" /\ ~CleanedUp
    /\ rec.obs.finalizer /\ ~noInit /\ Finished
    /\ EndPass([rec.obs EXCEPT !.finalizer = FALSE])
    /\ unguarded' = TRUE

DropFinalizer ==
    /\ up /\ rec.pc = "done" /\ ~CleanedUp
    /\ rec.obs.finalizer /\ ~noInit
    /\ EndPass([rec.obs EXCEPT !.finalizer = FALSE])
    /\ unguarded' = TRUE

\* Mutant: the whole object is updated, not only its status subresource.
UpdateStatus_WholeObject ==
    /\ up /\ rec.pc = "done" /\ ~CleanedUp
    /\ ~(rec.obs.finalizer /\ ~noInit)
    /\ EndPass([rec.obs EXCEPT !.status = rec.next])
    /\ UNCHANGED unguarded

\* Status().Update sends only the status, and only if it changed.  Fields that
\* are not modelled (lastMessage, lastSynced, ...) can change on their own.
UpdateStatus ==
    /\ up /\ rec.pc = "done" /\ ~CleanedUp
    /\ ~(rec.obs.finalizer /\ ~noInit)
    /\ \/ EndPass([cr EXCEPT !.status = rec.next])
       \/ /\ rec.next = rec.obs.status
          /\ rec' = NoPass
          /\ fresh' = fresh \ {"obs"}
          /\ UNCHANGED << cr, cache, listed, noInitCM, up, noInit, init,
                          dirty, userOps, faults >>
    /\ UNCHANGED unguarded

\* The last request of a pass fails for a reason other than a conflict.
PassFails ==
    /\ up /\ rec.pc = "done"
    /\ faults < MaxFaults
    /\ faults' = faults + 1
    /\ rec' = NoPass
    /\ fresh' = fresh \ {"obs"}
    /\ unguarded' = (unguarded \/ ~noInit)
    /\ UNCHANGED << cr, cache, listed, noInitCM, up, noInit, init, dirty,
                    userOps >>

RunStage(result) == ReconcileStage(result) \/ CleanupStage(result)

EndOfPass == ReleaseFinalizer \/ DropFinalizer \/ UpdateStatus \/ PassFails

Pass ==
    \/ AddFinalizer
    \/ StartStages
    \/ \E result \in Results : RunStage(result)
    \/ EndOfPass

Users ==
    \/ \E s \in Specs, m \in BOOLEAN : UserCreate(s, m)
    \/ \E s \in Specs : UserUpdate(s)
    \/ UserDelete
    \/ UserToggleNoInit

Next == Users \/ SyncCache \/ Crash \/ Restart \/ Initializer \/ Pass

Spec == Init /\ [][Next]_vars

(***************************************************************************)
(* Fairness: the process is restarted by its Deployment, the informer      *)
(* catches up, the initializer and the worker run, a pass that is started  *)
(* comes to its end.  Users, faults and failing stages are never forced.   *)
(***************************************************************************)
Fairness ==
    /\ WF_vars(Restart)
    /\ WF_vars(SyncCache)
    /\ WF_vars(Initializer)
    /\ WF_vars(AddFinalizer)
    /\ WF_vars(StartStages)
    /\ WF_vars(\E result \in Results : RunStage(result))
    /\ WF_vars(ReleaseFinalizer \/ DropFinalizer \/ UpdateStatus)

FairSpec == Spec /\ Fairness

(***************************************************************************)
(* In addition, no stage fails for ever: a stage that passes over the      *)
(* current object keep reaching succeeds in one of them.                   *)
(***************************************************************************)
StagesSucceed ==
    \A s \in InstallSet \cup CleanupSet :
        SF_vars(/\ RunStage(ResultSuccess)
                /\ StagesOf(rec.obs)[rec.idx] = s
                /\ "obs" \in fresh)

-----------------------------------------------------------------------------
(***************************************************************************)
(* Properties.                                                             *)
(***************************************************************************)

\* An object is dirty only under the protection of the finalizer: as long as
\* the operator never acted with noInit = FALSE, the CR cannot go away, by
\* whatever interleaving of users, stale reads, conflicts and restarts, while
\* a stage that was installed for it has not been cleaned up (Reconcile adds
\* the finalizer in a pass of its own before the first stage runs, and removes
\* it only after all cleanup stages of one pass succeeded).
NoOrphans == ~unguarded => (dirty = {} \/ cr.finalizer)

\* The status of a complete installation.
Complete ==
    [stage |-> InstallStages[Len(InstallStages)], result |-> ResultSuccess]

Reported == cr.phase = "live" /\ cr.status = Complete

\* What the status of a live CR claims is true of the cluster: if it says that
\* the last installation stage succeeded, every stage has been run, for this CR
\* or for one with its name before it, and none was cleaned up since
\* (updateStatus, against the resourceVersion the pass started from).
StatusIsHonest == Reported => InstallSet \ {Migration} \subseteq dirty

\* The managed-by label, which the next start of the operator looks at before
\* it overwrites an operand with the default instance, is lost only together
\* with the finalizer: the configuration stage overwrites the labels of the
\* copy in memory, and the update that drops the finalizer is the only one
\* that carries this copy's metadata to the API server.
LabelLostOnlyWithFinalizer ==
    [][cr.managed /\ cr'.phase = "live" /\ ~cr'.managed
           => cr.finalizer /\ ~cr'.finalizer]_vars

\* The comment above the guard of the release reads "Only remove the finalizer
\* when all stages were successful": an object that is being deleted leaves the
\* API server only when no stage is dirty.
ReleasedOnlyWhenClean ==
    [][cr.phase = "deleting" /\ cr'.phase = "absent" => dirty = {}]_vars

\* The finalizer follows the mode the process read at its start, whatever mode
\* the CR was created under: it is added to CRs that have none in no-init mode
\* and removed from CRs that have one otherwise, even if no stage ever succeeds.
FinalizerFollowsMode ==
    <>[](cr.phase = "live" => cr.finalizer = noInit)

\* If no stage fails for ever, a CR that is being deleted goes away, whatever
\* crashes, edits and mode the deletion meets.
DeletionCompletes ==
    StagesSucceed => (cr.phase = "deleting" ~> cr.phase = "absent")

Promise ==
    INSTANCE Lifecycle WITH
        Stages <- InstallSet \ {Migration},
        phase <- cr.phase,
        protected <- cr.finalizer,
        installed <- dirty,
        reported <- Reported,
        trusted <- ~unguarded

\* The control loop, with its cached and conflicting copies of the CR, its
\* initializer and its restarts, keeps the promise of Lifecycle: every step of
\* it, seen from the owner of the CR, is one that Lifecycle allows or none.
KeepsPromise == Promise!Spec

-----------------------------------------------------------------------------
(***************************************************************************)
(* The inductive invariant behind NoOrphans and StatusIsHonest.            *)
(***************************************************************************)

\* An absent object has no content, one that is being deleted a finalizer.
WellFormed(o) ==
    /\ o.phase = "absent" => o = Absent
    /\ o.phase = "deleting" => o.finalizer

\* o equals cr in all but the label.
SameButLabel(o) ==
    /\ o.phase = cr.phase /\ o.finalizer = cr.finalizer
    /\ o.spec = cr.spec /\ o.status = cr.status

\* A dead process remembers nothing; a copy with the current resourceVersion
\* has the current content.
CopiesAgree ==
    /\ WellFormed(cr) /\ WellFormed(cache)
    /\ ~up => rec = NoPass /\ cache = Absent /\ fresh = {}
    /\ "cache" \in fresh => cache = cr
    /\ "listed" \in fresh => listed = Listing(cr)
    /\ "obs" \in fresh => "cache" \in fresh /\ SameButLabel(rec.obs)

\* What a pass has done so far: an installation pass has run the stages before
\* the current one, a cleanup pass has cleaned them up.
PassProgress ==
    rec.pc # "idle" =>
        /\ rec.obs.phase # "absent"
        /\ rec.idx <= Len(StagesOf(rec.obs)) + 1
        /\ rec.pc = "done" /\ rec.next.result = ResultSuccess => Finished
        /\ rec.obs.phase = "live" =>
               \A i \in DOMAIN InstallStages :
                   i < rec.idx => InstallStages[i] \in dirty \cup {Migration}
        /\ rec.obs.phase = "deleting" =>
               \A i \in DOMAIN CleanupStages :
                   i < rec.idx => CleanupStages[i] \notin dirty

\* As long as every use of noInit saw TRUE, nothing takes the finalizer off a
\* live object.
GuardedMode ==
    ~unguarded =>
        /\ init \in {"config", "done"}
        /\ rec.pc # "idle" => noInit /\ rec.obs.finalizer
        /\ cache.phase = "live" /\ cache.finalizer => cr.finalizer
        /\ rec.pc # "idle" /\ rec.obs.phase = "live" => cr.finalizer

\* While the operator still sees the predecessor of a recreated CR being
\* deleted, the new CR has no status.
StatusIsYoung ==
    cr.phase = "live" /\ cr.status # NoStatus =>
        /\ cache.phase # "deleting"
        /\ rec.pc # "idle" => rec.obs.phase # "deleting"

\* Together they are preserved by every step (CopiesAgree and PassProgress say
\* what the code may conclude from a successful update, GuardedMode and
\* StatusIsYoung what it may not have missed meanwhile).
Inductive ==
    /\ TypeOK
    /\ Migration \notin dirty
    /\ CopiesAgree
    /\ PassProgress
    /\ GuardedMode
    /\ StatusIsYoung
    /\ NoOrphans
    /\ StatusIsHonest
=============================================================================
