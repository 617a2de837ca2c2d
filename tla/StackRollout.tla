---------------------------- MODULE StackRollout ----------------------------
(***************************************************************************)
(* The passes of the controller over the whole stack, one request at a     *)
(* time, beside the parts of the cluster that react to them: OLM, the      *)
(* Prometheus and Grafana operators, the service CA and the router.        *)
(*                                                                         *)
(* A pass runs the stages of StackStages for the CR it has read.  A stage  *)
(* that fails or is in progress ends the pass, and the next one starts at  *)
(* the first stage again.  The finalizer, the status conflicts and the     *)
(* informer cache are the subject of ObservabilityController; here the CR  *)
(* has its finalizer from the start and a deletion waits for the cleanup.  *)
(***************************************************************************)
EXTENDS StackStages, FiniteSets

CONSTANTS
    Starts,      \* the specs a CR may be created with, and the objects there
                 \* may be by then: pairs of a spec and a set of objects
    MaxFaults,   \* bound on failed requests, crashes and rejected routes
    MaxEdits,    \* bound on changes of the spec
    MayDelete    \* whether the user may delete the CR

Choices == {s[1] : s \in Starts}

ASSUME RolloutAssumption ==
    /\ Choices \subseteq Flags
    /\ MaxFaults \in Nat
    /\ MaxEdits \in Nat
    /\ MayDelete \in BOOLEAN

VARIABLES
    objects,   \* the objects in the cluster, with the marks of StackObjects
    phase,     \* of the CR: "live", "deleting" or "gone"
    flags,     \* the spec of the CR
    pass,      \* the running pass: its CR, the next step and the next status
    status,    \* the stored marks of the CR status
    faults, edits

vars == <<objects, phase, flags, pass, status, faults, edits>>

\* The steps of a pass over a CR with spec f in phase p, what they make, and what
\* every sync among them makes.
StepsOf(p, f) ==
    LET stages == IF p = "live" THEN getInstallationStages ELSE getCleanupStages
        upTo[n \in 0..Len(stages)] ==
            IF n = 0 THEN <<>>
            ELSE upTo[n - 1] \o ReconcilerForStage(p, stages[n], f)
    IN upTo[Len(stages)]

Named(steps) == UNION {steps[i].on : i \in DOMAIN steps}

Made(steps) ==
    {o \in Named(steps) : \E i \in DOMAIN steps :
        steps[i].op \in {"ensure", "attempt"} /\ o \in steps[i].on}

\* What a sync makes only if an index asks for it, or if a token is granted.
AsRequested == {TokenSecret, RefresherService, RefresherPolicy, RefresherDeployment}

Programs ==
    {[phase |-> p, flags |-> f, steps |-> StepsOf(p, f),
      makes |-> Made(StepsOf(p, f)),
      syncs |-> Made(Configuration_Sync(f)) \ AsRequested] :
     p \in {"live", "deleting"}, f \in Choices}

Program(p, f) == CHOOSE g \in Programs : g.phase = p /\ g.flags = f
Managed(f) == Program("live", f).makes
SyncMakes(f) == Program("live", f).syncs

Steps == Program(pass.phase, pass.flags).steps
Running == pass.pos > 0

\* The step a running pass takes next, if it is not through.
Pending == IF Running /\ pass.pos <= Len(Steps) THEN {Steps[pass.pos]} ELSE {}

Idle(f) == [pos |-> 0, phase |-> "live", flags |-> f, next |-> {}]

Init ==
    /\ \E s \in Starts : flags = s[1] /\ objects = s[2]
    /\ phase = "live"
    /\ pass = Idle(flags)
    /\ status = {}
    /\ faults = 0
    /\ edits = 0

-----------------------------------------------------------------------------
(***************************************************************************)
(* Passes.                                                                 *)
(***************************************************************************)

\* A readiness goes with the object it is a property of.
Settle(os) ==
    os \ ({Ready(op) : op \in {q \in Operators : Deployment(q) \notin os}}
          \cup {Rejected(n) : n \in {m \in {Prometheus, Alertmanager} :
                                        Route(m) \notin os}}
          \cup (IF ResourcesDeployment \in os THEN {} ELSE {ResourcesReady}))

\* A namespace goes when what is in it has gone.
Removed(os, gone) ==
    IF PrometheusNamespace \in os \cap gone
    THEN Settle((os \ (gone \ {PrometheusNamespace})) \cup {Terminating})
    ELSE Settle(os \ gone)

\* Nothing is created in a namespace that is missing or going.
Refused(o) ==
    \/ NoMatch({o}, objects)
    \/ /\ pass.flags.descoped
       /\ o \in PrometheusNamespaced \ objects
       /\ PrometheusNamespace \notin objects \/ Terminating \in objects

StartPass ==
    /\ ~Running
    /\ phase # "gone"
    /\ pass' = [pos |-> 1, phase |-> phase, flags |-> flags, next |-> status]
    /\ UNCHANGED <<objects, phase, flags, status, faults, edits>>

\* The pass ends; saved says whether its status update reaches the CR.
EndPass(saved) ==
    /\ pass' = Idle(pass.flags)
    /\ status' = IF saved THEN pass.next ELSE status
    /\ UNCHANGED <<phase, flags, faults, edits>>

Advance(n) ==
    /\ pass' = [pass EXCEPT !.pos = @ + 1 + n]
    /\ UNCHANGED <<phase, flags, status, faults, edits>>

Create(step) ==
    /\ step.op = "ensure"
    /\ \E o \in step.on :
          IF Refused(o)
          THEN EndPass(TRUE) /\ UNCHANGED objects
          ELSE Advance(0) /\ objects' = objects \cup {o}

\* The token may be fetched and stored, or not.
TryCreate(step) ==
    /\ step.op = "attempt"
    /\ Advance(0)
    /\ objects' \in {objects, objects \cup step.on}

Remove(step) ==
    /\ step.op \in {"delete", "deleteAny"}
    /\ IF NoMatch(step.on, objects) /\ step.op = "delete"
       THEN EndPass(TRUE) /\ UNCHANGED objects
       ELSE Advance(0) /\ objects' = Removed(objects, step.on)

RemoveOne(step) ==
    /\ step.op = "retire"
    /\ IF step.on \cap objects = {}
       THEN Advance(0) /\ UNCHANGED objects
       ELSE /\ \E o \in step.on \cap objects : objects' = Removed(objects, {o})
            /\ EndPass(TRUE)

Wait(step) ==
    /\ \/ step.op = "await" /\ step.on \subseteq objects /\ Advance(0)
       \/ step.op = "await" /\ ~(step.on \subseteq objects) /\ EndPass(TRUE)
       \/ step.op = "awaitGone" /\ step.on \cap objects = {} /\ Advance(0)
       \/ step.op = "awaitGone" /\ step.on \cap objects # {} /\ EndPass(TRUE)
       \/ step.op = "stop" /\ EndPass(TRUE)
    /\ UNCHANGED objects

SetMark(step) ==
    /\ step.op \in {"mark", "unmark"}
    /\ pass' = [pass EXCEPT !.pos = @ + 1,
                            !.next = IF step.op = "mark" THEN @ \cup step.on
                                                         ELSE @ \ step.on]
    /\ UNCHANGED <<objects, phase, flags, status, faults, edits>>

Choose(step) ==
    /\ LET there == objects \cup pass.next
           skip  == Advance(step.skip)
           enter == Advance(0)
       IN \/ step.op = "unless" /\ step.on \cap there # {} /\ skip
          \/ step.op = "unless" /\ step.on \cap there = {} /\ enter
          \/ step.op = "when" /\ step.on \subseteq there /\ enter
          \/ step.op = "when" /\ ~(step.on \subseteq there) /\ skip
          \/ step.op = "gate" /\ step.on \subseteq there /\ skip
          \/ step.op = "gate" /\ enter
    /\ UNCHANGED objects

\* The process dies; it is restarted and the status of the pass is lost.
Panics(step) ==
    /\ step.op = "panic"
    /\ EndPass(FALSE)
    /\ UNCHANGED objects

\* Mutant: the loop over the stages runs past its end.
Finish_Overruns ==
    /\ Running
    /\ pass.pos > Len(Steps)
    /\ pass' = [pass EXCEPT !.pos = @ + 1]
    /\ UNCHANGED <<objects, phase, flags, status, faults, edits>>

\* The last stage has succeeded.  A cleanup lets the CR go.
Finish ==
    /\ Running
    /\ pass.pos > Len(Steps)
    /\ pass' = Idle(pass.flags)
    /\ IF pass.phase = "deleting"
       THEN phase' = "gone" /\ UNCHANGED status
       ELSE status' = pass.next /\ UNCHANGED phase
    /\ UNCHANGED <<objects, flags, faults, edits>>

\* A request fails, or the process is killed between two requests.
Abort(saved) ==
    /\ Running
    /\ faults < MaxFaults
    /\ faults' = faults + 1
    /\ pass' = Idle(pass.flags)
    /\ status' = IF saved THEN pass.next ELSE status
    /\ UNCHANGED <<objects, phase, flags, edits>>

Pass ==
    \/ StartPass
    \/ \E step \in Pending :
          \/ Create(step) \/ TryCreate(step) \/ Remove(step) \/ RemoveOne(step)
          \/ Wait(step) \/ SetMark(step) \/ Choose(step) \/ Panics(step)
    \/ Finish

-----------------------------------------------------------------------------
(***************************************************************************)
(* The user, and the cluster around the operator.                          *)
(***************************************************************************)
UserDeletes ==
    /\ MayDelete
    /\ phase = "live"
    /\ phase' = "deleting"
    /\ UNCHANGED <<objects, flags, pass, status, faults, edits>>

UserEdits ==
    /\ phase = "live"
    /\ edits < MaxEdits
    /\ edits' = edits + 1
    /\ flags' \in Choices \ {flags}
    /\ UNCHANGED <<objects, phase, pass, status, faults>>

UserConfigures ==
    /\ phase = "live"
    /\ ConfigSecret \notin objects
    /\ objects' = objects \cup {ConfigSecret}
    /\ UNCHANGED <<phase, flags, pass, status, faults, edits>>

Appear(os) ==
    /\ ~(os \subseteq objects)
    /\ objects' = objects \cup os
    /\ UNCHANGED <<phase, flags, pass, status, faults, edits>>

Disappear(os) ==
    /\ os \cap objects # {}
    /\ objects' = Settle(objects \ os)
    /\ UNCHANGED <<phase, flags, pass, status, faults, edits>>

\* The operator groups in the namespace of an operator.
GroupsFor(op) ==
    IF op = PrometheusOperator /\ flags.descoped
    THEN objects \cap {OperatorGroup}
    ELSE objects \cap {OperatorGroup, OlmOperatorGroup, GlobalOperatorGroup}

\* OLM resolves a subscription in a namespace with exactly one operator group.
OlmInstalls(op) ==
    /\ Subscription(op) \in objects
    /\ op # LoggingOperator =>
          /\ Source(op) \in objects
          /\ Cardinality(GroupsFor(op)) = 1
    /\ OldCsv(op) \notin objects
    /\ Appear({OperatorCsv(op), Crds(op)})

OlmDeploys(op) ==
    /\ {OperatorCsv(op), OldCsv(op)} \cap objects # {}
    /\ Appear({Deployment(op)})

OlmRemoves(op) ==
    /\ {OperatorCsv(op), OldCsv(op)} \cap objects = {}
    /\ Disappear({Deployment(op)})

BecomesReady(op) ==
    /\ Deployment(op) \in objects
    /\ Appear({Ready(op)})

OperatorOf(n) == IF n = Grafana THEN GrafanaOperator ELSE PrometheusOperator

OperandStarts(n) ==
    /\ {Cr(n), Ready(OperatorOf(n))} \subseteq objects
    /\ Appear({Workload(n)})

\* The garbage collector removes the StatefulSet or Deployment of a deleted
\* operand.  The pods follow later; no step of a pass looks at them.
OperandStops(n) ==
    /\ Cr(n) \notin objects
    /\ Disappear({Workload(n)})

IssuesTlsSecret(n) ==
    /\ Service(n) \in objects
    /\ Appear({TlsSecret(n)})

RouterAdmits(n) == Disappear({Rejected(n)})

ResourcesStart ==
    /\ ResourcesDeployment \in objects
    /\ Appear({ResourcesReady})

NamespaceDrains ==
    /\ Terminating \in objects
    /\ Disappear(PrometheusNamespaced \cup {PrometheusNamespace, Terminating})

RouterRejects(n) ==
    /\ faults < MaxFaults
    /\ Route(n) \in objects
    /\ Rejected(n) \notin objects
    /\ faults' = faults + 1
    /\ objects' = objects \cup {Rejected(n)}
    /\ UNCHANGED <<phase, flags, pass, status, edits>>

Operands == {Prometheus, Alertmanager, Grafana}

Environment ==
    \/ \E op \in Operators : OlmInstalls(op) \/ OlmDeploys(op) \/ OlmRemoves(op)
                             \/ BecomesReady(op)
    \/ \E n \in Operands : OperandStarts(n) \/ OperandStops(n)
    \/ \E n \in {Prometheus, Alertmanager} : IssuesTlsSecret(n) \/ RouterAdmits(n)
    \/ ResourcesStart
    \/ NamespaceDrains

Mishap ==
    \/ \E saved \in BOOLEAN : Abort(saved)
    \/ \E n \in {Prometheus, Alertmanager} : RouterRejects(n)

User == UserDeletes \/ UserEdits \/ UserConfigures

Next == Pass \/ Environment \/ Mishap \/ User

Spec == Init /\ [][Next]_vars

\* A pass finds that the resync period is over, and synchronises.
EnterGate ==
    /\ \E step \in Pending : step.op = "gate" /\ step.on # {}
    /\ Advance(0)
    /\ UNCHANGED objects

\* The controller requeues a CR for as long as it exists, and every part of the
\* cluster reacts in the end.  A resync period is finite, so of the passes that
\* ask for one again and again some find it over.  Users and mishaps are under
\* no obligation.
Fairness ==
    /\ WF_vars(Pass)
    /\ SF_vars(EnterGate)
    /\ \A op \in Operators : WF_vars(OlmInstalls(op)) /\ WF_vars(OlmDeploys(op))
                             /\ WF_vars(OlmRemoves(op)) /\ WF_vars(BecomesReady(op))
    /\ \A n \in Operands : WF_vars(OperandStarts(n)) /\ WF_vars(OperandStops(n))
    /\ \A n \in {Prometheus, Alertmanager} : WF_vars(RouterAdmits(n))
    /\ WF_vars(ResourcesStart)
    /\ WF_vars(NamespaceDrains)

FairSpec == Spec /\ Fairness

-----------------------------------------------------------------------------
(***************************************************************************)
(* Properties.                                                             *)
(***************************************************************************)

Everything ==
    {o \in UNION {Named(g.steps) : g \in Programs} \cup UNION {s[2] : s \in Starts}
           \cup UNION {{OperatorCsv(op), Crds(op), Deployment(op), Ready(op)} :
                          op \in Operators}
           \cup UNION {{Workload(n), TlsSecret(n), Rejected(n)} : n \in Operands}
           \cup {ConfigSecret, Terminating, ResourcesReady} :
        o \notin {Migrated, Synced}}

\* The state has its type: the cluster holds objects some step or reaction
\* names, and a running pass is at a step of the program of the CR it read.
TypeOK ==
    /\ objects \subseteq Everything
    /\ phase \in {"live", "deleting", "gone"}
    /\ flags \in Choices
    /\ pass.flags \in Choices
    /\ pass.phase \in {"live", "deleting"}
    /\ pass.pos \in 0..(Len(Steps) + 1)
    /\ pass.next \subseteq {Migrated, Synced}
    /\ status \subseteq {Migrated, Synced}
    /\ faults \in 0..MaxFaults
    /\ edits \in 0..MaxEdits

\* The cleanups of Prometheus and Alertmanager delete the operand first and wait
\* for its StatefulSet: as long as that exists and may start pods, the service
\* account, role and role binding it starts them with are there, whatever is
\* retried, killed or deleted in between.
AccessOutlivesStatefulSet ==
    \A n \in {Prometheus, Alertmanager} :
        Workload(n) \in objects => Access(n) \subseteq objects

\* What the migration deletes of the operands' objects with old names.  It skips
\* those of promtail where neither external sync nor Observatorium is on.
OldNamed(f) ==
    (IF f.named THEN {}
     ELSE {Cr(OldPrometheus), Route(OldPrometheus), Service(OldPrometheus),
           Cr(OldAlertmanager), Route(OldAlertmanager), Service(OldAlertmanager)}
          \cup Access(OldPrometheus) \cup Access(OldAlertmanager)
          \cup (IF f.descoped THEN {} ELSE {Cr(OldGrafana)}))
    \cup (IF f.externalSyncOff /\ f.observatoriumOff THEN {}
          ELSE Access(OldPromtail))

\* The stored migrated flag is never ahead of the migration: once it is set no
\* later pass looks again, so nothing with an old name may be left by then.
MigratedMeansGone == Migrated \in status => OldNamed(flags) \cap objects = {}

\* What the cleanup does not delete: the services of the token refreshers, the
\* generated dead man's switch rule, and the TLS secret the service CA may issue
\* again before the Alertmanager service is gone.  Old names stay when the CR is
\* deleted before the migration.  An interrupted Logging cleanup is not resumed.
Leftovers ==
    {RefresherService, TlsSecret(Alertmanager)}
    \cup (IF flags.externalSyncOff THEN {DeadmansSwitch} ELSE {})
    \cup (IF Migrated \in status THEN {} ELSE OldNamed(flags))
    \cup (IF faults = 0 THEN {}
          ELSE {OperatorCsv(LoggingOperator), ClusterLogging, ClusterLogForwarder})

\* When the cleanup lets the CR go, nothing an installation pass makes, no CSV
\* and no old name is left, but for Leftovers.
CleanupComplete ==
    phase = "gone" /\ ~flags.descoped =>
        objects \cap (Managed(flags) \cup OldNamed(flags)
                      \cup {TlsSecret(Prometheus), TlsSecret(Alertmanager)}
                      \cup {OperatorCsv(op) : op \in Operators})
            \subseteq Leftovers

\* The stored time of the last sync is never ahead of the sync: passes skip it
\* for a whole resync period from then on, so everything a sync makes whatever
\* the indexes say is in place by then, and later syncs that fail or are killed
\* half-way leave it there.
SyncedMeansInstalled ==
    Synced \in status /\ phase = "live" => SyncMakes(flags) \subseteq objects

\* A CR that is being deleted goes in the end, whatever the user and the cluster
\* do in the meantime and also if OLM refused to install anything for it, given
\* that the CRDs the cleanups list were there when the CR was created.
DeletionCompletes == phase = "deleting" ~> phase = "gone"

Installed ==
    /\ OperandCrs(flags) \subseteq objects
    /\ \A n \in {Prometheus, Alertmanager} : Workload(n) \in objects
    /\ Migrated \in status

\* What the last sync leaves: all that the spec asks for, and nothing of what
\* another spec had asked for and this one has turned off.
UpToDate ==
    /\ SyncMakes(flags) \subseteq objects
    /\ flags.externalSyncOff => TokenSecret \notin objects
    /\ ~flags.externalSyncOff => DeadmansSwitch \notin objects
    /\ NoPromtail(flags) =>
          {PromtailDaemonSet, RefresherDeployment, RefresherPolicy} \cap objects = {}

\* A configured CR gets its stack, and a spec that is edited within a resync
\* period, in the middle of a pass or after one, is applied in the end.
StackSettles ==
    phase = "live" /\ ConfigSecret \in objects ~>
        (Installed /\ UpToDate) \/ phase # "live"

\* The migrated flag is stored by a pass that got through the installation
\* stages, which replace an operator of an earlier version: by then its CSV,
\* and with it that operator, is gone.
OldCsvsRetired ==
    Migrated \in status => \A op \in Operators : OldCsv(op) \notin objects
=============================================================================
