# Verification of the observability operator

TLA+ specifications of the operator in `src/`, TLC configurations for small
instances, and TLAPS proofs about its control loop and its storage migration.
`PROJECT.json` lists components, runs, hazards, findings and theorems, and maps
every definition that models code to its source lines.

## The system

The operator installs a monitoring stack for one `Observability` custom resource
(CR) and removes it again. One worker runs `Reconcile` passes. A pass reads the
CR from the informer cache and calls the reconcilers of a list of stages in order:
`Reconcile` for a live CR, `Cleanup` for one that is being deleted. A stage that
fails or is in progress ends the pass, and the next pass starts at the first stage.
What survives between passes is the cluster, the CR with its status and its
finalizer, and the `noInit` field of the process.

| Part | Source | Module |
|---|---|---|
| Pass, finalizer, status | `controllers/observability_controller.go` | `ObservabilityController` |
| `InitializeOperand`, start and exit | same, `main.go`, `runners/` | `ObservabilityController` |
| Webhook | `api/v1/observability_webhook.go` | guard `ValidateUpdate` of `ObservabilityController` |
| Stage lists, names, results | `api/v1/observability_types.go` | `StageNames` |
| The eleven stages | `controllers/reconcilers/*` | `StackStages`, run by `StackRollout` |
| Object names, namespaces | `controllers/model/*` | `StackObjects` |
| Waits and lookups | `controllers/utils/*` | `StackStages`, `StackRollout` |
| Index files, and what a sync selects from them | `api/v1/index.go`, `reconcilers/configuration/*`, `model/*` | `ConfigurationIndex` |
| A sync of the configuration stage | `reconcilers/configuration/*` | `ConfigurationSync` |
| Storage of Prometheus | `reconcilers/configuration/prometheus.go` | `PrometheusVolume` |
| Tokens | `reconcilers/token`, `controllers/token` | `TokenManager`, and steps of `ConfigurationSync` and `StackStages` |
| Metrics, generated deep copies | `controllers/metrics`, `zz_generated` | not modelled |

## Modules

**ObservabilityController** has the stored CR (`cr`), the cached copy, the copy
a pass holds (`rec.obs`) and what `InitializeOperand` listed. The set `fresh`
says which of these copies still carry the current resourceVersion: a write by
anyone empties it, and an update is accepted only from a fresh copy. `noInit` is
the field of the reconciler; it is FALSE until `InitializeOperand` has read the
ConfigMap, while passes may already run. Each part of a pass is an action:
`AddFinalizer` (a whole pass), `StartStages`, `ReconcileStage` or `CleanupStage`
per stage, and one of `ReleaseFinalizer`, `DropFinalizer`, `UpdateStatus`,
`PassFails` at its end. Users create, edit and delete the CR and toggle the
ConfigMap; the process crashes and restarts. A stage's effect is reduced to the
set `dirty` of stages installed and not cleaned up since. `unguarded` is a
history variable: the operator has used `noInit = FALSE`.

**StackStages** translates every `Reconcile` and `Cleanup` of every stage into a
sequence of steps, one per request that can change an object or end the pass
(`Ensure`, `Delete`, `Await`, `Unless`, ...). Definitions carry the names of the
functions they model, prefixed with the stage where a name occurs in several.

**StackRollout** interprets these steps one at a time beside the parts of the
cluster that react: OLM, the operators, the service CA, the router, the namespace
controller. Those are external and modelled by what the stages rely on. Here the
CR has its finalizer from the start; finalizer, conflicts and cache are the
subject of the other module, whose `ReconcileStage` and `CleanupStage` stand for
what this one shows in detail. A workload is the StatefulSet or Deployment of an
operand, which is all the waits look for; pods are not modelled. An operator group
in `cr.Namespace` is one whose target namespaces list it (`OlmOperatorGroup`) or
one for others (`GlobalOperatorGroup`): the lookup sees only the former, OLM
counts both. Whether a sync deletes and makes token refreshers is left open here
(`Either`); the conditions are in `ConfigurationIndex`.

**Lifecycle** is the abstract specification of the controller: a CR is absent,
live or deleting, protected by a finalizer or not; a stack is installed and taken
down; a status is reported. It knows no passes, caches, resource versions or
processes. `ObservabilityController` implements it under the mapping `Promise`:
`installed` is `dirty`, `reported` is a status that says success in the last stage,
`trusted` is `~unguarded`. What it promises is conditional, since an operator that
once acted with `noInit = FALSE` may drop a finalizer.

**ConfigurationIndex** holds the pure functions of the configuration stage: which
files, refreshers, daemon sets, remote writes, selectors, federated metrics and
alert receivers the index files ask for. They keep the loops of the code, their
early returns and labels included.

**TokenManager** has the tokens: what a secret adds to an observatorium, when a
token has to be renewed, what a renewal stores.

**ConfigurationSync** is the configuration stage over time, for several
repositories: the gate (`Forced`, `Due`), the index files in any order, and one
action per function of a sync. A *world* is what users control: the CR, the
repositories and the secrets. It may change at any step. A sync works on the CR
and indexes it has read, and reads secrets when it needs them. A failed request
ends the sync (`Fault`), or is passed over where the code only logs it or treats
it as absence (`GoOn` with `failed`): credentials of an observatorium, a list of
token secrets, a receiver's secret, the bearer token, the OAuth2 secret. `steady`
is a history field: nobody has edited anything since the sync began and no
failure was passed over. What a world asks for is defined a second time without
the loops (`Applied`), and the two are compared.

**PrometheusVolume** is the part of `reconcilePrometheus` that hands the volume of
the claim `...-kafka-prometheus-0` to the claim of the new Prometheus, request by
request, beside the Kubernetes controllers that create, bind, protect, remove and
reclaim. Those are external. The reclaim policy is Delete. The code reserves the
volume for one fixed claim name, while the claim of the stateful set follows the
name of the Prometheus CR (`own`): under another name the claim stays pending, or
gets a new disk if it is made after the old claim has gone, and the volume with
the metrics stays reserved. A spec that names Prometheus
`kafka-prometheus`, the old name, is assumed away. A bound claim whose volume is
reserved anew, without the uid of the claim, is lost (`Misbind`), as Kubernetes
has it.

The two views of the configuration stage divide its work: `StackStages` has the
objects and waits that matter to the order of stages and to the cleanup, for one
index; `ConfigurationSync` has what depends on the content of several indexes.

**MCController**, **MCStackRollout**, **MCConfigurationSync** and
**MCPrometheusVolume** hold the instances; **ControllerProofs**,
**LifecycleProofs** and **VolumeProofs** the proofs.

## What the runs check

| Run | Properties | Result |
|---|---|---|
| `controller` | `TypeOK`, `NoOrphans`, `StatusIsHonest`, `Inductive`, `LabelLostOnlyWithFinalizer` | hold, 2.98 million states |
| `controller_live` | `KeepsPromise`, `FinalizerFollowsMode`, `DeletionCompletes` | hold, 119 thousand |
| `rollout` | `TypeOK`, `AccessOutlivesStatefulSet`, `MigratedMeansGone`, `OldCsvsRetired`, `CleanupComplete`, `SyncedMeansInstalled` | hold, 1.09 million |
| `rollout_live` | `DeletionCompletes` | holds, 76 thousand |
| `edit` | `StackSettles` | holds, 123 thousand |
| `sync` | `TypeOK`, `SyncedMeansApplied`, `NoTokenExpires`, `ResyncIsInvisible`, `TokenKept`, `EventuallyApplied` | hold, 356 thousand |
| `volume` | `TypeOK`, `MetricsKept`, `Inductive`, `HandedOverOrLost` | hold, 7.5 thousand |
| `controller_race` | `ReleasedOnlyWhenClean` | violated |
| `upgrade_crash` | `OldCsvsRetired` | violated |
| `sync_panic` | `NeverPanics` | violated |
| `sync_rules` | `OnlyUnrequestedRulesDeleted` | violated |
| `volume_order` | `MetricsKept` | violated |

The five violated runs are the findings of `PROJECT.json`:

- A pass that runs after a restart before `InitializeOperand` has read the
  ConfigMap drops the finalizer of a CR whose cleanup has not finished.
- A crash between the deletion of the old Grafana subscription and of its CSV
  leaves the CSV for good.
- An sso secret without logs client makes `shouldExist` of the token refreshers
  dereference a nil pointer once a refresher exists.
- A rule name in two indexes hides the other rules of one of them, which are
  deleted as unrequested.
- With another claim in the namespace, the volume given to the new Prometheus may
  be that claim's; the one with the metrics is then reclaimed.

What the passing runs show beyond the names of their properties:

- `AccessOutlivesStatefulSet`: the access of Prometheus and Alertmanager is
  deleted only when their StatefulSets have gone. Pods that are still terminating
  then may lose it, for nothing waits for pods.
- `SyncedMeansInstalled`, `StackSettles`: a pass within the resync period does
  nothing, so the time stamp must not be ahead of the sync, and an edit that turns
  external sync or Observatorium on or off within the period is applied after it:
  what the new spec asks for is there and what only the old one asked for is gone.
- `DeletionCompletes`: also where a group for other namespaces makes the stages
  add a second one and OLM refuse to install anything.
- `MigratedMeansGone` is about what the migration deletes. With neither external
  sync nor Observatorium it leaves old promtail objects, and `OldNamed` says so.
- `SyncedMeansApplied`: whatever mixture earlier syncs left, a sync that runs to
  its end undisturbed applies all of it. `EventuallyApplied` adds that a failure
  which is passed over, or an edit in mid-sync, is made good by a later sync.
  Token refreshers are an exception that the property states: a sync may delete
  and create them again each time, because `shouldExist` gives up at the first
  observatorium without sso.
- `ResyncIsInvisible`: deletion of what is unrequested and creation of what is
  requested are decided by separate functions; they agree.
- `NoTokenExpires`, `TokenKept`: renewal in advance, forced past the resync
  period, is in time although a request fails, even in a world whose syncs all fail
  after the tokens, and a failed renewal costs nothing. An answer of dex without a
  token is not told from one with a token and replaces it: `TokenKept` excepts it.
- `MetricsKept`, `HandedOverOrLost`: although the old claim is deleted before the
  new one is bound, the volume survives, because it already names the new claim. In
  the end the old claim is gone and the new one is bound to the volume, unless a
  sync reserved the volume again after the new claim was bound and before the old
  one had gone: that claim is lost, and nothing in the operator repairs it.

`CleanupComplete` names what a cleanup leaves in `Leftovers`: token refresher
services, the generated dead man's switch rule with external sync off, the
Alertmanager TLS secret (deleted before the service it is issued for), old names
when the CR is deleted before the migration, and the Logging objects after an
interrupted Logging cleanup. It covers stacks in `cr.Namespace`; the cleanup of
a descoped stack ends by deleting its namespace.

### Bounds

- `controller` has three stages: one with and one without a cleanup, and the one
  that changes labels. The loop treats all others alike. Three user operations
  allow create, delete, recreate; one fault a crash or failed write anywhere.
  The theorems remove these bounds. `controller_live` has one installation and two
  cleanup stages and two user operations.
- `rollout` starts from four pairs of a spec and a cluster: an upgrade with old
  names, a cluster without CRDs and with old promtail objects, an old Prometheus
  operator, and logging, an image repository and an OLM operator group together.
  `MaxFaults = 1` puts a crash, a failed request or a rejected route at any step;
  `MaxEdits = 1` in `edit` switches external sync or Observatorium at any step.
  There the CR is not deleted (`MayDelete`): the property ends with the CR, and
  deletions are the subject of the two other runs. One configuration secret names
  one index.
- `sync` has seven worlds: two services (one behind sso, one by dex with a second
  observatorium that names its dex secret the old way); no repository;
  Observatorium off; external sync off; OAuth2 with a descoped Prometheus; a
  service with missing secrets; and one with an sso url and a resync period that
  do not parse. In the last no sync gets past the token refreshers, and
  `EventuallyApplied` asks nothing of it; the other properties hold there too.
  `MaxEdits = 1` replaces any world by any other,
  or deletes the Prometheus CR, at any step; `MaxFaults = 1` fails a request of
  any step. With `Lifetime = Margin = Period = 3` a token is due one tick after it
  was fetched and the gate would stay shut for three. A margin of 2 ticks is less
  than an edit and a failure together can cost; an hour is far more than a few
  passes.
- The two rule files of `sync` have different names: `sync_rules` shares one.
- `volume` allows three failed requests, edits of the storage spec without bound,
  and no other claim; `volume_order` adds the claim of Alertmanager.
- In the controller and rollout runs deadlock is not checked: a system whose CR is
  gone and whose user is done stops. In `sync` and `volume` it is.
- The liveness runs of the rollout start with the CRDs installed. Without them
  the Alertmanager cleanup fails for as long as they are missing (hazard list).

### Fairness

Passes recur because the controller requeues a CR while it exists
(`updateStatus` returns a requeue delay, errors are retried); the worker,
informer and runnable are goroutines of a running process, and a Deployment
restarts the process. So these have weak fairness. `controller_live` adds that no
stage fails for ever (strong fairness of each stage's success over a current
copy). `sync` has weak fairness of the worker (written with the explicit condition
`Working` in place of ENABLED, which TLC evaluates slowly here) and of time; a tick
passes only when there was a pass since the last, because passes are seconds apart
and ticks stand for the minutes to hours of tokens and resync periods. `volume` has
weak fairness of the operator and of each reaction of Kubernetes except reclaiming,
which nothing depends on. In the rollout the cluster's reactions have weak
fairness: OLM resolves a subscription that can be resolved, operators start and
stop operands, the router admits a route in the end. Entering the gate of the
configuration stage has strong fairness: a resync period is finite, so of the
passes that ask again and again some find it over. Users, crashes, failed requests
and rejections have none.

## What is proved

`ControllerProofs` proves, for any stage lists, specs and bounds that satisfy
the four assumptions of `ObservabilityController` (non-empty lists of strings;
every installation stage but Migration has a cleanup stage; the default specs are
specs; bounds are naturals):

- `InductiveInvariant`: `Spec => []Inductive`
- `TypeCorrect`, `NoOrphansCorrect`, `StatusCorrect`: its consequences
- `LabelCorrect`: the action property `LabelLostOnlyWithFinalizer`

`NoOrphans` and `StatusIsHonest` are not inductive. `CopiesAgree` says that a
copy with the current resourceVersion equals the stored object, which is why an
accepted update may rely on what the pass read. `PassProgress` ties the position
in the loop to the stages that are dirty. `GuardedMode` says that as long as only
`noInit = TRUE` was used every pass has a finalizer on its copy and the stored
object keeps it. `StatusIsYoung` rules out that a pass over a deleted CR cleans
up under the status of its successor. The proof has a lemma per conjunct and
action group, and one step per action.

`LifecycleProofs` proves `LifecycleRefined`: `Spec => KeepsPromise`, the refinement
of `Lifecycle`, from the same assumptions. One lemma per group of actions shows
that, where `Inductive` holds, a step is a step of `Lifecycle` or leaves its
variables alone. `Inductive` is needed for `Report` (the status a pass writes is
true), `CleanUp` (no status claims what is being cleaned up) and `Release`
(a trusted operator has cleaned up).

`VolumeProofs` proves `MetricsSafe`: if no other claim is in the namespace, then
`Spec => []MetricsKept` for any number of failures. The inductive invariant is
`TypeOK /\ Inductive`: until the volume names the new claim the old claim is live,
no template is written and there is no new claim; from then on no other claim can
have the volume. The assumption cannot be dropped: `volume_order` refutes the
property without it.

Only model-checked: liveness, and everything in `StackRollout` and
`ConfigurationSync`; the latter rests on folds over sequences of any length, whose
value the provers cannot establish by induction.

## Not modelled

- Contents that only flow from a field into an object: templates, resource
  requirements, scrape jobs, the text of the promtail configuration, the outputs
  and pipelines of the log forwarder, the priority class in CSVs. No step of the
  operator depends on them.
- Metrics, logging, generated code, flags and health endpoints of `main`: nothing
  reads them back. Read-only lookups of cluster id and version.
- The HTTP requests for index files and tokens beyond success, failure and an answer
  without token, and the resources route used when running locally.
- The pods of operands: no step of the operator looks at them.
- Which index the selectors of Prometheus and the global mail settings come from is
  modelled, but no property speaks of it: the first index is any of them, and the
  repository does not say which is meant.
- Several CRs in one namespace. `InitializeOperand` loops over them but looks at
  the first (hazard list).
- The pods of operands with old names: the migration ignores the results of its
  waits for them, so no step depends on them.
- Configurations that end in a panic or a hang by a nil pointer no line of the
  repository speaks of are steps of the models (`panicked`, `hung`). Of the passing
  runs only `rollout_live` has such a start: its stack can still be deleted.
- Descoped stacks are modelled; `AccessOutlivesStatefulSet` and `CleanupComplete` are
  checked in `cr.Namespace` only, because the waits of the cleanup and the lookup
  of the operator group look in the wrong namespace (hazard list).

## Plan

1. `ComponentNames`: effective names and the webhook, with the rule of its
   comment that the `selfContained` block cannot be removed.
2. Several CRs beside `InitializeOperand`.
3. Proofs: type correctness and `MigratedMeansGone` of `StackRollout`.
