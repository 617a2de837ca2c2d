---------------------------- MODULE StackStages ----------------------------
(***************************************************************************)
(* What the Reconcile and the Cleanup of every stage do to the cluster, as *)
(* a sequence of steps: one step per request that can change an object or  *)
(* end the pass.  The argument f holds the fields of the spec the stages   *)
(* branch on.                                                              *)
(***************************************************************************)
EXTENDS Sequences, Naturals, StageNames, StackObjects

Step(op, os) == [op |-> op, on |-> os, skip |-> 0]

Ensure(o)    == <<Step("ensure", {o})>>      \* CreateOrUpdate
Attempt(o)   == <<Step("attempt", {o})>>     \* ... whose error is only logged
Delete(o)    == <<Step("delete", {o})>>      \* NotFound is no error
DeleteAny(o) == <<Step("deleteAny", {o})>>   \* nor is NoMatch
Retire(os)   == <<Step("retire", os)>>       \* delete one, then stay in progress
Await(o)     == <<Step("await", {o})>>       \* in progress until o is there
AwaitGone(o) == <<Step("awaitGone", {o})>>   \* in progress while o is there
Mark(b)      == <<Step("mark", {b})>>        \* set a field of the next status
Unmark(b)    == <<Step("unmark", {b})>>      \* reset it
Stop         == <<Step("stop", {})>>         \* failed, or in progress
Panic        == <<Step("panic", {})>>        \* a nil pointer is dereferenced

Branch(op, os, steps) ==
    <<[op |-> op, on |-> os, skip |-> Len(steps)]>> \o steps

Unless(os, steps) == Branch("unless", os, steps)   \* skipped if any is there
When(os, steps)   == Branch("when", os, steps)     \* skipped if any is not
Gate(os, steps)   == Branch("gate", os, steps)     \* may be skipped if all are
Either(steps)     == Gate({}, steps)               \* as the indexes say

If(c, steps) == IF c THEN steps ELSE <<>>

\* DeleteEach(<<a, b>>) deletes a, then b.
DeleteEach(os) == [i \in 1..Len(os) |-> Step("delete", {os[i]})]
EnsureEach(os) == [i \in 1..Len(os) |-> Step("ensure", {os[i]})]

-----------------------------------------------------------------------------
(***************************************************************************)
(* The fields of the spec.  logging is disableLogging of the selfContained *)
(* block: "on" (false), "off" (true), "unset", or "none" when the CR has   *)
(* no selfContained block at all.  named: the three default names are      *)
(* given.  container: the configured repository is an image, not GitHub.   *)
(***************************************************************************)
Flags ==
    {f \in [descoped : BOOLEAN, externalSyncOff : BOOLEAN,
            observatoriumOff : BOOLEAN, logging : {"on", "off", "unset", "none"},
            selector : BOOLEAN, named : BOOLEAN, ownConfigSecret : BOOLEAN,
            container : BOOLEAN] :
        f.logging = "none" =>
            /\ ~f.externalSyncOff /\ ~f.observatoriumOff
            /\ ~f.ownConfigSecret}

\* What a list in cr.Namespace returns of the objects os.
InCrNamespace(f, os) == IF f.descoped THEN os \ PrometheusNamespaced ELSE os

\* A list in cr.Namespace and the deletion of what it returns of os.  A missing
\* CRD fails the list.
Sweep(f, os) == DeleteEach(SelectSeq(os, LAMBDA o : o \in InCrNamespace(f, {o})))

\* Mutant: the result of the wait is ignored.
WaitForRemoval_Ignored(f, name) == <<>>

\* A wait that looks for the StatefulSet or Deployment of an operand in
\* cr.Namespace.  It does not look for pods.
WaitForRemoval(f, name) ==
    If(InCrNamespace(f, {Workload(name)}) # {}, AwaitGone(Workload(name)))

NoPromtail(f) == f.observatoriumOff \/ f.externalSyncOff

-----------------------------------------------------------------------------
PrometheusInstallation_Namespace == Ensure(PrometheusNamespace)

\* Mutant: only the subscription of the old operator goes.
PrometheusInstallation_CatalogSource_KeepsCsv ==
    Unless({Source(PrometheusOperator)}, Delete(Subscription(PrometheusOperator)))
    \o Ensure(Source(PrometheusOperator))

removePrometheusOperatorResources ==
    Delete(Subscription(PrometheusOperator)) \o Delete(OldCsv(PrometheusOperator))

\* Without a catalog source the operator installed from the old one goes first.
PrometheusInstallation_CatalogSource ==
    Unless({Source(PrometheusOperator)}, removePrometheusOperatorResources)
    \o Ensure(Source(PrometheusOperator))

PrometheusInstallation_Subscription == Ensure(Subscription(PrometheusOperator))

waitForPrometheusOperator == Await(Ready(PrometheusOperator))

\* The groups that HasOperatorGroupForNamespace finds: those in cr.Namespace that
\* have it among their target namespaces.
GroupsForNamespace(f) == InCrNamespace(f, {OlmOperatorGroup, OperatorGroup})

\* The operator group is made in the namespace of the Prometheus operator.
PrometheusInstallation_OperatorGroup(f) ==
    Unless(GroupsForNamespace(f), Ensure(OperatorGroup))

PrometheusInstallation_Reconcile(f) ==
    If(f.descoped, PrometheusInstallation_Namespace)
    \o PrometheusInstallation_CatalogSource
    \o PrometheusInstallation_Subscription
    \o PrometheusInstallation_OperatorGroup(f)
    \o waitForPrometheusOperator

PrometheusInstallation_Cleanup(f) ==
    DeleteEach(<<Subscription(PrometheusOperator), OperatorGroup,
                 Source(PrometheusOperator)>>)
    \o If(f.descoped, Delete(PrometheusNamespace))

-----------------------------------------------------------------------------
\* A route that is not there, or that the router rejects, holds the pass up.
WaitForRoute(name) == Await(Route(name)) \o AwaitGone(Rejected(name))

PrometheusConfiguration_ProxySecret == Ensure(ProxySecret(Prometheus))

PrometheusConfiguration_ServiceAccount == Ensure(<<Prometheus, "serviceaccount">>)

PrometheusConfiguration_ClusterRole ==
    EnsureEach(<<<<Prometheus, "clusterrole">>,
                 <<Prometheus, "clusterrolebinding">>>>)

PrometheusConfiguration_Service == Ensure(Service(Prometheus))

PrometheusConfiguration_Route ==
    Ensure(Route(Prometheus)) \o WaitForRoute(Prometheus)

PrometheusConfiguration_TokenLifetimes == Ensure(TokenLifetimes)

PrometheusConfiguration_Reconcile(f) ==
    PrometheusConfiguration_ProxySecret
    \o PrometheusConfiguration_ServiceAccount
    \o PrometheusConfiguration_ClusterRole
    \o PrometheusConfiguration_Service
    \o PrometheusConfiguration_Route
    \o PrometheusConfiguration_TokenLifetimes

\* Mutant: the TLS secret goes before the service it is issued for.
PrometheusConfiguration_Cleanup_TlsFirst(f) ==
    DeleteEach(<<ScrapeConfig, Route(Prometheus)>>)
    \o DeleteAny(Cr(Prometheus))
    \o WaitForRemoval(f, Prometheus)
    \o DeleteEach(<<<<Prometheus, "clusterrolebinding">>,
                    <<Prometheus, "clusterrole">>,
                    <<Prometheus, "serviceaccount">>, TlsSecret(Prometheus),
                    Service(Prometheus), ProxySecret(Prometheus)>>)

PrometheusConfiguration_Cleanup(f) ==
    DeleteEach(<<ScrapeConfig, Route(Prometheus)>>)
    \o DeleteAny(Cr(Prometheus))
    \o WaitForRemoval(f, Prometheus)
    \o DeleteEach(<<<<Prometheus, "clusterrolebinding">>,
                    <<Prometheus, "clusterrole">>,
                    <<Prometheus, "serviceaccount">>, Service(Prometheus),
                    ProxySecret(Prometheus), TlsSecret(Prometheus)>>)

-----------------------------------------------------------------------------
\* The community subscription is deleted, then one of the CSVs; the branch is
\* not taken again once the subscription is gone.
GrafanaInstallation_UnrequestedSubscriptions ==
    When({OldGrafanaSubscription},
         Delete(OldGrafanaSubscription)
         \o Retire({OldCsv(GrafanaOperator), OperatorCsv(GrafanaOperator)}))

GrafanaInstallation_Operator(f) ==
    EnsureEach(<<Source(GrafanaOperator), Subscription(GrafanaOperator)>>)
    \o Unless(GroupsForNamespace(f), Ensure(OperatorGroup))
    \o Await(Ready(GrafanaOperator))

GrafanaInstallation_Reconcile(f) ==
    If(~f.descoped,
       GrafanaInstallation_UnrequestedSubscriptions
       \o GrafanaInstallation_Operator(f))

\* The old and the new subscription have the same name.
GrafanaInstallation_Cleanup(f) ==
    If(~f.descoped,
       Delete(Source(GrafanaOperator))
       \o <<Step("delete", {Subscription(GrafanaOperator),
                            OldGrafanaSubscription})>>
       \o Delete(OperatorGroup)
       \o Sweep(f, <<Deployment(GrafanaOperator)>>))

GrafanaConfiguration_Objects ==
    EnsureEach(<<ProxySecret(Grafana), <<Grafana, "clusterrole">>,
                 <<Grafana, "clusterrolebinding">>, GrafanaDatasource>>)

GrafanaConfiguration_Reconcile(f) == If(~f.descoped, GrafanaConfiguration_Objects)

\* Mutant: the stage waits for the pods before it deletes the operand.
GrafanaConfiguration_Cleanup_WaitsFirst(f) ==
    If(~f.descoped, WaitForRemoval(f, Grafana) \o DeleteAny(Cr(Grafana)))

GrafanaConfiguration_Cleanup(f) ==
    If(~f.descoped,
       DeleteAny(Cr(Grafana))
       \o WaitForRemoval(f, Grafana)
       \o DeleteAny(GrafanaDatasource)
       \o DeleteEach(<<ProxySecret(Grafana), <<Grafana, "clusterrolebinding">>,
                       <<Grafana, "clusterrole">>>>))

-----------------------------------------------------------------------------
AlertmanagerInstallation_Access ==
    EnsureEach(<<<<Alertmanager, "serviceaccount">>,
                 <<Alertmanager, "clusterrole">>,
                 <<Alertmanager, "clusterrolebinding">>>>)

AlertmanagerInstallation_Endpoint ==
    EnsureEach(<<Service(Alertmanager), Route(Alertmanager)>>)

AlertmanagerInstallation_ProxySecret == Ensure(ProxySecret(Alertmanager))

AlertmanagerInstallation_Reconcile(f) ==
    AlertmanagerInstallation_ProxySecret
    \o AlertmanagerInstallation_Access
    \o AlertmanagerInstallation_Endpoint
    \o WaitForRoute(Alertmanager)

\* Unlike the other two operands, a missing CRD is an error here, and the TLS
\* secret goes before the service it is issued for.
AlertmanagerInstallation_Cleanup(f) ==
    Delete(Cr(Alertmanager))
    \o WaitForRemoval(f, Alertmanager)
    \o DeleteEach(<<AlertmanagerConfig, ProxySecret(Alertmanager),
                    TlsSecret(Alertmanager), Route(Alertmanager),
                    Service(Alertmanager), <<Alertmanager, "serviceaccount">>,
                    <<Alertmanager, "clusterrole">>,
                    <<Alertmanager, "clusterrolebinding">>>>)

PromtailInstallation_Access ==
    EnsureEach(<<<<Promtail, "serviceaccount">>, <<Promtail, "clusterrole">>,
                 <<Promtail, "clusterrolebinding">>>>)

PromtailInstallation_Reconcile(f) == If(~NoPromtail(f), PromtailInstallation_Access)

PromtailInstallation_Cleanup(f) ==
    If(~NoPromtail(f),
       DeleteEach(<<<<Promtail, "clusterrolebinding">>,
                    <<Promtail, "clusterrole">>,
                    <<Promtail, "serviceaccount">>>>))

-----------------------------------------------------------------------------
\* A ClusterLogging object that others made is left as it is.
createClusterLoggingCr == Unless({ForeignClusterLogging}, Ensure(ClusterLogging))

\* The forwarder gets no label, so once made it is taken for a foreign one.
createClusterLogForwarderCr ==
    Unless({ClusterLogForwarder}, Ensure(ClusterLogForwarder))

\* Only an operator that this stage subscribed to gets the two objects.
LoggingInstallation_Operator ==
    Unless({Deployment(LoggingOperator)},
           Ensure(Subscription(LoggingOperator)) \o Await(Ready(LoggingOperator)))
    \o When({Subscription(LoggingOperator)},
            createClusterLoggingCr \o createClusterLogForwarderCr)

\* An unset disableLogging skips the stage where the no-init ConfigMap exists.
\* The guard for that asks for a selfContained block; the one after it reads the
\* field without asking.
LoggingInstallation_Reconcile(f) ==
    LET install == When({LoggingNamespace}, LoggingInstallation_Operator)
    IN  If(~f.descoped,
           CASE f.logging = "off" -> <<>>
             [] f.logging = "unset" -> Unless({NoInitConfigMap}, install)
             [] f.logging = "none" -> Panic
             [] f.logging = "on" -> install)

\* The CSV to delete is read from the subscription, which is deleted first.
LoggingInstallation_Cleanup(f) ==
    If(~f.descoped,
       When({Subscription(LoggingOperator)},
            Await(OperatorCsv(LoggingOperator))
            \o DeleteEach(<<Subscription(LoggingOperator),
                            OperatorCsv(LoggingOperator)>>)
            \o <<Step("delete", {ClusterLogging, ForeignClusterLogging})>>
            \o Delete(ClusterLogForwarder)))

-----------------------------------------------------------------------------
\* Setting the priority class on the CSVs leaves the set of objects alone.
Csv_Reconcile(f) == <<>>

Csv_Cleanup(f) ==
    Retire(InCrNamespace(f, UNION {{OperatorCsv(op), OldCsv(op)} :
                                   op \in {PrometheusOperator, GrafanaOperator}}))

TokenRequest_Reconcile(f) == <<>>

TokenRequest_Cleanup(f) == Delete(Credentials)

-----------------------------------------------------------------------------
(***************************************************************************)
(* Resource name migration.  The waits between the deletions ignore their  *)
(* result, so they are no steps.                                           *)
(***************************************************************************)
Migration_Prometheus ==
    DeleteEach(<<Cr(OldPrometheus), Route(OldPrometheus), Service(OldPrometheus),
                 <<OldPrometheus, "serviceaccount">>,
                 <<OldPrometheus, "clusterrole">>,
                 <<OldPrometheus, "clusterrolebinding">>>>)

Migration_Alertmanager(f) ==
    If(~f.ownConfigSecret /\ ~f.externalSyncOff, Delete(OldAlertmanagerConfig))
    \o DeleteEach(<<Cr(OldAlertmanager), <<OldAlertmanager, "serviceaccount">>,
                    Route(OldAlertmanager), Service(OldAlertmanager),
                    <<OldAlertmanager, "clusterrole">>,
                    <<OldAlertmanager, "clusterrolebinding">>>>)

Migration_Promtail ==
    DeleteEach(<<<<OldPromtail, "serviceaccount">>,
                 <<OldPromtail, "clusterrole">>,
                 <<OldPromtail, "clusterrolebinding">>>>)

\* Mutant: the flag is set before the objects are deleted.
Migration_Reconcile_MarksFirst(f) ==
    Unless({Migrated},
           Mark(Migrated)
           \o If(~f.named, Migration_Prometheus \o Migration_Alertmanager(f))
           \o If(~f.descoped /\ ~f.named, Delete(Cr(OldGrafana)))
           \o If(~f.externalSyncOff \/ ~f.observatoriumOff, Migration_Promtail))

Migration_Reconcile(f) ==
    Unless({Migrated},
           If(~f.named, Migration_Prometheus \o Migration_Alertmanager(f))
           \o If(~f.descoped /\ ~f.named, Delete(Cr(OldGrafana)))
           \o If(~f.externalSyncOff \/ ~f.observatoriumOff, Migration_Promtail)
           \o Mark(Migrated))

-----------------------------------------------------------------------------
(***************************************************************************)
(* The Configuration stage.  One configuration secret names one repository *)
(* whose index asks for every kind of resource.                            *)
(***************************************************************************)

ReconcileResourcesDeployment == Ensure(ResourcesDeployment)

ReconcileResourcesService == Ensure(ResourcesService)

waitForResourcesDeployment == Await(ResourcesReady)

\* A repository that is an image is served by a deployment in cr.Namespace;
\* its index is read through the namespace of the Prometheus operator.
Configuration_Repository(f) ==
    If(f.container,
       ReconcileResourcesDeployment
       \o ReconcileResourcesService
       \o waitForResourcesDeployment
       \o If(f.descoped, Stop))

\* Without external sync there is no index, and no secret is requested.
deleteUnrequestedCredentialSecrets(f) == If(f.externalSyncOff, Delete(TokenSecret))

\* A failure to fetch the token is logged and the pass goes on.
ReconcileObservatoria(f) == If(~NoPromtail(f), Attempt(TokenSecret))

\* Nothing should exist with external sync or Observatorium off.  Else shouldExist
\* says no if there is an OAuth2 secret, and at the first index without config or
\* observatorium without sso, so a refresher that is made below may go here first.
Configuration_UnrequestedRefreshers(f) ==
    LET gone == DeleteEach(<<RefresherDeployment, RefresherPolicy>>)
    IN  IF NoPromtail(f) THEN gone ELSE Either(gone)

createServiceFor == Ensure(RefresherService)

createNetworkPolicyFor == Ensure(RefresherPolicy)

createDeploymentFor == createNetworkPolicyFor \o Ensure(RefresherDeployment)

\* An observatorium with sso asks for a refresher, unless there is an OAuth2
\* secret.  With external sync off there is no index to ask.
reconcileTokenRefresher(f) ==
    If(~NoPromtail(f), Either(createServiceFor \o createDeploymentFor))

reconcileAlertmanagerSecret(f) ==
    If(~f.externalSyncOff /\ ~f.ownConfigSecret, Ensure(AlertmanagerConfig))

createAdditionalScrapeConfigSecret == Ensure(ScrapeConfig)

createBlackBoxConfig == Ensure(BlackBoxConfig)

reconcileAlertmanager == Ensure(Cr(Alertmanager))

removePVCPostMigration == Delete(OldClaim)

reconcilePrometheus == Ensure(Cr(Prometheus)) \o removePVCPostMigration

reconcileGrafanaCr == Ensure(Cr(Grafana))

createRequestedDashboards == Ensure(Dashboards)

\* Every rule no index asks for goes, the generated one included.
deleteUnrequestedRules == Delete(DeadmansSwitch)

createRequestedRules == Ensure(Rules)

createRequestedPodMonitors == Ensure(PodMonitors)

createDMSAlert == Ensure(DeadmansSwitch)

Configuration_Monitoring(f) ==
    IF f.externalSyncOff
    THEN createDMSAlert
    ELSE If(~f.descoped, createRequestedDashboards)
         \o deleteUnrequestedRules
         \o createRequestedRules
         \o createRequestedPodMonitors

\* Mutant: only the switch for Observatorium is looked at.
deleteUnrequestedDaemonsets_ObservatoriumOnly(f) ==
    If(f.observatoriumOff, Delete(PromtailDaemonSet))

deleteUnrequestedDaemonsets(f) == If(NoPromtail(f), Delete(PromtailDaemonSet))

createPromtailConfigFor == Ensure(PromtailConfig)

createPromtailDaemonsetFor(f) ==
    If(~NoPromtail(f), createPromtailConfigFor \o Ensure(PromtailDaemonSet))

Configuration_Apply(f) ==
    deleteUnrequestedCredentialSecrets(f)
    \o ReconcileObservatoria(f)
    \o Configuration_UnrequestedRefreshers(f)
    \o reconcileTokenRefresher(f)
    \o reconcileAlertmanagerSecret(f)
    \o createAdditionalScrapeConfigSecret
    \o createBlackBoxConfig
    \o reconcileAlertmanager
    \o reconcilePrometheus
    \o If(~f.descoped, reconcileGrafanaCr)
    \o Configuration_Monitoring(f)
    \o deleteUnrequestedDaemonsets(f)
    \o createPromtailDaemonsetFor(f)

Configuration_Read(f) ==
    If(~f.externalSyncOff,
       Unless({ConfigSecret}, Unmark(Synced) \o Stop)
       \o Configuration_Repository(f))

Configuration_Stamp(f) ==
    IF f.externalSyncOff THEN Unmark(Synced) ELSE Mark(Synced)

\* Mutant: the time stamp is set before the resources are applied.
Configuration_Sync_StampsFirst(f) ==
    Configuration_Read(f) \o Configuration_Stamp(f) \o Configuration_Apply(f)

\* A sync, from the configuration secrets to the time stamp in the status.
Configuration_Sync(f) ==
    Configuration_Read(f) \o Configuration_Apply(f) \o Configuration_Stamp(f)

\* Within the resync period a sync is skipped, unless a token has expired or an
\* operand is missing.
OperandCrs(f) == {Cr(Prometheus), Cr(Alertmanager)}
                 \cup (IF f.descoped THEN {} ELSE {Cr(Grafana)})

Configuration_Reconcile(f) ==
    CASE ~f.selector /\ ~f.externalSyncOff -> <<>>
      [] ~f.selector /\ f.externalSyncOff -> Panic
      [] f.selector /\ f.externalSyncOff -> Configuration_Sync(f)
      [] f.selector /\ ~f.externalSyncOff ->
            Gate({Synced} \cup OperandCrs(f), Configuration_Sync(f))

\* Objects are found by label in cr.Namespace.  The rules and pod monitors of a
\* descoped stack are not there, but listing them takes their CRDs.
Configuration_Cleanup(f) ==
    Sweep(f, <<TokenSecret, TokenLifetimes, BlackBoxConfig, PromtailConfig>>)
    \o If(~f.externalSyncOff,
          If(~f.descoped, Sweep(f, <<Dashboards>>))
          \o (IF f.descoped THEN Unless({Crds(PrometheusOperator)}, Stop)
                            ELSE Sweep(f, <<Rules, PodMonitors>>)))
    \o Sweep(f, <<PromtailDaemonSet, RefresherDeployment>>)
    \o DeleteEach(<<ResourcesDeployment, ResourcesService, ResourcesRoute>>)
    \o Sweep(f, <<RefresherPolicy>>)

-----------------------------------------------------------------------------
(***************************************************************************)
(* The steps of a whole pass: those of its stages, in the order of the     *)
(* controller's two stage lists.                                           *)
(***************************************************************************)
ReconcilerForStage(p, stage, f) ==
    LET install == p = "live"
        Part(reconcile, cleanup) == IF install THEN reconcile ELSE cleanup
    IN CASE stage = TokenRequest ->
              Part(TokenRequest_Reconcile(f), TokenRequest_Cleanup(f))
         [] stage = PrometheusInstallation ->
              Part(PrometheusInstallation_Reconcile(f),
                    PrometheusInstallation_Cleanup(f))
         [] stage = PrometheusConfiguration ->
              Part(PrometheusConfiguration_Reconcile(f),
                    PrometheusConfiguration_Cleanup(f))
         [] stage = GrafanaInstallation ->
              Part(GrafanaInstallation_Reconcile(f), GrafanaInstallation_Cleanup(f))
         [] stage = GrafanaConfiguration ->
              Part(GrafanaConfiguration_Reconcile(f),
                    GrafanaConfiguration_Cleanup(f))
         [] stage = AlertmanagerInstallation ->
              Part(AlertmanagerInstallation_Reconcile(f),
                    AlertmanagerInstallation_Cleanup(f))
         [] stage = PromtailInstallation ->
              Part(PromtailInstallation_Reconcile(f),
                    PromtailInstallation_Cleanup(f))
         [] stage = LoggingInstallation ->
              Part(LoggingInstallation_Reconcile(f), LoggingInstallation_Cleanup(f))
         [] stage = Csv -> Part(Csv_Reconcile(f), Csv_Cleanup(f))
         [] stage = Migration -> Part(Migration_Reconcile(f), <<>>)
         [] stage = Configuration ->
              Part(Configuration_Reconcile(f), Configuration_Cleanup(f))
=============================================================================
