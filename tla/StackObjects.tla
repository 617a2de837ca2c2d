---------------------------- MODULE StackObjects ----------------------------
(***************************************************************************)
(* The cluster objects the stages of a pass handle.  An object is a pair   *)
(* of a name and a kind, as the getters of controllers/model build it; its *)
(* namespace follows from the spec of the CR.                              *)
(***************************************************************************)

\* Names of the three components, now and before the resource name migration.
Prometheus      == "obs-prometheus"
Alertmanager    == "obs-alertmanager"
Grafana         == "obs-grafana"
Promtail        == "obs-promtail"
OldPrometheus   == "kafka-prometheus"
OldAlertmanager == "kafka-alertmanager"
OldGrafana      == "kafka-grafana"
OldPromtail     == "kafka-promtail"

\* What runs an operand.
Access(name) == {<<name, "serviceaccount">>, <<name, "clusterrole">>,
                 <<name, "clusterrolebinding">>}

Cr(name)        == <<name, "cr">>
Route(name)     == <<name, "route">>
Service(name)   == <<name, "service">>
ProxySecret(name) == <<name, "proxy secret">>
TlsSecret(name) == <<name, "tls secret">>
Workload(name)  == <<name, "workload">>    \* its StatefulSet or Deployment
Rejected(name)  == <<name, "route rejected">>

\* What OLM needs to install an operator, and what it makes of it.
PrometheusOperator == "prometheus-operator"
GrafanaOperator    == "grafana-operator"
LoggingOperator    == "cluster-logging-operator"
Operators == {PrometheusOperator, GrafanaOperator, LoggingOperator}

Source(op)       == <<op, "catalogsource">>
Subscription(op) == <<op, "subscription">>
OperatorCsv(op)  == <<op, "csv">>
OldCsv(op)       == <<op, "old csv">>
Deployment(op)   == <<op, "deployment">>
Ready(op)        == <<op, "ready">>
Crds(op)         == <<op, "crds">>

OldGrafanaSubscription == <<GrafanaOperator, "old subscription">>
OperatorGroup       == <<"observability-operatorgroup", "operatorgroup">>
\* Operator groups that others made in cr.Namespace: one whose target namespaces
\* list it, and one for other or for all namespaces.
OlmOperatorGroup    == <<"olm", "operatorgroup">>
GlobalOperatorGroup == <<"global", "operatorgroup">>
PrometheusNamespace == <<"prometheus", "namespace">>
Terminating         == <<"prometheus", "namespace terminating">>
LoggingNamespace    == <<"openshift-logging", "namespace">>

ScrapeConfig       == <<"additional-scrape-configs", "secret">>
BlackBoxConfig     == <<"black-box-config", "configmap">>
TokenLifetimes     == <<"observatorium-token-lifetimes", "configmap">>
AlertmanagerConfig == <<"alertmanager-obs-alertmanager", "secret">>
GrafanaDatasource  == <<"on-cluster-prometheus", "grafanadatasource">>
Credentials        == <<"observatorium-credentials", "secret">>
TokenSecret        == <<"obs-token", "secret">>
OldAlertmanagerConfig == <<"alertmanager-kafka-alertmanager", "secret">>

ResourcesDeployment == <<"obs-resources", "deployment">>
ResourcesService    == <<"obs-resources", "service">>
ResourcesRoute      == <<"observability-resources-route", "route">>
ResourcesReady      == <<"obs-resources", "ready">>
RefresherService    == <<"token-refresher", "service">>
RefresherPolicy     == <<"token-refresher", "networkpolicy">>
RefresherDeployment == <<"token-refresher", "deployment">>
PromtailConfig      == <<"promtail-config", "configmap">>
PromtailDaemonSet   == <<"promtail", "daemonset">>
OldClaim            == <<"managed-services-prometheus-kafka-prometheus-0", "pvc">>

Dashboards  == <<"requested", "grafanadashboards">>
Rules       == <<"requested", "prometheusrules">>
PodMonitors == <<"requested", "podmonitors">>
DeadmansSwitch == <<"generated-deadmansswitch", "prometheusrules">>

\* A ClusterLogging object has the fixed name "instance"; it is ours if it
\* carries the managed-by label.
ClusterLogging        == <<"instance", "clusterlogging">>
ForeignClusterLogging == <<"instance", "unlabelled clusterlogging">>
ClusterLogForwarder   == <<"instance", "clusterlogforwarder">>

\* The configuration secret and the no-init ConfigMap a user provides.
ConfigSecret    == <<"configuration", "secret">>
NoInitConfigMap == <<"observability-operator-no-init", "configmap">>

\* The two fields of the CR status that steer later passes.
Migrated == <<"status", "migrated">>
Synced   == <<"status", "lastSynced">>

-----------------------------------------------------------------------------
(***************************************************************************)
(* Where objects live and which of them need a CRD.                        *)
(***************************************************************************)

\* The getters that use cr.GetPrometheusOperatorNamespace().
PrometheusNamespaced ==
    UNION {{Cr(n), Route(n), Service(n), ProxySecret(n), TlsSecret(n),
            Workload(n), Rejected(n), <<n, "serviceaccount">>} :
           n \in {Prometheus, Alertmanager, OldPrometheus, OldAlertmanager}}
    \cup {Source(PrometheusOperator), Subscription(PrometheusOperator),
          OperatorCsv(PrometheusOperator), OldCsv(PrometheusOperator),
          Deployment(PrometheusOperator), Ready(PrometheusOperator),
          OperatorGroup, ScrapeConfig, BlackBoxConfig, AlertmanagerConfig,
          OldAlertmanagerConfig, RefresherService, RefresherPolicy,
          RefresherDeployment, Rules, PodMonitors, DeadmansSwitch, OldClaim}

\* The kinds an operator brings.  A request for a kind whose CRD is missing
\* fails with a NoMatch error.
PrometheusKinds == {Cr(Prometheus), Cr(Alertmanager), Cr(OldPrometheus),
                    Cr(OldAlertmanager), Rules, PodMonitors, DeadmansSwitch}
GrafanaKinds == {Cr(Grafana), Cr(OldGrafana), GrafanaDatasource, Dashboards}
LoggingKinds == {ClusterLogging, ForeignClusterLogging, ClusterLogForwarder}

NoMatch(os, there) ==
    \/ os \cap PrometheusKinds # {} /\ Crds(PrometheusOperator) \notin there
    \/ os \cap GrafanaKinds # {} /\ Crds(GrafanaOperator) \notin there
    \/ os \cap LoggingKinds # {} /\ Crds(LoggingOperator) \notin there
=============================================================================
